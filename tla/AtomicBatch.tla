----------------------------- MODULE AtomicBatch -----------------------------
(* What the callers of batch() may rely on: the writes of a batch get into  *)
(* the database in one step.  That is the step that answers it with success; *)
(* or, if nothing but a timeout answers it, a later one of its own: such a  *)
(* batch is in limbo, and no other succeeds until it has settled.  An error *)
(* keeps nothing.  Afterwards the writes stay as they are, whatever becomes *)
(* of the other batches.                                                    *)
CONSTANT Requests
VARIABLES
    kept, \* the writes of each batch that are in the database
    told, \* its answer
    limbo \* the batch, if any, whose writes may come after its answer

Init ==
    /\ kept = [r \in Requests |-> {}]
    /\ told = [r \in Requests |-> "none"]
    /\ limbo = {}

OthersStay(r) == \A q \in Requests \ {r} : kept'[q] = kept[q]

Finish(r) ==
    /\ told[r] = "none"
    /\ \E answer \in {"ok", "error", "timeout", "gone"} :
          /\ told' = [told EXCEPT ![r] = answer]
          /\ answer = "ok" => limbo = {}
          /\ answer # "ok" => kept'[r] = {}
          /\ \/ limbo' = limbo
             \/ answer \in {"timeout", "gone"} /\ limbo = {} /\ limbo' = {r}
    /\ OthersStay(r)

\* Its writes come now, or never.
Settle(r) ==
    /\ r \in limbo
    /\ limbo' = {}
    /\ told' = told
    /\ OthersStay(r)

Next == \E r \in Requests : Finish(r) \/ Settle(r)

Spec == Init /\ [][Next]_<<kept, told, limbo>>
=============================================================================
