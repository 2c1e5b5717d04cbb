--------------------------- MODULE RecencyProofs ---------------------------
(***************************************************************************)
(* For any names, limits and intervals: an idle database looks as young as *)
(* its last use made it, and is asleep in time.                            *)
(*                                                                         *)
(* The second goes by how far age, which a checkpoint sets back, is behind *)
(* the time it stands for (Lags).  While no checkpoint has touched a     *)
(* database since its last use that time is quiet; afterwards it is the    *)
(* time since the checkpoint, and quiet may be as much larger as the       *)
(* checkpoint was late.  No second checkpoint meets it: cleanup comes      *)
(* first, when checkpoints are rarer than that takes.                      *)
(***************************************************************************)
EXTENDS Recency, FiniteSetTheorems, TLAPS

\* The longest that cleanup takes to find a database that nobody touches.
Wait == IdleTimeout + CleanupInterval

\* When the rounds of the background tasks have something in hand.
Rounds ==
    /\ IsFiniteSet(awake)
    /\ \A n \in Names : age[n] >= -behind /\ (inUse[n] > 0 => n \in awake)
    /\ ~cleaning => stale = {}
    /\ ~checkpointing => todo = {} /\ held = None
    /\ checkpointing => checkpointIn = CheckpointInterval
    /\ held \notin todo

\* The last use of a database is seen, and time does not go on meanwhile.
Used ==
    /\ \A n \in Names : Idle(n) \/ n \in ending => age[n] <= quiet[n] + ahead
    /\ \A n \in Names : inUse[n] > 0 => quiet[n] = 0

\* Age is behind quiet by no more than behind and extra, and if cleanup would
\* find n stale, it does so before quiet is more than that and Wait, or has.
Lags(n, extra) ==
    /\ quiet[n] - age[n] <= behind + extra
    /\ age[n] >= IdleTimeout =>
         \/ quiet[n] + cleanupIn <= behind + extra + Wait
         \/ n \in stale /\ quiet[n] <= behind + extra + Wait

\* No checkpoint has touched n since its last use.
Untouched(n) == Lags(n, 0)

\* The last checkpoint has; the same goes for the time since then.
SinceCheckpoint == CheckpointInterval - checkpointIn
Touched(n) ==
    /\ SinceCheckpoint - age[n] <= behind
    /\ age[n] >= IdleTimeout =>
         \/ SinceCheckpoint + cleanupIn <= behind + Wait
         \/ n \in stale /\ SinceCheckpoint <= behind + Wait
    /\ Lags(n, Wait)

Resting(n) ==
    /\ Idle(n) => Untouched(n) \/ Touched(n)
    /\ Idle(n) /\ n \in todo => Untouched(n)
    /\ held = n => quiet[n] <= behind + Wait

Rare == CheckpointInterval > Wait + behind

IInv == TypeOK /\ Rounds /\ Used /\ (Rare => \A n \in Names : Resting(n))
-----------------------------------------------------------------------------
(* The types and the rounds. *)

\* What is assumed of the constants.
LEMMA Constants ==
    /\ MaxOpenDatabases \in Nat /\ MaxRequests \in Nat /\ MaxRequests > 0
    /\ MaxOpenDatabases > 0
    /\ IdleTimeout \in Nat /\ MaxSkew \in Nat
    /\ CleanupInterval \in Nat /\ CleanupInterval > 0
    /\ CheckpointInterval \in Nat /\ CheckpointInterval > 0
    /\ AgeCap \in Nat /\ AgeCap > IdleTimeout /\ AgeCap > Wait + MaxSkew
    /\ None \notin Names
<1>1. {MaxOpenDatabases, MaxRequests, CleanupInterval, CheckpointInterval} \subseteq Nat \ {0}
  BY RecencyAssumption
<1>2. {IdleTimeout, MaxSkew} \subseteq Nat /\ None \notin Names
  BY RecencyAssumption
<1>3. /\ MaxOpenDatabases \in Nat \ {0} /\ MaxRequests \in Nat \ {0}
      /\ CleanupInterval \in Nat \ {0} /\ CheckpointInterval \in Nat \ {0}
      /\ IdleTimeout \in Nat /\ MaxSkew \in Nat
  BY <1>1, <1>2
<1>4. AgeCap \in Nat /\ AgeCap > IdleTimeout /\ AgeCap > Wait + MaxSkew
  BY <1>3 DEF AgeCap, Wait
<1>. QED
  BY <1>2, <1>3, <1>4

\* No database has come yet.
LEMMA BasicsInit == Init => TypeOK /\ Rounds
<1>. SUFFICES ASSUME Init PROVE TypeOK /\ Rounds
  OBVIOUS
<1>1. IsFiniteSet(awake) /\ Cardinality(awake) = 0
  BY FS_EmptySet DEF Init
<1>2. /\ 0 \in -MaxSkew..AgeCap /\ 0 \in 0..AgeCap /\ 0 \in 0..MaxRequests /\ 0 \in 0..MaxSkew
      /\ CleanupInterval \in 0..CleanupInterval /\ CheckpointInterval \in 0..CheckpointInterval
      /\ 0 <= MaxOpenDatabases
  BY Constants
<1>3. ending = {} /\ cleaning \in BOOLEAN /\ checkpointing \in BOOLEAN
  BY DEF Init
<1>4. TypeOK
  BY <1>1, <1>2, <1>3 DEF Init, TypeOK
<1>5. Rounds
  BY <1>1, Constants DEF Init, Rounds
<1>. QED
  BY <1>4, <1>5

\* Databases that come or go have no past.
LEMMA Changed ==
    ASSUME TypeOK, Rounds, NEW in \in SUBSET Names, NEW out \in SUBSET Names, Change(in, out)
    PROVE  /\ awake' \subseteq Names
           /\ age' \in [Names -> -MaxSkew..AgeCap] /\ quiet' \in [Names -> 0..AgeCap]
           /\ \A n \in Names : age'[n] >= -behind
           /\ \A n \in Names :
                \/ age'[n] = 0 /\ quiet'[n] = 0
                \/ n \notin in \cup out /\ age'[n] = age[n] /\ quiet'[n] = quiet[n]
<1>1. behind \in Nat /\ MaxSkew \in Nat /\ AgeCap \in Nat
  BY Constants DEF TypeOK
<1>2. 0 \in -MaxSkew..AgeCap /\ 0 \in 0..AgeCap /\ 0 >= -behind
  BY <1>1
<1>3. /\ age' = [n \in Names |-> IF n \in in \cup out THEN 0 ELSE age[n]]
      /\ quiet' = [n \in Names |-> IF n \in in \cup out THEN 0 ELSE quiet[n]]
      /\ awake' = (awake \ out) \cup in
  BY DEF Change
<1>. QED
  BY <1>2, <1>3 DEF TypeOK, Rounds

\* A database comes if there is room, or in the place of another.
LEMMA RoomKept ==
    ASSUME TypeOK, Rounds, NEW n \in Names,
           \/ Cardinality(awake) < MaxOpenDatabases /\ awake' = awake \cup {n}
           \/ awake' = awake \ {n}
           \/ \E m \in awake : awake' = (awake \ {m}) \cup {n}
    PROVE  IsFiniteSet(awake') /\ Cardinality(awake') <= MaxOpenDatabases
<1>1. IsFiniteSet(awake) /\ Cardinality(awake) \in Nat /\ Cardinality(awake) <= MaxOpenDatabases
  BY FS_CardinalityType DEF TypeOK, Rounds
<1>2. CASE Cardinality(awake) < MaxOpenDatabases /\ awake' = awake \cup {n}
  <2>1. /\ IsFiniteSet(awake \cup {n})
        /\ Cardinality(awake \cup {n}) \in {Cardinality(awake), Cardinality(awake) + 1}
    BY <1>1, FS_AddElement
  <2>. QED
    BY <1>1, <1>2, <2>1, Constants
<1>3. CASE awake' = awake \ {n}
  <2>1. IsFiniteSet(awake \ {n}) /\ Cardinality(awake \ {n}) \in {Cardinality(awake), Cardinality(awake) - 1}
    BY <1>1, FS_RemoveElement
  <2>. QED
    BY <1>1, <1>3, <2>1, Constants
<1>4. ASSUME NEW m \in awake, awake' = (awake \ {m}) \cup {n}
      PROVE  IsFiniteSet(awake') /\ Cardinality(awake') <= MaxOpenDatabases
  <2>1. IsFiniteSet(awake \ {m}) /\ Cardinality(awake \ {m}) = Cardinality(awake) - 1
    BY <1>1, FS_RemoveElement
  <2>2. IsFiniteSet(awake') /\ Cardinality(awake') <= Cardinality(awake \ {m}) + 1
    <3>1. IsFiniteSet((awake \ {m}) \cup {n})
      BY <2>1, FS_AddElement
    <3>2. Cardinality((awake \ {m}) \cup {n})
            = IF n \in awake \ {m} THEN Cardinality(awake \ {m}) ELSE Cardinality(awake \ {m}) + 1
      BY <2>1, FS_AddElement
    <3>. QED
      BY <1>1, <1>4, <2>1, <3>1, <3>2
  <2>3. Cardinality(awake') \in Nat
    BY <2>2, FS_CardinalityType
  <2>. QED
    BY <1>1, <2>1, <2>2, <2>3, Constants
<1>. QED
  BY <1>2, <1>3, <1>4

\* Types, room and rounds stay.
LEMMA BasicsNext ==
    ASSUME TypeOK, Rounds, [Next]_vars
    PROVE  TypeOK' /\ Rounds'
<1>. USE Constants DEF TypeOK, Rounds, requests, eviction, cleaner, checkpointer, clock
<1>1. ASSUME NEW n \in Names, Admit(n) PROVE TypeOK' /\ Rounds'
  <2>1. Change({n}, {}) /\ awake' = awake \cup {n} /\ todo' = todo
    BY <1>1 DEF Admit, Change
  <2>2. IsFiniteSet(awake') /\ Cardinality(awake') <= MaxOpenDatabases
    BY <1>1, <2>1, RoomKept DEF Admit
  <2>3. /\ age' \in [Names -> -MaxSkew..AgeCap] /\ quiet' \in [Names -> 0..AgeCap]
        /\ \A m \in Names : age'[m] >= -behind
    BY <2>1, Changed
  <2>. QED
    BY <1>1, <2>1, <2>2, <2>3 DEF Admit
<1>2. ASSUME NEW n \in Names, PickVictim(n) PROVE TypeOK' /\ Rounds'
  BY <1>2 DEF PickVictim
<1>3. ASSUME TakeVictim PROVE TypeOK' /\ Rounds'
  <2>1. CASE Idle(candidate) /\ Change({newcomer}, {candidate})
    <3>1. newcomer \in Names /\ candidate \in awake
      BY <1>3, <2>1 DEF TakeVictim, Idle
    <3>2. awake' = (awake \ {candidate}) \cup {newcomer} /\ todo' = todo \ {candidate}
      BY <2>1 DEF Change
    <3>3. IsFiniteSet(awake') /\ Cardinality(awake') <= MaxOpenDatabases
      BY <3>1, <3>2, RoomKept
    <3>4. /\ age' \in [Names -> -MaxSkew..AgeCap] /\ quiet' \in [Names -> 0..AgeCap]
          /\ \A m \in Names : age'[m] >= -behind
      BY <2>1, <3>1, Changed
    <3>5. candidate \notin ending /\ held # candidate /\ ~(inUse[candidate] > 0)
      BY <2>1, <3>1 DEF Idle
    <3>. QED
      BY <1>3, <3>1, <3>2, <3>3, <3>4, <3>5 DEF TakeVictim
  <2>2. CASE UNCHANGED <<awake, age, quiet, todo>>
    BY <1>3, <2>2 DEF TakeVictim
  <2>. QED
    BY <1>3, <2>1, <2>2 DEF TakeVictim
<1>4. ASSUME NEW n \in Names, Begin(n) PROVE TypeOK' /\ Rounds'
  BY <1>4 DEF Begin
<1>5. ASSUME NEW n \in Names, Touch(n) PROVE TypeOK' /\ Rounds'
  BY <1>5 DEF Touch
<1>6. ASSUME NEW n \in Names, Release(n) PROVE TypeOK' /\ Rounds'
  BY <1>6 DEF Release
<1>7. ASSUME StartCleanup PROVE TypeOK' /\ Rounds'
  BY <1>7 DEF StartCleanup
<1>8. ASSUME CleanupTake PROVE TypeOK' /\ Rounds'
  <2>. PICK n \in stale : /\ stale' = stale \ {n}
                          /\ \/ Idle(n) /\ Change({}, {n})
                             \/ ~Idle(n) /\ UNCHANGED <<awake, age, quiet, todo>>
    BY <1>8 DEF CleanupTake
  <2>1. CASE Idle(n) /\ Change({}, {n})
    <3>1. n \in Names /\ n \notin ending /\ held # n /\ ~(inUse[n] > 0)
      BY <2>1 DEF Idle
    <3>2. awake' = awake \ {n} /\ todo' = todo \ {n}
      BY <2>1 DEF Change
    <3>3. IsFiniteSet(awake') /\ Cardinality(awake') <= MaxOpenDatabases
      BY <3>1, <3>2, RoomKept
    <3>4. /\ age' \in [Names -> -MaxSkew..AgeCap] /\ quiet' \in [Names -> 0..AgeCap]
          /\ \A m \in Names : age'[m] >= -behind
      BY <2>1, <3>1, Changed
    <3>. QED
      BY <1>8, <3>1, <3>2, <3>3, <3>4 DEF CleanupTake
  <2>2. CASE UNCHANGED <<awake, age, quiet, todo>>
    BY <1>8, <2>2 DEF CleanupTake
  <2>. QED
    BY <2>1, <2>2
<1>9. ASSUME EndCleanup \/ StartCheckpoint \/ EndCheckpoint PROVE TypeOK' /\ Rounds'
  <2>1. CASE EndCleanup
    BY <2>1 DEF EndCleanup
  <2>2. CASE StartCheckpoint
    BY <2>2 DEF StartCheckpoint
  <2>3. CASE EndCheckpoint
    BY <2>3 DEF EndCheckpoint
  <2>. QED
    BY <1>9, <2>1, <2>2, <2>3
<1>10. ASSUME CheckpointLease \/ CheckpointDrop PROVE TypeOK' /\ Rounds'
  BY <1>10 DEF CheckpointLease, CheckpointDrop
<1>11. ASSUME Tick PROVE TypeOK' /\ Rounds'
  BY <1>11 DEF Tick, Older
<1>12. ASSUME SetClock(1) \/ SetClock(-1) PROVE TypeOK' /\ Rounds'
  <2>1. CASE SetClock(1)
    BY <2>1 DEF SetClock
  <2>2. CASE SetClock(-1)
    BY <2>2 DEF SetClock
  <2>. QED
    BY <1>12, <2>1, <2>2
<1>13. ASSUME UNCHANGED vars PROVE TypeOK' /\ Rounds'
  BY <1>13 DEF vars
<1>. HIDE DEF TypeOK, Rounds, requests, eviction, cleaner, checkpointer, clock
<1>. QED
  BY <1>1, <1>2, <1>3, <1>4, <1>5, <1>6, <1>7, <1>8, <1>9, <1>10, <1>11, <1>12, <1>13
     DEF Next, Background
-----------------------------------------------------------------------------
(* The last use. *)

\* No database has been used yet.
LEMMA UsedInit == Init => Used
BY DEF Init, Used

\* Who lets a database go has touched it at that time.
LEMMA UsedNext ==
    ASSUME TypeOK, Rounds, Used, [Next]_vars
    PROVE  Used'
<1>. USE Constants DEF TypeOK, Rounds, Used, Idle, requests, eviction, cleaner, checkpointer, clock
<1>1. ASSUME NEW n \in Names, Admit(n) PROVE Used'
  <2>1. Change({n}, {}) /\ awake' = awake \cup {n}
    BY <1>1 DEF Admit, Change
  <2>2. \A m \in Names : \/ age'[m] = 0 /\ quiet'[m] = 0
                         \/ m # n /\ age'[m] = age[m] /\ quiet'[m] = quiet[m]
    BY <2>1, Changed
  <2>. QED
    BY <1>1, <2>1, <2>2 DEF Admit
<1>2. ASSUME NEW n \in Names, PickVictim(n) PROVE Used'
  BY <1>2 DEF PickVictim
<1>3. ASSUME TakeVictim PROVE Used'
  <2>1. CASE Idle(candidate) /\ Change({newcomer}, {candidate})
    <3>1. newcomer \in Names /\ candidate \in Names
      BY <1>3, <2>1 DEF TakeVictim
    <3>2. awake' = (awake \ {candidate}) \cup {newcomer}
      BY <2>1 DEF Change
    <3>3. \A m \in Names : \/ age'[m] = 0 /\ quiet'[m] = 0
                           \/ m \notin {newcomer} \cup {candidate}
                              /\ age'[m] = age[m] /\ quiet'[m] = quiet[m]
      BY <2>1, <3>1, Changed
    <3>. QED
      BY <1>3, <3>2, <3>3 DEF TakeVictim
  <2>2. CASE UNCHANGED <<awake, age, quiet, todo>>
    BY <1>3, <2>2 DEF TakeVictim
  <2>. QED
    BY <1>3, <2>1, <2>2 DEF TakeVictim
<1>4. ASSUME NEW n \in Names, Begin(n) PROVE Used'
  BY <1>4 DEF Begin
<1>5. ASSUME NEW n \in Names, Touch(n) PROVE Used'
  BY <1>5 DEF Touch
<1>6. ASSUME NEW n \in Names, Release(n) PROVE Used'
  BY <1>6 DEF Release
<1>7. ASSUME StartCleanup PROVE Used'
  BY <1>7 DEF StartCleanup
<1>8. ASSUME CleanupTake PROVE Used'
  <2>. PICK n \in stale : \/ Idle(n) /\ Change({}, {n})
                          \/ ~Idle(n) /\ UNCHANGED <<awake, age, quiet, todo>>
    BY <1>8 DEF CleanupTake
  <2>1. CASE Idle(n) /\ Change({}, {n})
    <3>1. awake' = awake \ {n} /\ n \in Names
      BY <2>1 DEF Change
    <3>2. \A m \in Names : \/ age'[m] = 0 /\ quiet'[m] = 0
                           \/ age'[m] = age[m] /\ quiet'[m] = quiet[m]
      BY <2>1, <3>1, Changed
    <3>. QED
      BY <1>8, <3>1, <3>2 DEF CleanupTake
  <2>2. CASE UNCHANGED <<awake, age, quiet, todo>>
    BY <1>8, <2>2 DEF CleanupTake
  <2>. QED
    BY <2>1, <2>2
<1>9. ASSUME EndCleanup \/ StartCheckpoint \/ EndCheckpoint PROVE Used'
  BY <1>9 DEF EndCleanup, StartCheckpoint, EndCheckpoint
<1>10. ASSUME CheckpointLease \/ CheckpointDrop PROVE Used'
  BY <1>10 DEF CheckpointLease, CheckpointDrop
<1>11. ASSUME Tick PROVE Used'
  BY <1>11 DEF Tick, Older
<1>12. ASSUME SetClock(1) \/ SetClock(-1) PROVE Used'
  <2>1. CASE SetClock(1)
    BY <2>1 DEF SetClock
  <2>2. CASE SetClock(-1)
    BY <2>2 DEF SetClock
  <2>. QED
    BY <1>12, <2>1, <2>2
<1>13. ASSUME UNCHANGED vars PROVE Used'
  BY <1>13 DEF vars
<1>. HIDE DEF TypeOK, Rounds, Used, Idle, requests, eviction, cleaner, checkpointer, clock
<1>. QED
  BY <1>1, <1>2, <1>3, <1>4, <1>5, <1>6, <1>7, <1>8, <1>9, <1>10, <1>11, <1>12, <1>13
     DEF Next, Background
-----------------------------------------------------------------------------
(* Sleep in time. *)

\* Cleanup comes between two checkpoints that touch a database.
LEMMA RestingNext ==
    ASSUME TypeOK, Rounds, Used, TypeOK', Rounds', Used', Rare', [Next]_vars,
           Rare => \A n \in Names : Resting(n)
    PROVE  \A n \in Names : Resting(n)'
<1>. SUFFICES ASSUME NEW n \in Names PROVE Resting(n)'
  OBVIOUS
<1>a. /\ age[n] \in Int /\ quiet[n] \in Nat /\ quiet[n] <= AgeCap /\ age[n] <= AgeCap
      /\ cleanupIn \in Nat /\ cleanupIn <= CleanupInterval
      /\ checkpointIn \in Nat /\ checkpointIn <= CheckpointInterval /\ behind \in Nat /\ Wait \in Nat
      /\ behind <= MaxSkew /\ age[n] >= -behind /\ (inUse[n] > 0 => quiet[n] = 0)
      /\ inUse[n] \in Nat
  BY Constants DEF TypeOK, Rounds, Used, Wait
<1>b. /\ age'[n] \in Int /\ quiet'[n] \in Nat /\ cleanupIn' \in Nat /\ cleanupIn' <= CleanupInterval
      /\ checkpointIn' \in Nat /\ checkpointIn' <= CheckpointInterval /\ behind' \in Nat
      /\ age'[n] >= -behind' /\ (inUse'[n] > 0 => quiet'[n] = 0) /\ inUse'[n] \in Nat
  BY Constants DEF TypeOK, Rounds, Used, Wait
<1>c. ASSUME quiet'[n] = 0 PROVE Untouched(n)'
  <2>1. quiet'[n] - age'[n] <= behind' + 0
    BY <1>b, <1>c
  <2>2. quiet'[n] + cleanupIn' <= behind' + 0 + Wait
    BY <1>b, <1>c, Constants DEF Wait
  <2>. QED
    BY <2>1, <2>2 DEF Untouched, Lags, Wait
<1>d. quiet'[n] = 0 => Resting(n)'
  BY <1>a, <1>b, <1>c DEF Resting, Wait
<1>e. inUse'[n] > 0 => Resting(n)'
  BY <1>b, <1>d
<1>f. behind' \in {behind, behind + 1}
  <2>1. CASE Background
    BY <2>1 DEF Background, StartCleanup, CleanupTake, EndCleanup, StartCheckpoint,
       CheckpointLease, CheckpointDrop, EndCheckpoint, clock
  <2>2. ASSUME NEW m \in Names, Admit(m) \/ PickVictim(m) \/ Begin(m) \/ Touch(m) \/ Release(m)
        PROVE  behind' = behind
    BY <2>2 DEF Admit, PickVictim, Begin, Touch, Release, clock
  <2>3. CASE TakeVictim \/ Tick \/ UNCHANGED vars
    BY <2>3 DEF TakeVictim, Tick, vars, clock
  <2>4. CASE SetClock(1) \/ SetClock(-1)
    BY <1>a, <2>4 DEF SetClock
  <2>. QED
    BY <2>1, <2>2, <2>3, <2>4 DEF Next
<1>g. Rare /\ Resting(n)
  BY <1>a, <1>f, Constants DEF Rare
<1>1. ASSUME UNCHANGED <<cleanupIn, checkpointIn, behind, held>>,
             inUse'[n] > 0 \/ inUse'[n] = inUse[n],
             quiet'[n] = 0 \/ (age'[n] = age[n] /\ quiet'[n] = quiet[n]),
             (n \in awake' => n \in awake) \/ quiet'[n] = 0,
             n \in todo' => n \in todo,
             n \in stale /\ n \notin stale' => ~Idle(n)'
      PROVE  Resting(n)'
  <2>1. CASE quiet'[n] = 0 \/ inUse'[n] > 0
    BY <2>1, <1>d, <1>e
  <2>2. CASE quiet'[n] # 0 /\ ~(inUse'[n] > 0)
    <3>1. Idle(n)' => Idle(n) /\ (n \in stale => n \in stale')
      BY <1>1, <2>2 DEF Idle
    <3>. QED
      BY <1>1, <1>g, <2>2, <3>1 DEF Resting, Untouched, Touched, Lags, SinceCheckpoint
  <2>. QED
    BY <2>1, <2>2
<1>2. ASSUME NEW m \in Names, Admit(m) PROVE Resting(n)'
  <2>1. Change({m}, {}) /\ awake' = awake \cup {m} /\ todo' = todo
    BY <1>2 DEF Admit, Change
  <2>2. quiet'[n] = 0 \/ (n # m /\ age'[n] = age[n] /\ quiet'[n] = quiet[n])
    BY <2>1, Changed
  <2>. QED
    BY <1>1, <1>2, <2>1, <2>2 DEF Admit, requests, cleaner, clock
<1>3. ASSUME NEW m \in Names, PickVictim(m) PROVE Resting(n)'
  BY <1>1, <1>3 DEF PickVictim, requests, cleaner, checkpointer, clock
<1>4. CASE TakeVictim
  <2>1. CASE Idle(candidate) /\ Change({newcomer}, {candidate})
    <3>1. newcomer \in Names /\ candidate \in Names
      BY <1>4, <2>1 DEF TakeVictim, TypeOK, Idle
    <3>2. awake' = (awake \ {candidate}) \cup {newcomer} /\ todo' = todo \ {candidate}
      BY <2>1 DEF Change
    <3>3. quiet'[n] = 0 \/ (n # newcomer /\ age'[n] = age[n] /\ quiet'[n] = quiet[n])
      BY <2>1, <3>1, Changed
    <3>. QED
      BY <1>1, <1>4, <3>2, <3>3 DEF TakeVictim, requests, cleaner, clock
  <2>2. CASE UNCHANGED <<awake, age, quiet, todo>>
    BY <1>1, <1>4, <2>2 DEF TakeVictim, requests, cleaner, clock
  <2>. QED
    BY <1>4, <2>1, <2>2 DEF TakeVictim
<1>5. ASSUME NEW m \in Names, Begin(m) \/ Touch(m) PROVE Resting(n)'
  BY <1>1, <1>5 DEF Begin, Touch, TypeOK, cleaner, checkpointer, clock
<1>6. ASSUME NEW m \in Names, Release(m) PROVE Resting(n)'
  <2>1. CASE m = n
    BY <1>6, <1>a, <1>d, <2>1 DEF Release, TypeOK
  <2>2. CASE m # n
    BY <1>1, <1>6, <2>2 DEF Release, TypeOK, cleaner, checkpointer, clock
  <2>. QED
    BY <2>1, <2>2
<1>7. CASE StartCleanup
  <2>1. /\ cleanupIn = 0 /\ cleanupIn' = CleanupInterval
        /\ n \in stale' <=> Idle(n) /\ age[n] >= IdleTimeout
        /\ UNCHANGED <<awake, inUse, age, quiet, todo, held, checkpointIn, behind>>
    BY <1>7 DEF StartCleanup, requests, checkpointer, clock
  <2>2. Idle(n)' <=> Idle(n)
    BY <2>1 DEF Idle
  <2>. QED
    BY <1>a, <1>g, <2>1, <2>2, Constants DEF Resting, Untouched, Touched, Lags, SinceCheckpoint, Wait
<1>8. CASE CleanupTake
  <2>. PICK m \in stale : /\ stale' = stale \ {m}
                          /\ \/ Idle(m) /\ Change({}, {m})
                             \/ ~Idle(m) /\ UNCHANGED <<awake, age, quiet, todo>>
    BY <1>8 DEF CleanupTake
  <2>0. UNCHANGED <<inUse, cleanupIn, checkpointIn, behind, held>> /\ m \in Names
    BY <1>8 DEF CleanupTake, requests, clock, TypeOK
  <2>1. CASE Idle(m) /\ Change({}, {m})
    <3>1. awake' = awake \ {m} /\ todo' = todo \ {m}
      BY <2>1 DEF Change
    <3>2. quiet'[n] = 0 \/ (age'[n] = age[n] /\ quiet'[n] = quiet[n])
      BY <2>0, <2>1, Changed
    <3>. QED
      BY <1>1, <2>0, <3>1, <3>2 DEF Idle
  <2>2. CASE ~Idle(m) /\ UNCHANGED <<awake, age, quiet, todo>>
    BY <1>1, <2>0, <2>2 DEF Idle
  <2>. QED
    BY <2>1, <2>2
<1>9. CASE EndCleanup \/ EndCheckpoint \/ UNCHANGED vars
  BY <1>1, <1>9 DEF EndCleanup, EndCheckpoint, vars, requests, cleaner, checkpointer, clock
<1>10. CASE StartCheckpoint
  <2>1. /\ checkpointIn = 0
        /\ UNCHANGED <<awake, inUse, age, quiet, stale, cleanupIn, held, behind>>
    BY <1>10 DEF StartCheckpoint, requests, cleaner, clock
  <2>2. ~Touched(n)
    BY <1>a, <1>g, <2>1, Constants DEF Touched, Lags, SinceCheckpoint, Rare, Wait
  <2>3. Untouched(n)' <=> Untouched(n)
    BY <2>1 DEF Untouched, Lags
  <2>4. Idle(n)' <=> Idle(n)
    BY <2>1 DEF Idle
  <2>. QED
    BY <1>g, <2>1, <2>2, <2>3, <2>4 DEF Resting
<1>11. CASE CheckpointLease
  <2>. PICK m \in todo : held = None /\ held' = m /\ todo' = todo \ {m}
    BY <1>11 DEF CheckpointLease
  <2>1. UNCHANGED <<awake, inUse, age, quiet, stale, cleanupIn, checkpointIn, behind>>
    BY <1>11 DEF CheckpointLease, requests, cleaner, clock
  <2>2. CASE m = n
    <3>1. n \in awake /\ held # n
      BY <2>2, Constants DEF TypeOK
    <3>2. CASE Idle(n)
      BY <1>a, <1>g, <2>1, <2>2, <3>2, Constants DEF Resting, Untouched, Lags, Idle, Wait
    <3>3. CASE ~Idle(n)
      BY <1>a, <1>d, <2>1, <3>1, <3>3 DEF Idle
    <3>. QED
      BY <3>2, <3>3
  <2>3. CASE m # n
    <3>1. Idle(n)' <=> Idle(n)
      BY <2>1, <2>3, Constants DEF Idle
    <3>. QED
      BY <1>g, <2>1, <2>3, <3>1 DEF Resting, Untouched, Touched, Lags, SinceCheckpoint
  <2>. QED
    BY <2>2, <2>3
<1>12. CASE CheckpointDrop
  <2>1. /\ held # None /\ held' = None /\ age' = [age EXCEPT ![held] = 0]
        /\ UNCHANGED <<awake, inUse, quiet, stale, cleanupIn, todo, checkpointIn, behind>>
    BY <1>12 DEF CheckpointDrop, requests, cleaner, clock
  <2>2. CASE held = n
    <3>1. checkpointIn = CheckpointInterval /\ n \notin todo /\ age'[n] = 0
      BY <2>1, <2>2 DEF Rounds, TypeOK
    <3>2. Touched(n)'
      BY <1>a, <1>g, <2>1, <2>2, <3>1, Constants DEF Touched, Lags, SinceCheckpoint, Resting, Wait
    <3>. QED
      BY <2>1, <3>1, <3>2, Constants DEF Resting
  <2>3. CASE held # n
    <3>1. age'[n] = age[n] /\ (Idle(n)' <=> Idle(n)) /\ held' # n
      BY <2>1, <2>3, Constants DEF Idle, TypeOK
    <3>. QED
      BY <1>g, <2>1, <3>1 DEF Resting, Untouched, Touched, Lags, SinceCheckpoint
  <2>. QED
    BY <2>2, <2>3
<1>13. CASE Tick
  <2>1. /\ stale = {} /\ held = None /\ todo = {}
        /\ cleanupIn' = cleanupIn - 1 /\ checkpointIn' = checkpointIn - 1
        /\ UNCHANGED <<awake, inUse, stale, todo, held, behind>>
    BY <1>13 DEF Tick, Rounds, requests, clock
  <2>2. Idle(n)' <=> Idle(n)
    BY <2>1 DEF Idle
  <2>3. CASE Idle(n)
    <3>1. n \in awake /\ age'[n] = Older(age[n]) /\ quiet'[n] = Older(quiet[n])
      BY <1>13, <2>3 DEF Tick, Idle
    <3>2. Untouched(n) => Untouched(n)'
      BY <1>a, <2>1, <3>1, Constants DEF Untouched, Lags, Older, Wait
    <3>3. Touched(n) => Touched(n)'
      BY <1>a, <2>1, <3>1, Constants DEF Touched, Lags, SinceCheckpoint, Older, Wait
    <3>. QED
      BY <1>g, <2>1, <2>2, <2>3, <3>2, <3>3, Constants DEF Resting
  <2>4. CASE ~Idle(n)
    BY <1>13, <1>d, <2>4 DEF Tick
  <2>. QED
    BY <2>3, <2>4
<1>14. CASE SetClock(1) \/ SetClock(-1)
  <2>1. UNCHANGED <<awake, inUse, quiet, stale, cleanupIn, todo, held, checkpointIn>>
    BY <1>14 DEF SetClock, requests, cleaner, checkpointer
  <2>2. Idle(n)' <=> Idle(n)
    BY <2>1 DEF Idle
  <2>3. n \in awake => \/ behind' = behind + 1 /\ age'[n] = age[n] - 1
                       \/ behind' = behind /\ age'[n] >= age[n] /\ age'[n] <= age[n] + 1
    <3>1. CASE SetClock(1)
      BY <1>a, <3>1, Constants DEF SetClock
    <3>2. CASE SetClock(-1)
      BY <1>a, <3>2, Constants DEF SetClock
    <3>. QED
      BY <1>14, <3>1, <3>2
  <2>4. ASSUME n \in awake, NEW extra \in {0, Wait}, Lags(n, extra) PROVE Lags(n, extra)'
    <3>1. CASE behind' = behind + 1 /\ age'[n] = age[n] - 1
      BY <1>a, <2>1, <2>4, <3>1, Constants DEF Lags, Wait
    <3>2. CASE behind' = behind /\ age'[n] >= age[n] /\ age'[n] <= age[n] + 1
      BY <1>a, <1>b, <2>1, <2>4, <3>2, Constants DEF Lags, Wait
    <3>. QED
      BY <2>3, <2>4, <3>1, <3>2
  <2>5. n \in awake /\ Touched(n) => Touched(n)'
    <3>1. CASE behind' = behind + 1 /\ age'[n] = age[n] - 1
      BY <1>a, <2>1, <2>4, <3>1, Constants DEF Touched, SinceCheckpoint, Wait
    <3>2. CASE behind' = behind /\ age'[n] >= age[n] /\ age'[n] <= age[n] + 1
      BY <1>a, <1>b, <2>1, <2>4, <3>2, Constants DEF Touched, SinceCheckpoint, Wait
    <3>. QED
      BY <2>3, <3>1, <3>2
  <2>6. n \in awake /\ Untouched(n) => Untouched(n)'
    BY <2>4 DEF Untouched
  <2>. QED
    BY <1>a, <1>b, <1>f, <1>g, <2>1, <2>2, <2>5, <2>6 DEF Resting, Idle, Wait
<1>. QED
  BY <1>2, <1>3, <1>4, <1>5, <1>6, <1>7, <1>8, <1>9, <1>10, <1>11, <1>12, <1>13, <1>14
     DEF Next, Background
-----------------------------------------------------------------------------
(* What holds of every choice of the intervals. *)

\* Nothing is awake at first.
LEMMA InitIInv == Init => IInv
<1>1. Init => \A n \in Names : Resting(n)
  BY Constants DEF Init, Resting, Idle
<1>. QED
  BY <1>1, BasicsInit, UsedInit DEF IInv

\* Every step keeps the invariant.
LEMMA NextIInv == IInv /\ [Next]_vars => IInv'
<1>. SUFFICES ASSUME IInv, [Next]_vars PROVE IInv'
  OBVIOUS
<1>1. TypeOK /\ Rounds /\ Used /\ (Rare => \A n \in Names : Resting(n))
  BY DEF IInv
<1>2. TypeOK' /\ Rounds' /\ Used'
  BY <1>1, BasicsNext, UsedNext
<1>3. Rare' => \A n \in Names : Resting(n)'
  BY <1>1, <1>2, RestingNext
<1>. QED
  BY <1>2, <1>3 DEF IInv

(* Every variable has its type, and never are more databases awake than may *)
(* be, whatever requests, evictions and rounds are under way.               *)
THEOREM TypeCorrect == Spec => []TypeOK
<1>1. IInv => TypeOK
  BY DEF IInv
<1>. QED
  BY <1>1, InitIInv, NextIInv, PTL DEF Spec

(* A database that is idle looks no older than its last use made it, but for *)
(* what the clock was put forward.                                           *)
THEOREM FreshCorrect == Spec => []FreshWhenIdle
<1>1. IInv => FreshWhenIdle
  BY DEF IInv, Used, FreshWhenIdle
<1>. QED
  BY <1>1, InitIInv, NextIInv, PTL DEF Spec

(* If checkpoints are rare, an idle database is asleep after twice the idle *)
(* timeout and cleanup interval, and what the clock was put back.           *)
THEOREM SleepCorrect == Spec => []SleepsInTime
<1>1. IInv => SleepsInTime
  <2>. SUFFICES ASSUME IInv, CheckpointInterval > IdleTimeout + CleanupInterval + behind,
                       NEW n \in Names, Idle(n)
                PROVE  quiet[n] <= 2 * (IdleTimeout + CleanupInterval) + behind
    BY DEF SleepsInTime
  <2>1. Untouched(n) \/ Touched(n)
    BY DEF IInv, Rare, Wait, Resting
  <2>2. /\ age[n] \in Int /\ quiet[n] \in Nat /\ cleanupIn \in Nat /\ behind \in Nat
    BY Constants DEF IInv, TypeOK
  <2>3. Untouched(n) => quiet[n] <= behind + Wait
    BY <2>2, Constants DEF Untouched, Lags, Wait
  <2>4. Touched(n) => quiet[n] <= behind + Wait + Wait
    BY <2>2, Constants DEF Touched, Lags, SinceCheckpoint, Wait
  <2>. QED
    BY <2>1, <2>2, <2>3, <2>4, Constants DEF Wait
<1>. QED
  BY <1>1, InitIInv, NextIInv, PTL DEF Spec
=============================================================================
