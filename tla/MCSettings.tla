----------------------------- MODULE MCSettings -----------------------------
(* The settings, beside the timers that run on them: for TLC, files that    *)
(* give up to one setting, and environments of up to two variables.         *)
EXTENDS MCRecency, Settings

TextValues == {Empty, "text"}
MCStrings == TextValues \cup {Default.bind, Default.directory}
\* With 1024 MB a product is 0 modulo 2^30.
NumberValues == {0, 2, 1024}

Given(fields, values(_)) == UNION {[{f} -> values(f)] : f \in fields}
NoneGiven == [f \in {} |-> Empty]

FileValues(f) == (IF f \in Texts THEN TextValues ELSE NumberValues) \cup {Malformed}
MCFiles == {NoneGiven} \cup Given(Fields, FileValues)

VariableValues(f) == IF f \in Texts THEN TextValues ELSE NumberValues \cup {Malformed, Empty}
Single == Given(Range(Variables), VariableValues)
Second == Given({"cache_size_kb"}, VariableValues)
MCEnvironments == {NoneGiven} \cup Single \cup {d @@ e : d \in Single, e \in Second}
-----------------------------------------------------------------------------
(* main() loads the settings before anything else, so that these are        *)
(* properties of the first state.                                           *)

(* Settings::load() does with every file and environment what LoadIsAsGiven *)
(* says of precedence and refusals.                                         *)
LoadMeetsReference == Init => LoadIsAsGiven

(* Whatever settings the server starts with, it can work with them, as      *)
(* AcceptedServes says.                                                     *)
LoadedSettingsServe == Init => AcceptedServes
=============================================================================
