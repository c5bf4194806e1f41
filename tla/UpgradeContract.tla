--------------------------- MODULE UpgradeContract ---------------------------
(***************************************************************************)
(* What an upgrade owes the operator: the schema only moves forward, never *)
(* under a process that serves; a process serves only the complete schema; *)
(* and what an earlier version counted for its rows is not lost on the     *)
(* way.                                                                    *)
(*                                                                         *)
(* level counts the steps of the schema that are done, counts says what    *)
(* the rows of an earlier version hold as their danmaku count, open that   *)
(* the process accepts requests.                                           *)
(***************************************************************************)
EXTENDS Integers

CONSTANT Complete   \* the level of the schema that the program needs

VARIABLES level, counts, open

vars == <<level, counts, open>>

Init ==
  /\ level \in 0 .. Complete
  /\ counts \in {"none", "kept", "default"}
  /\ counts = "none" <=> level = 0
  /\ open = FALSE

\* A new table has no rows to keep anything for.
Advance ==
  /\ ~open
  /\ level < level' /\ level' <= Complete
  /\ counts' = IF level = 0 THEN "default" ELSE counts
  /\ UNCHANGED open

Open ==
  /\ level = Complete
  /\ open' = TRUE
  /\ UNCHANGED <<level, counts>>

Close ==
  /\ open' = FALSE
  /\ UNCHANGED <<level, counts>>

Next == Advance \/ Open \/ Close

Spec == Init /\ [][Next]_vars
=============================================================================
