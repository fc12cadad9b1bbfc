--------------------------- MODULE ArchiveBuilder ---------------------------
(***************************************************************************)
(* What a caller of the encoder relies on, without streams and offsets: a   *)
(* stack of directories to which names are added, and an error that, once  *)
(* some file did not get all of its content, nothing but finishing can     *)
(* follow, to be reported when the root directory is finished.             *)
(***************************************************************************)
EXTENDS Naturals

VARIABLES
  depth,    \* directories open
  names,    \* entries added so far
  tainted,  \* a file went without some of its content
  outcome,  \* the verdict on the archive
  closed

vars == <<depth, names, tainted, outcome, closed>>

Init ==
  /\ depth = 0
  /\ names = 0
  /\ tainted = FALSE
  /\ outcome = "none"
  /\ closed = FALSE

Open ==
  /\ depth = 0 /\ outcome = "none"
  /\ depth' = 1
  /\ UNCHANGED <<names, tainted, outcome, closed>>

(* An entry of any kind, perhaps one whose content turns out short.         *)
Add ==
  /\ depth > 0 /\ ~tainted
  /\ names' = names + 1
  /\ tainted' \in BOOLEAN
  /\ UNCHANGED <<depth, outcome, closed>>

(* A file already added is given up before its content is complete.         *)
GiveUp ==
  /\ depth > 0
  /\ tainted' = TRUE
  /\ UNCHANGED <<depth, names, outcome, closed>>

Enter ==
  /\ depth > 0 /\ ~tainted
  /\ depth' = depth + 1
  /\ names' = names + 1
  /\ UNCHANGED <<tainted, outcome, closed>>

Leave ==
  /\ depth > 1
  /\ depth' = depth - 1
  /\ UNCHANGED <<names, tainted, outcome, closed>>

FinishRoot ==
  /\ depth = 1
  /\ depth' = 0
  /\ outcome' = IF tainted THEN "incomplete" ELSE "ok"
  /\ UNCHANGED <<names, tainted, closed>>

Close ==
  /\ depth = 0 /\ outcome # "none" /\ ~closed
  /\ closed' = TRUE
  /\ UNCHANGED <<depth, names, tainted, outcome>>

Next == Open \/ Add \/ GiveUp \/ Enter \/ Leave \/ FinishRoot \/ Close

Spec == Init /\ [][Next]_vars
=============================================================================
