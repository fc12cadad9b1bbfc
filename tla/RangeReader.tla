----------------------------- MODULE RangeReader ----------------------------
(***************************************************************************)
(* What the readers of a part of an archive promise: the bytes of a range, *)
(* each once and in order, and an end only where the range or its source   *)
(* ends.  A read that fails takes nothing away from the next one.          *)
(***************************************************************************)
EXTENDS Naturals

CONSTANT SourceLen   \* the length of what is read from

VARIABLES
  passed,   \* the bytes handed out last, [from, upto); upto is where to go on
  last,     \* the end of the range
  answer    \* what the last call said

rangeVars == <<passed, last, answer>>

Available == IF last <= SourceLen THEN last ELSE SourceLen

Target ==
  /\ passed' \in [from : Nat, upto : Nat]
  /\ passed'.from = passed'.upto
  /\ last' \in Nat
  /\ passed'.upto <= last'
  /\ answer' = "open"

Give ==
  /\ passed' \in [from : Nat, upto : Nat]
  /\ passed'.from = passed.upto
  /\ passed.upto < passed'.upto
  /\ passed'.upto <= Available
  /\ answer' \in {"bytes", "full"}
  /\ answer' = "full" => passed'.upto = last
  /\ UNCHANGED last

(* A read into no space at all says nothing about the end.                  *)
Nothing == answer' = "nothing" /\ UNCHANGED <<passed, last>>

End ==
  /\ passed.upto >= Available
  /\ answer' = "end"
  /\ UNCHANGED <<passed, last>>

Complete ==
  /\ passed.upto = last
  /\ answer' = "full"
  /\ UNCHANGED <<passed, last>>

Fail == answer' = "error" /\ UNCHANGED <<passed, last>>

RangeInit ==
  /\ passed = [from |-> 0, upto |-> 0]
  /\ last = 0
  /\ answer = "open"

RangeNext == Target \/ Give \/ Nothing \/ End \/ Complete \/ Fail

RangeSpec == RangeInit /\ [][RangeNext]_rangeVars
=============================================================================
