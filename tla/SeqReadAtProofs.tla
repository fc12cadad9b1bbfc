--------------------------- MODULE SeqReadAtProofs --------------------------
(***************************************************************************)
(* For sources and buffers of any size, and any ranges: the readers over    *)
(* ReadAt stay in their range and implement a reader of a range.           *)
(***************************************************************************)
EXTENDS SeqReadAt, TLAPS

(* A read into an empty buffer has an empty buffer to fill, or is at the end *)
(* of its range; read_exact_at asks for all that is left.                   *)
LengthsMean ==
  read # NoRead =>
    /\ read.len = 0 => read.dest = 0 \/ Remaining(reader) = 0
    /\ reader.kind = "exact" => read.len > 0

ReadInv ==
  /\ ReadTypeOK
  /\ ReadsStayInRange
  /\ PositionIsWhatWasRead
  /\ LengthsMean

(* The initial state is one of the promise's.                               *)
LEMMA ReadInvInit == Init => ReadInv /\ Promise!RangeInit
  BY SeqReadAtAssumption
  DEF Init, ReadInv, ReadTypeOK, ReaderOK, ReadOK, ReadsStayInRange,
      PositionIsWhatWasRead, LengthsMean, Offset, Remaining, NoReader, NoRead,
      Promise!RangeInit

(* Opening a reader or moving its range sets both to the start of a range.   *)
LEMMA OpenKeeps ==
  ASSUME ReadInv, Open
  PROVE  ReadInv' /\ Promise!Target
<1> PICK range \in Ranges :
      NewAdapter(range) \/ UpdateRange(range) \/ NewContents(range)
        \/ ReadExactAt(range)
  BY DEF Open
<1> range \in [start : Nat, end : Nat]
  BY SeqReadAtAssumption
<1>1. CASE NewAdapter(range)
  BY <1>1 DEF NewAdapter, Target, ReadInv, ReadTypeOK, ReaderOK, ReadOK,
       ReadsStayInRange, PositionIsWhatWasRead, LengthsMean, Offset,
       Remaining, NoRead, Promise!Target
<1>2. CASE UpdateRange(range)
  <2>1. reader' = [kind |-> "adapter", start |-> range.start,
                   end |-> range.end, at |-> 0]
    BY <1>2 DEF UpdateRange, ReadInv, ReadTypeOK, ReaderOK
  <2> QED BY <1>2, <2>1 DEF UpdateRange, Target, ReadInv, ReadTypeOK, ReaderOK, ReadOK,
       ReadsStayInRange, PositionIsWhatWasRead, LengthsMean, Offset,
       Remaining, NoRead, Promise!Target
<1>3. CASE NewContents(range)
  BY <1>3 DEF NewContents, Target, ReadInv, ReadTypeOK, ReaderOK, ReadOK,
       ReadsStayInRange, PositionIsWhatWasRead, LengthsMean, Offset,
       Remaining, NoRead, Promise!Target
<1>4. CASE ReadExactAt(range)
  BY <1>4 DEF ReadExactAt, NewRead, Target, ReadInv, ReadTypeOK, ReaderOK,
       ReadOK, ReadsStayInRange, PositionIsWhatWasRead, LengthsMean, Offset,
       Remaining, NoRead, Promise!Target
<1> QED BY <1>1, <1>2, <1>3, <1>4

(* A poll asks for no more than there is.                                    *)
LEMMA PollKeeps ==
  ASSUME ReadInv, NEW n \in ReadSizes, Poll(n)
  PROVE  ReadInv'
<1> n \in Nat /\ MaxBuf \in Nat \ {0}
  BY SeqReadAtAssumption
<1>1. /\ Length(reader, n) \in Nat
      /\ Length(reader, n) <= n
      /\ Length(reader, n) <= Remaining(reader)
      /\ Length(reader, n) = 0 => n = 0 \/ Remaining(reader) = 0
  BY DEF ReadInv, ReadTypeOK, ReaderOK, Length, Least, Remaining, Offset
<1>2. /\ read' = [state |-> "new", dest |-> n, len |-> Length(reader, n),
                  at |-> Offset(reader)]
      /\ reader.kind \in {"adapter", "contents"}
      /\ UNCHANGED <<reader, io, passed, last, answer>>
  BY DEF Poll, NewRead
<1>3. io = "none"
  BY DEF Poll, ReadInv, ReadTypeOK, NoRead
<1> QED
  BY <1>1, <1>2, <1>3
  DEF ReadInv, ReadTypeOK, ReaderOK, ReadOK, ReadsStayInRange,
      PositionIsWhatWasRead, LengthsMean, Offset, Remaining

(* A read that returns hands out bytes of the range, in order; one that      *)
(* fails leaves everything as it was; an end is an end.                     *)
LEMMA ReturnKeeps ==
  ASSUME ReadInv, read.state # "none", Return
  PROVE  /\ ReadInv'
         /\ \/ Promise!Give \/ Promise!Nothing \/ Promise!End \/ Promise!Fail
<1> SourceLen \in Nat
  BY SeqReadAtAssumption
<1> read # NoRead
  BY DEF NoRead
<1>1. CASE Failed
  BY <1>1 DEF Failed, Return, ReadInv, ReadTypeOK, ReaderOK, ReadOK,
       ReadsStayInRange, PositionIsWhatWasRead, LengthsMean, NoRead, Offset,
       Remaining, Promise!Fail
<1>2. ASSUME NEW got \in Results(read),
             IF reader.kind = "exact" THEN ExactTurn(got) ELSE HandOut(got)
      PROVE  /\ ReadInv'
             /\ \/ Promise!Give \/ Promise!Nothing \/ Promise!End
                \/ Promise!Fail
  <2> DEFINE next == Advance(reader, got)
  <2>1. /\ got \in Nat
        /\ got <= read.len
        /\ got # 0 => read.at + got <= SourceLen
        /\ got = 0 => read.len = 0 \/ read.at >= SourceLen
    BY DEF Results, Least, ReadInv, ReadTypeOK, ReadOK
  <2>2. /\ next \in [kind : {"adapter", "contents", "exact"},
                     start : Nat, end : Nat, at : Nat]
        /\ next.kind = reader.kind
        /\ next.end = reader.end
        /\ next.kind = "adapter" => next.at = 0
        /\ Offset(next) = read.at + got
        /\ Offset(next) <= next.end
    BY <2>1 DEF Advance, Offset, Remaining, ReadInv, ReadTypeOK, ReaderOK,
         ReadOK, ReadsStayInRange
  <2>3. CASE reader.kind = "exact" /\ got = 0
    BY <1>2, <2>3 DEF ExactTurn, Return, ReadInv, ReadTypeOK, ReaderOK,
         ReadOK, ReadsStayInRange, PositionIsWhatWasRead, LengthsMean, NoRead,
         Offset, Remaining, Promise!Fail
  <2>4. CASE reader.kind = "exact" /\ got # 0
    <3>1. /\ reader' = next
          /\ passed' = [from |-> read.at, upto |-> read.at + got]
          /\ io' = "none"
          /\ last' = last
          /\ \/ /\ Remaining(next) = 0
                /\ answer' = "full"
                /\ read' = NoRead
             \/ /\ Remaining(next) # 0
                /\ answer' = "bytes"
                /\ read' = [state |-> "new", dest |-> Remaining(next),
                            len |-> Remaining(next), at |-> Offset(next)]
      BY <1>2, <2>4 DEF ExactTurn, Return, NewRead
    <3>2. ReadInv'
      BY <2>1, <2>2, <2>4, <3>1
      DEF ReadInv, ReadTypeOK, ReaderOK, ReadOK, ReadsStayInRange,
          PositionIsWhatWasRead, LengthsMean, NoRead, Offset, Remaining
    <3>3. Promise!Give
      BY <2>1, <2>2, <2>4, <3>1
      DEF ReadInv, ReadTypeOK, ReaderOK, ReadOK, ReadsStayInRange,
          PositionIsWhatWasRead, Offset, Remaining, Promise!Give,
          Promise!Available
    <3> QED BY <3>2, <3>3
  <2>5. CASE reader.kind # "exact"
    <3>1. /\ reader' = next
          /\ read' = NoRead
          /\ io' = "none"
          /\ last' = last
          /\ got # 0 => /\ passed' = [from |-> read.at,
                                      upto |-> read.at + got]
                        /\ answer' = "bytes"
          /\ got = 0 => /\ passed' = passed
                        /\ answer' = IF read.dest = 0 THEN "nothing"
                                     ELSE "end"
      BY <1>2, <2>1, <2>5
      DEF HandOut, Return, Least, ReadInv, ReadTypeOK, ReadOK
    <3>2. ReadInv'
      BY <2>1, <2>2, <2>5, <3>1
      DEF ReadInv, ReadTypeOK, ReaderOK, ReadOK, ReadsStayInRange,
          PositionIsWhatWasRead, LengthsMean, NoRead, Offset, Remaining
    <3>3. CASE got # 0
      BY <2>1, <2>2, <2>5, <3>1, <3>2, <3>3
      DEF ReadInv, ReadTypeOK, ReaderOK, ReadOK, ReadsStayInRange,
          PositionIsWhatWasRead, Offset, Remaining, Promise!Give,
          Promise!Available
    <3>4. CASE got = 0 /\ read.dest = 0
      BY <3>1, <3>2, <3>4 DEF Promise!Nothing
    <3>5. CASE got = 0 /\ read.dest # 0
      BY <2>1, <3>1, <3>2, <3>5
      DEF ReadInv, ReadTypeOK, ReaderOK, ReadOK, ReadsStayInRange,
          PositionIsWhatWasRead, LengthsMean, Offset, Remaining, Promise!End,
          Promise!Available
    <3> QED BY <2>1, <3>3, <3>4, <3>5
  <2> QED BY <2>3, <2>4, <2>5
<1> QED BY <1>1, <1>2 DEF Return

(* Every step keeps the invariant and is one of the promise's or stutters.   *)
LEMMA StepKeeps ==
  ASSUME ReadInv, [Next]_vars
  PROVE  ReadInv' /\ [Promise!RangeNext]_(Promise!rangeVars)
<1>1. CASE UNCHANGED vars
  BY <1>1 DEF vars, ReadInv, ReadTypeOK, ReaderOK, ReadOK, ReadsStayInRange,
       PositionIsWhatWasRead, LengthsMean, Offset, Remaining,
       Promise!rangeVars
<1>2. CASE Open
  BY <1>2, OpenKeeps DEF Promise!RangeNext
<1>3. ASSUME NEW n \in ReadSizes, Poll(n)
      PROVE  ReadInv' /\ [Promise!RangeNext]_(Promise!rangeVars)
  BY <1>3, PollKeeps DEF Poll, Promise!rangeVars
<1>4. ASSUME NEW n \in ReadSizes, PollAtEnd(n)
      PROVE  ReadInv' /\ [Promise!RangeNext]_(Promise!rangeVars)
  <2>1. ReadInv'
    BY <1>4 DEF PollAtEnd, ReadInv, ReadTypeOK, ReaderOK, ReadOK,
         ReadsStayInRange, PositionIsWhatWasRead, LengthsMean, Offset,
         Remaining
  <2>2. Promise!Nothing \/ Promise!End
    BY <1>4, SeqReadAtAssumption
    DEF PollAtEnd, ReadInv, ReadTypeOK, ReaderOK, PositionIsWhatWasRead,
        Offset, Remaining, Promise!Nothing, Promise!End, Promise!Available
  <2> QED BY <2>1, <2>2 DEF Promise!RangeNext
<1>5. CASE StartReady
  BY <1>5, ReturnKeeps DEF StartReady, Promise!RangeNext
<1>6. CASE StartPending
  BY <1>6 DEF StartPending, ReadInv, ReadTypeOK, ReaderOK, ReadOK,
       ReadsStayInRange, PositionIsWhatWasRead, LengthsMean, NoRead, Offset,
       Remaining, Promise!rangeVars
<1>7. CASE IoCompletes
  BY <1>7 DEF IoCompletes, ReadInv, ReadTypeOK, ReaderOK, ReadOK,
       ReadsStayInRange, PositionIsWhatWasRead, LengthsMean, Offset,
       Remaining, Promise!rangeVars
<1>8. CASE AskAgain
  BY <1>1, <1>8 DEF AskAgain
<1>9. CASE PollComplete
  BY <1>9, ReturnKeeps DEF PollComplete, Promise!RangeNext
<1> QED BY <1>1, <1>2, <1>3, <1>4, <1>5, <1>6, <1>7, <1>8, <1>9 DEF Next

LEMMA ReadInvariant == Spec => []ReadInv
<1>1. Init => ReadInv
  BY ReadInvInit
<1>2. ReadInv /\ [Next]_vars => ReadInv'
  BY StepKeeps
<1> QED BY <1>1, <1>2, PTL DEF Spec

(* remaining() and the length of a read, differences of unsigned numbers,    *)
(* are never negative, and between two calls no read is in flight.          *)
THEOREM ReadTypesAreKept == Spec => []ReadTypeOK
<1>1. ReadInv => ReadTypeOK
  BY DEF ReadInv
<1> QED BY <1>1, ReadInvariant, PTL

(* No read asks for bytes outside its range, and each goes on where the      *)
(* caller left off: SeqReadAtAdapter, FileContents and read_exact_at.       *)
THEOREM ReadsAreConfined == Spec => []ReadsStayInRange
<1>1. ReadInv => ReadsStayInRange
  BY DEF ReadInv
<1> QED BY <1>1, ReadInvariant, PTL

(* poll_position tells where the bytes handed out end, whatever was asked    *)
(* for and whichever reads were short or failed.                            *)
THEOREM PositionsAreTrue == Spec => []PositionIsWhatWasRead
<1>1. ReadInv => PositionIsWhatWasRead
  BY DEF ReadInv
<1> QED BY <1>1, ReadInvariant, PTL

(* SeqReadAtAdapter, FileContents and read_exact_at are readers of a range:  *)
(* each byte once, in order, an end only at the end, and no byte lost to a   *)
(* read that fails.                                                         *)
THEOREM PromiseIsKept == Spec => ImplementsRangeReader
<1>1. Init => ReadInv /\ Promise!RangeInit
  BY ReadInvInit
<1>2. ReadInv /\ [Next]_vars =>
        ReadInv' /\ [Promise!RangeNext]_(Promise!rangeVars)
  BY StepKeeps
<1> QED BY <1>1, <1>2, PTL DEF Spec, ImplementsRangeReader, Promise!RangeSpec
=============================================================================
