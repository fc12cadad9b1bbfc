------------------------------ MODULE SeqReadAt -----------------------------
(***************************************************************************)
(* Reading a part of an archive at random: the readers over ReadAt.  An     *)
(* "adapter" is a SeqReadAtAdapter, which decoders of the accessor read     *)
(* from; "contents" are the FileContents of a file; "exact" is one call of  *)
(* read_exact_at.  Each issues reads that end early, fail, or take their    *)
(* time: then ReadAtState polls for completion without returning.          *)
(***************************************************************************)
EXTENDS Naturals

CONSTANTS
  SourceLen,   \* how much of the source there is
  Ranges,      \* the ranges asked for, [start, end]; may exceed the source
  ReadSizes,   \* the sizes of callers' buffers
  MaxBuf       \* MAX_READ_BUF_LEN

ASSUME SeqReadAtAssumption ==
  /\ SourceLen \in Nat
  /\ Ranges \subseteq [start : Nat, end : Nat]
  /\ ReadSizes \subseteq Nat
  /\ MaxBuf \in Nat \ {0}

VARIABLES
  reader,   \* the reader in use, or NoReader
  read,     \* its read in progress, or NoRead
  io,       \* the operation behind the cookie: "none", "busy", "done"
  passed, last, answer   \* what the caller got, see RangeReader

vars == <<reader, read, io, passed, last, answer>>

NoReader == [kind |-> "none", start |-> 0, end |-> 0, at |-> 0]

(* No future is stored: dest is the caller's buffer, len the one read into. *)
NoRead == [state |-> "none", dest |-> 0, len |-> 0, at |-> 0]

Least(a, b) == IF a <= b THEN a ELSE b

Offset(r) == r.start + r.at
Remaining(r) == r.end - Offset(r)

Init ==
  /\ reader = NoReader
  /\ read = NoRead
  /\ io = "none"
  /\ passed = [from |-> 0, upto |-> 0]
  /\ last = 0
  /\ answer = "open"

NewRead(r, dest, len) ==
  [state |-> "new", dest |-> dest, len |-> len, at |-> Offset(r)]

(* Deviation: the length is not cut to what is left of the range.           *)
LengthUncut(r, n) == Least(n, MaxBuf)

(* Deviation: cut to the size of the range instead of what is left of it.   *)
LengthOfRange(r, n) == Least(Least(n, MaxBuf), r.end - r.start)

(* How much to read: no more than the caller's buffer, the temporary buffer  *)
(* and what is left of the range.                                           *)
Length(r, n) == Least(Least(n, MaxBuf), Remaining(r))

-----------------------------------------------------------------------------
(* Opening                                                                  *)

Target(range) ==
  /\ passed' = [from |-> range.start, upto |-> range.start]
  /\ last' = range.end
  /\ answer' = "open"

NewAdapter(range) ==
  /\ read = NoRead
  /\ range.start <= range.end
  /\ reader' = [kind |-> "adapter", start |-> range.start, end |-> range.end,
                at |-> 0]
  /\ Target(range)
  /\ UNCHANGED <<read, io>>

(* The decoder points its payload input at the contents of the next file.   *)
UpdateRange(range) ==
  /\ read = NoRead
  /\ reader.kind = "adapter"
  /\ range.start <= range.end
  /\ reader' = [reader EXCEPT !.start = range.start, !.end = range.end]
  /\ Target(range)
  /\ UNCHANGED <<read, io>>

(* Contents in a payload stream are only opened inside it, behind a header   *)
(* that agrees; otherwise there is no reader, and no step here.             *)
NewContents(range) ==
  /\ read = NoRead
  /\ range.start <= range.end
  /\ reader' = [kind |-> "contents", start |-> range.start, end |-> range.end,
                at |-> 0]
  /\ Target(range)
  /\ UNCHANGED <<read, io>>

ReadExactAt(range) ==
  LET r == [kind |-> "exact", start |-> range.start, end |-> range.end,
            at |-> 0]
  IN
  /\ read = NoRead
  /\ range.start < range.end
  /\ reader' = r
  /\ read' = NewRead(r, Remaining(r), Remaining(r))
  /\ Target(range)
  /\ UNCHANGED io

-----------------------------------------------------------------------------
(* Reading                                                                  *)

(* poll_seq_read; poll_read, read and read_at of file contents.             *)
Poll(n) ==
  /\ read = NoRead
  /\ \/ reader.kind = "adapter"
     \/ reader.kind = "contents" /\ Remaining(reader) > 0
  /\ read' = NewRead(reader, n, Length(reader, n))
  /\ UNCHANGED <<reader, io, passed, last, answer>>

(* FileContentsImpl::read_at at or behind the end: no read is issued.       *)
PollAtEnd(n) ==
  /\ read = NoRead
  /\ reader.kind = "contents"
  /\ Remaining(reader) = 0
  /\ answer' = IF n = 0 THEN "nothing" ELSE "end"
  /\ UNCHANGED <<reader, read, io, passed, last>>

(* What a source behind ReadAt may return: some of what there is (a slice     *)
(* all of it, a file less if it likes), 0 only at its end.                   *)
Results(r) ==
  IF r.len = 0 \/ r.at >= SourceLen
    THEN {0}
    ELSE 1..Least(r.len, SourceLen - r.at)

(* Deviation: counts the length asked for.                                   *)
AdvanceByLength(r, got) == [r EXCEPT !.at = @ + read.len]

(* The reader moves by what it got.  For an adapter, range.start moves.      *)
Advance(r, got) ==
  IF r.kind = "adapter" THEN [r EXCEPT !.start = @ + got]
                        ELSE [r EXCEPT !.at = @ + got]

HandOut(got) ==
  LET copied == Least(got, read.dest) IN
  /\ reader' = Advance(reader, got)
  /\ passed' = IF got = 0 THEN passed
               ELSE [from |-> read.at, upto |-> read.at + copied]
  /\ answer' = IF got # 0 THEN "bytes"
               ELSE IF read.dest = 0 THEN "nothing" ELSE "end"
  /\ read' = NoRead

(* Deviation: reading on where there is nothing left.                        *)
ExactTurnOnward(got) ==
  LET next == Advance(reader, got) IN
  /\ reader' = next
  /\ passed' = [from |-> read.at, upto |-> read.at + got]
  /\ IF Remaining(next) = 0
       THEN answer' = "full" /\ read' = NoRead
       ELSE /\ answer' = "bytes"
            /\ read' = NewRead(next, Remaining(next), Remaining(next))

(* One turn of the loop in read_exact_at.                                   *)
ExactTurn(got) ==
  LET next == Advance(reader, got) IN
  \/ /\ got = 0
     /\ answer' = "error"
     /\ read' = NoRead
     /\ UNCHANGED <<reader, passed>>
  \/ /\ got # 0
     /\ reader' = next
     /\ passed' = [from |-> read.at, upto |-> read.at + got]
     /\ IF Remaining(next) = 0
          THEN answer' = "full" /\ read' = NoRead
          ELSE /\ answer' = "bytes"
               /\ read' = NewRead(next, Remaining(next), Remaining(next))

(* Deviation: an error looks like the end.                                   *)
FailedAsEnd ==
  /\ answer' = "end"
  /\ read' = NoRead
  /\ UNCHANGED <<reader, passed>>

(* The future is gone, and with it the buffer; the range has not moved.      *)
Failed ==
  /\ answer' = "error"
  /\ read' = NoRead
  /\ UNCHANGED <<reader, passed>>

Return ==
  /\ io' = "none"
  /\ UNCHANGED last
  /\ \/ \E got \in Results(read) :
          IF reader.kind = "exact" THEN ExactTurn(got) ELSE HandOut(got)
     \/ Failed

(* ReadAtState::New, answered at once.                                      *)
StartReady == read.state = "new" /\ Return

(* ReadAtState::New, answered with a cookie.                                *)
StartPending ==
  /\ read.state = "new"
  /\ read' = [read EXCEPT !.state = "pending"]
  /\ io' = "busy"
  /\ UNCHANGED <<reader, passed, last, answer>>

(* The source completes the operation, on its own.                          *)
IoCompletes ==
  /\ io = "busy"
  /\ io' = "done"
  /\ UNCHANGED <<reader, read, passed, last, answer>>

(* poll_complete says Pending: the loop of ReadAtState::poll asks again.     *)
AskAgain == read.state = "pending" /\ io # "done" /\ UNCHANGED vars

(* poll_complete has the result.                                            *)
PollComplete == read.state = "pending" /\ io = "done" /\ Return

Open == \E range \in Ranges :
  NewAdapter(range) \/ UpdateRange(range) \/ NewContents(range)
    \/ ReadExactAt(range)

Next ==
  \/ Open
  \/ \E n \in ReadSizes : Poll(n) \/ PollAtEnd(n)
  \/ StartReady
  \/ StartPending
  \/ IoCompletes
  \/ AskAgain
  \/ PollComplete

(* The loop runs in the caller's thread, and the source does its work in     *)
(* another.                                                                 *)
Spec ==
  /\ Init
  /\ [][Next]_vars
  /\ WF_vars(StartReady \/ StartPending)
  /\ WF_vars(IoCompletes)
  /\ WF_vars(PollComplete)

-----------------------------------------------------------------------------
ReaderOK ==
  /\ reader \in [kind : {"none", "adapter", "contents", "exact"},
                 start : Nat, end : Nat, at : Nat]
  /\ Offset(reader) <= reader.end
  /\ reader.kind \in {"none", "adapter"} => reader.at = 0
  /\ last = reader.end

ReadOK ==
  /\ read \in [state : {"none", "new", "pending"}, dest : Nat, len : Nat,
               at : Nat]
  /\ read.state = "none" => read = NoRead
  /\ read.state # "none" => reader.kind # "none" /\ read.len <= read.dest

(* Types; a reader never stands behind its end, so that what remains() is   *)
(* never negative, and nothing stays in flight between two calls.           *)
ReadTypeOK ==
  /\ ReaderOK
  /\ ReadOK
  /\ io \in {"none", "busy", "done"}
  /\ io # "none" => read.state = "pending"
  /\ passed \in [from : Nat, upto : Nat]
  /\ answer \in {"open", "bytes", "nothing", "end", "full", "error"}

(* A read in progress asks for bytes of the range only, from where the       *)
(* caller left off, also after errors, short reads and a change of range.   *)
ReadsStayInRange ==
  read # NoRead =>
    /\ read.at = Offset(reader)
    /\ read.at = passed.upto
    /\ read.at + read.len <= reader.end

(* What poll_position() reports, and where the next read goes on, is where   *)
(* the bytes handed out end: no byte is skipped or seen twice, whatever      *)
(* buffers the caller comes with and whichever reads fail.                  *)
PositionIsWhatWasRead == Offset(reader) = passed.upto

(* Every read returns, be it that bytes come in small pieces or the source   *)
(* ends early.                                                              *)
ReadReturns == read # NoRead ~> read = NoRead

(* The readers keep the promise of a reader of a range.                      *)
Promise == INSTANCE RangeReader
ImplementsRangeReader == Promise!RangeSpec
=============================================================================
