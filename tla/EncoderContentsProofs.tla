----------------------- MODULE EncoderContentsProofs ------------------------
(***************************************************************************)
(* The contents of files: what the encoder says of an archive when its root *)
(* is finished is true of the streams, for every choice of names, hashes,   *)
(* metadata, sizes and bounds, and whatever directories were entered and    *)
(* left after a file was given up.                                         *)
(*                                                                         *)
(* Split /\ TokioIo is excluded where contents are concerned: there          *)
(* poll_write puts the contents of a file into the wrong stream.            *)
(***************************************************************************)
EXTENDS EncoderOffsetsProofs, FiniteSetTheorems

-----------------------------------------------------------------------------
(***************************************************************************)
(* The contents in a stream.                                               *)
(***************************************************************************)
Payloads(s) == CellsOf(s, "PAYLOAD")

ContentBegin(c) == c.at + HeaderSize
ContentEnd(c) == c.at + HeaderSize + c.item.content

(* Nothing but data where the content of c belongs.                         *)
OnlyData(s, c) ==
  \A d \in s.cells :
    ContentBegin(c) <= d.at /\ d.at < ContentEnd(c) => d.item.htype = "DATA"

(* The content of c is complete, and something else has begun behind it.    *)
Settled(s, c) ==
  /\ OnlyData(s, c)
  /\ \E d \in s.cells : d.at = ContentEnd(c) /\ d.item.htype # "DATA"

(* The content of c is what the stream ends with; "rest" is missing.        *)
Growing(s, c, rest) == OnlyData(s, c) /\ ContentEnd(c) = s.len + rest

(* c will never have its content: something else began too early, or will.  *)
Short(s, c) ==
  \/ s.len < ContentEnd(c)
  \/ \E d \in s.cells : /\ ContentBegin(c) <= d.at /\ d.at < ContentEnd(c)
                        /\ d.item.htype # "DATA"

Filling(s, rest) ==
  \E c \in Payloads(s) :
    /\ Growing(s, c, rest)
    /\ \A d \in Payloads(s) \ {c} : Settled(s, d)

SomeShort(s) == \E c \in Payloads(s) : Short(s, c)

-----------------------------------------------------------------------------
(***************************************************************************)
(* The invariant.                                                          *)
(***************************************************************************)
FileStream == IF Split THEN payload ELSE archive

(* No file went without its content, as far as the encoder's flags tell.    *)
Clean == IF state = <<>> THEN result \in {"none", "ok"}
                         ELSE Top.encode_error = "none"

(* An error is always the current directory's: none can be entered after it, *)
(* and finish() hands it on.                                               *)
FlagsTell ==
  /\ \A d \in 1..Depth - 1 : state[d].encode_error = "none"
  /\ file.open => Clean
  /\ promised # <<>> => Clean /\ Split /\ ~file.open
  /\ state # <<>> => result = "none"
  /\ phase = "new" <=> state = <<>> /\ result = "none"

ContentsAccounted ==
  /\ Split => Payloads(archive) = {}
  /\ ~Split => Payloads(payload) = {}
  /\ file.open => Filling(FileStream, file.remaining_size)
  /\ ~file.open /\ Clean => ContentsComplete(FileStream)
  /\ ~file.open /\ ~Clean => SomeShort(FileStream)
  /\ phase = "new" => archive = EmptyStream

Accounted ==
  /\ FlagsTell
  /\ ContentsAccounted
  /\ IsFiniteSet(CellsOf(archive, "FILENAME"))

CInv ==
  /\ OInv
  /\ faults = {} /\ ~(Split /\ TokioIo) => Accounted

-----------------------------------------------------------------------------
(***************************************************************************)
(* One item more.                                                          *)
(***************************************************************************)
LEMMA AppendCells ==
  ASSUME NEW s, Stream(s), NEW item, ItemOK(item)
  PROVE  LET t == Append1(s, item)
             new == [at |-> s.len, item |-> item]
         IN /\ Stream(t)
            /\ t.cells = s.cells \cup {new}
            /\ t.len = s.len + item.size
            /\ s.len \in Nat /\ item.size \in Nat
            /\ new.at = s.len /\ new.item = item
<1>1. s.len \in Nat /\ item.size \in Nat
  BY DEF Stream, ItemOK
<1> QED BY <1>1, Append1Stream DEF Append1

LEMMA PayloadCell ==
  ASSUME NEW s, Stream(s), NEW c \in Payloads(s)
  PROVE  /\ c \in s.cells /\ c.item.htype = "PAYLOAD"
         /\ c.at \in Nat /\ c.item.content \in Nat
         /\ ContentBegin(c) \in Nat /\ ContentEnd(c) \in Nat
         /\ c.at < ContentBegin(c) /\ ContentBegin(c) <= s.len
         /\ ContentBegin(c) <= ContentEnd(c)
<1>1. c \in s.cells /\ c.item.htype = "PAYLOAD"
  BY DEF Payloads, CellsOf
<1>2. /\ c.at \in Nat /\ c.item.size \in Nat /\ c.item.size >= HeaderSize
      /\ c.at + c.item.size <= s.len /\ s.len \in Nat
      /\ c.item.content \in FileSizes
  BY <1>1 DEF Stream, ItemOK
<1>3. c.item.content \in Nat
  BY <1>2, EncoderAssumption
<1> QED BY <1>1, <1>2, <1>3 DEF ContentBegin, ContentEnd, HeaderSize

(* ContentComplete with the operators above.                                *)
LEMMA CompleteMeans ==
  ASSUME NEW s, NEW c
  PROVE  ContentComplete(s, c) <=>
           OnlyData(s, c) /\ (ContentEnd(c) = s.len \/ Settled(s, c))
  BY DEF ContentComplete, OnlyData, Settled, ContentBegin, ContentEnd

(* What was settled stays settled.                                          *)
LEMMA SettledStays ==
  ASSUME NEW s, Stream(s), NEW item, ItemOK(item),
         NEW c \in Payloads(s), Settled(s, c)
  PROVE  Settled(Append1(s, item), c)
<1> DEFINE t == Append1(s, item)
           new == [at |-> s.len, item |-> item]
<1>1. /\ t.cells = s.cells \cup {new} /\ new.at = s.len
      /\ s.len \in Nat
  BY AppendCells
<1> HIDE DEF t, new
<1>2. PICK d \in s.cells : d.at = ContentEnd(c) /\ d.item.htype # "DATA"
  BY DEF Settled
<1>3. ContentEnd(c) < s.len
  <2>1. /\ d.at \in Nat /\ d.item.size \in Nat /\ d.item.size >= HeaderSize
        /\ d.at + d.item.size <= s.len
    BY <1>2 DEF Stream, ItemOK
  <2> QED BY <1>1, <1>2, <2>1 DEF HeaderSize
<1>4. ContentEnd(c) \in Nat
  BY PayloadCell
<1>5. OnlyData(t, c)
  <2> SUFFICES ASSUME NEW x \in t.cells,
                      ContentBegin(c) <= x.at, x.at < ContentEnd(c)
               PROVE  x.item.htype = "DATA"
    BY DEF OnlyData
  <2>1. x # new
    BY <1>1, <1>3, <1>4
  <2> QED BY <1>1, <2>1 DEF Settled, OnlyData
<1> QED BY <1>1, <1>2, <1>5 DEF Settled, t

(* Anything but data settles what was complete.                             *)
LEMMA CompleteSettles ==
  ASSUME NEW s, Stream(s), NEW item, ItemOK(item), item.htype # "DATA",
         NEW c \in Payloads(s), ContentComplete(s, c)
  PROVE  Settled(Append1(s, item), c)
<1> DEFINE t == Append1(s, item)
           new == [at |-> s.len, item |-> item]
<1>1. /\ t.cells = s.cells \cup {new} /\ new.at = s.len /\ new.item = item
      /\ s.len \in Nat
  BY AppendCells
<1>2. OnlyData(s, c) /\ (ContentEnd(c) = s.len \/ Settled(s, c))
  BY CompleteMeans
<1>3. CASE Settled(s, c)
  BY <1>3, SettledStays
<1>4. CASE ContentEnd(c) = s.len
  <2> HIDE DEF t, new
  <2>1. OnlyData(t, c)
    BY <1>1, <1>2, <1>4 DEF OnlyData
  <2>2. Settled(t, c)
    BY <1>1, <1>4, <2>1 DEF Settled
  <2> QED BY <2>2 DEF t
<1> QED BY <1>2, <1>3, <1>4

(* What was short stays short, unless data is appended.                     *)
LEMMA ShortStays ==
  ASSUME NEW s, Stream(s), NEW item, ItemOK(item), item.htype # "DATA",
         NEW c \in Payloads(s), Short(s, c)
  PROVE  Short(Append1(s, item), c)
<1> DEFINE t == Append1(s, item)
           new == [at |-> s.len, item |-> item]
<1>1. /\ t.cells = s.cells \cup {new} /\ new.at = s.len /\ new.item = item
      /\ s.len \in Nat
  BY AppendCells
<1>2. ContentBegin(c) <= s.len
  BY PayloadCell
<1> HIDE DEF t, new
<1>3. Short(t, c)
  BY <1>1, <1>2 DEF Short
<1> QED BY <1>3 DEF t

LEMMA ShortIsIncomplete ==
  ASSUME NEW s, Stream(s), NEW c \in Payloads(s)
  PROVE  Short(s, c) => ~ContentComplete(s, c)
<1>1. s.len \in Nat /\ ContentEnd(c) \in Nat
  BY PayloadCell DEF Stream
<1>2. \A d \in s.cells : d.at \in Nat /\ d.at <= s.len
  BY <1>1 DEF Stream, ItemOK
<1> QED BY <1>1, <1>2, CompleteMeans DEF Short, OnlyData, Settled

LEMMA PayloadsAppend ==
  ASSUME NEW s, Stream(s), NEW item, ItemOK(item)
  PROVE  Payloads(Append1(s, item)) =
           IF item.htype = "PAYLOAD"
             THEN Payloads(s) \cup {[at |-> s.len, item |-> item]}
             ELSE Payloads(s)
<1> DEFINE new == [at |-> s.len, item |-> item]
<1>1. Append1(s, item).cells = s.cells \cup {new} /\ new.item = item
  BY AppendCells
<1> HIDE DEF new
<1>2. CASE item.htype = "PAYLOAD"
  BY <1>1, <1>2 DEF Payloads, CellsOf, new
<1>3. CASE item.htype # "PAYLOAD"
  BY <1>1, <1>3 DEF Payloads, CellsOf, new
<1> QED BY <1>2, <1>3

(* t is s with items that are not about contents appended.                  *)
Steady(s, t) ==
  /\ Stream(t)
  /\ Payloads(t) = Payloads(s)
  /\ ContentsComplete(s) => ContentsComplete(t)
  /\ SomeShort(s) => SomeShort(t)

LEMMA SteadyRefl ==
  ASSUME NEW s, Stream(s)
  PROVE  Steady(s, s)
  BY DEF Steady

LEMMA SteadyTrans ==
  ASSUME NEW s, NEW t, NEW u, Steady(s, t), Steady(t, u)
  PROVE  Steady(s, u)
  BY DEF Steady

LEMMA SteadyAppend ==
  ASSUME NEW s, Stream(s), NEW item, ItemOK(item),
         item.htype \notin {"DATA", "PAYLOAD"}
  PROVE  Steady(s, Append1(s, item))
<1> DEFINE t == Append1(s, item)
<1>1. Stream(t) /\ Payloads(t) = Payloads(s)
  BY AppendCells, PayloadsAppend
<1>2. ASSUME ContentsComplete(s) PROVE ContentsComplete(t)
  <2> SUFFICES ASSUME NEW c \in Payloads(s) PROVE ContentComplete(t, c)
    BY <1>1 DEF ContentsComplete, Payloads
  <2>1. ContentComplete(s, c)
    BY <1>2 DEF ContentsComplete, Payloads
  <2>2. Settled(t, c)
    BY <2>1, CompleteSettles
  <2> QED BY <2>2, CompleteMeans DEF Settled
<1>3. SomeShort(s) => SomeShort(t)
  BY <1>1, ShortStays DEF SomeShort
<1> QED BY <1>1, <1>2, <1>3 DEF Steady

(* A PAYLOAD header opens a file.                                           *)
LEMMA PayloadFills ==
  ASSUME NEW s, Stream(s), ContentsComplete(s), NEW size \in FileSizes
  PROVE  /\ Stream(Append1(s, Payload(size)))
         /\ Filling(Append1(s, Payload(size)), size)
<1> DEFINE item == Payload(size)
           new == [at |-> s.len, item |-> item]
           t == Append1(s, item)
<1>1. /\ size \in Nat
      /\ ItemOK(item) /\ item.htype = "PAYLOAD" /\ item.content = size
      /\ item.size = HeaderSize
  BY EncoderAssumption, SizedItemsOK DEF Payload
<1> HIDE DEF item
<1>2. /\ Stream(t) /\ t.cells = s.cells \cup {new}
      /\ t.len = s.len + HeaderSize
      /\ new.at = s.len /\ new.item = item /\ s.len \in Nat
  BY <1>1, AppendCells
<1>3. Payloads(t) = Payloads(s) \cup {new}
  BY <1>1, PayloadsAppend
<1>4. ContentBegin(new) = t.len /\ ContentEnd(new) = t.len + size
  BY <1>1, <1>2 DEF ContentBegin, ContentEnd
<1>5. \A c \in Payloads(s) : Settled(t, c)
  <2> TAKE c \in Payloads(s)
  <2>1. ContentComplete(s, c)
    BY DEF ContentsComplete, Payloads
  <2> QED BY <1>1, <2>1, CompleteSettles
<1>6. Growing(t, new, size)
  <2> SUFFICES ASSUME NEW d \in t.cells, t.len <= d.at
               PROVE  FALSE
    BY <1>4 DEF Growing, OnlyData
  <2>1. d.at \in Nat /\ d.at <= s.len
    BY <1>2 DEF Stream, ItemOK
  <2> QED BY <1>2, <2>1 DEF HeaderSize
<1> HIDE DEF new, t
<1>7. Filling(t, size)
  BY <1>3, <1>5, <1>6 DEF Filling
<1> QED BY <1>2, <1>7 DEF t, item

(* Data goes to the open file.                                              *)
LEMMA DataFills ==
  ASSUME NEW s, Stream(s), NEW rest \in Nat, Filling(s, rest),
         NEW k \in Nat, k <= rest, k # 0
  PROVE  /\ Stream(Append1(s, Data(k)))
         /\ Payloads(Append1(s, Data(k))) = Payloads(s)
         /\ Filling(Append1(s, Data(k)), rest - k)
<1> DEFINE item == Data(k)
           new == [at |-> s.len, item |-> item]
           t == Append1(s, item)
<1>1. ItemOK(item) /\ item.htype = "DATA" /\ item.size = k
  BY DEF ItemOK, ItemTypes, Data
<1> HIDE DEF item
<1>2. /\ Stream(t) /\ t.cells = s.cells \cup {new}
      /\ t.len = s.len + k
      /\ new.at = s.len /\ new.item = item /\ s.len \in Nat
  BY <1>1, AppendCells
<1>3. Payloads(t) = Payloads(s)
  BY <1>1, PayloadsAppend
<1>4. PICK c \in Payloads(s) :
        /\ Growing(s, c, rest)
        /\ \A d \in Payloads(s) \ {c} : Settled(s, d)
  BY DEF Filling
<1>5. \A d \in Payloads(s) \ {c} : Settled(t, d)
  BY <1>1, <1>4, SettledStays
<1> HIDE DEF new, t
<1>6. Growing(t, c, rest - k)
  <2>1. ContentEnd(c) = t.len + (rest - k)
    BY <1>2, <1>4 DEF Growing
  <2>2. OnlyData(t, c)
    BY <1>1, <1>2, <1>4 DEF Growing, OnlyData
  <2> QED BY <2>1, <2>2 DEF Growing
<1>7. Filling(t, rest - k)
  BY <1>3, <1>4, <1>5, <1>6 DEF Filling
<1> QED BY <1>2, <1>3, <1>7 DEF t, item

(* The file is closed: complete, or short for good.                         *)
LEMMA FillingEnds ==
  ASSUME NEW s, Stream(s), NEW rest \in Nat, Filling(s, rest)
  PROVE  IF rest = 0 THEN ContentsComplete(s) ELSE SomeShort(s)
<1>1. PICK c \in Payloads(s) :
        /\ Growing(s, c, rest)
        /\ \A d \in Payloads(s) \ {c} : Settled(s, d)
  BY DEF Filling
<1>2. s.len \in Nat
  BY DEF Stream
<1>3. CASE rest = 0
  <2>1. \A d \in Payloads(s) : ContentComplete(s, d)
    BY <1>1, <1>2, <1>3, CompleteMeans DEF Growing, Settled
  <2> QED BY <1>3, <2>1 DEF ContentsComplete, Payloads
<1>4. CASE rest # 0
  <2>1. Short(s, c)
    BY <1>1, <1>2, <1>4 DEF Growing, Short
  <2> QED BY <1>1, <1>4, <2>1 DEF SomeShort
<1> QED BY <1>3, <1>4

-----------------------------------------------------------------------------
(***************************************************************************)
(* The names in the archive.                                               *)
(***************************************************************************)
NamesIn(s) == CellsOf(s, "FILENAME")

OneNameMore(s, t) ==
  \E c : c \notin NamesIn(s) /\ NamesIn(t) = NamesIn(s) \cup {c}

LEMMA NameAppended ==
  ASSUME NEW s, Stream(s), NEW item, ItemOK(item)
  PROVE  IF item.htype = "FILENAME"
           THEN OneNameMore(s, Append1(s, item))
           ELSE NamesIn(Append1(s, item)) = NamesIn(s)
<1> DEFINE new == [at |-> s.len, item |-> item]
<1>1. /\ Append1(s, item).cells = s.cells \cup {new}
      /\ new.item = item /\ new.at = s.len /\ s.len \in Nat
  BY AppendCells
<1>2. CASE item.htype = "FILENAME"
  <2>1. new \notin s.cells
    <3> SUFFICES ASSUME new \in s.cells PROVE FALSE
      OBVIOUS
    <3>1. s.len + item.size <= s.len /\ item.size \in Nat
          /\ item.size >= HeaderSize
      BY <1>1, <1>2 DEF Stream, ItemOK
    <3> QED BY <1>1, <3>1 DEF HeaderSize
  <2> HIDE DEF new
  <2>2. /\ new \notin NamesIn(s)
        /\ NamesIn(Append1(s, item)) = NamesIn(s) \cup {new}
    BY <1>1, <1>2, <2>1 DEF NamesIn, CellsOf
  <2> QED BY <1>2, <2>2 DEF OneNameMore
<1>3. CASE item.htype # "FILENAME"
  <2> HIDE DEF new
  <2> QED BY <1>1, <1>3 DEF NamesIn, CellsOf
<1> QED BY <1>2, <1>3

LEMMA OneNameMoreCounts ==
  ASSUME NEW s, NEW t, IsFiniteSet(NamesIn(s)), OneNameMore(s, t)
  PROVE  /\ IsFiniteSet(NamesIn(t))
         /\ Cardinality(NamesIn(t)) = Cardinality(NamesIn(s)) + 1
  BY FS_AddElement DEF OneNameMore

-----------------------------------------------------------------------------
(***************************************************************************)
(* The error of a directory.                                               *)
(***************************************************************************)
LEMMA ErrorFields ==
  ASSUME NEW st \in EncoderStates, NEW wp, NEW pp, NEW item
  PROVE  /\ At(st, wp).encode_error = st.encode_error
         /\ PayloadAt(st, pp).encode_error = st.encode_error
         /\ Listing(st, item).encode_error = st.encode_error
  BY DEF At, PayloadAt, Listing, EncoderStates

LEMMA DropIntoError ==
  ASSUME NEW st \in EncoderStates, NEW item, NEW remaining
  PROVE  DropInto(st, item, remaining).encode_error =
           IF remaining # 0 /\ st.encode_error = "none"
             THEN "IncompleteFile" ELSE st.encode_error
<1> DEFINE e == IF remaining # 0 THEN MergeError(st, "IncompleteFile") ELSE st
<1>1. e \in EncoderStates
  BY DEF MergeError, EncoderStates, EncodeErrors
<1>2. e.encode_error = IF remaining # 0 /\ st.encode_error = "none"
                         THEN "IncompleteFile" ELSE st.encode_error
  BY DEF MergeError, EncoderStates
<1>3. DropInto(st, item, remaining) = Listing(e, item)
  BY DEF DropInto
<1> HIDE DEF e
<1> QED BY <1>1, <1>2, <1>3, ErrorFields

(* A step within the current directory.                                     *)
LEMMA TopIsSet ==
  ASSUME IInv, state # <<>>, NEW t \in EncoderStates, SetTop(t)
  PROVE  /\ Depth \in Nat \ {0} /\ Depth' = Depth /\ Top' = t
         /\ state' # <<>>
         /\ \A d \in 1..Depth - 1 : state'[d] = state[d]
<1>1. Depth \in Nat \ {0} /\ Depth = Len(state)
  BY TopOK
<1>2. state \in Seq(EncoderStates) /\ state' = [state EXCEPT ![Len(state)] = t]
  BY <1>1 DEF SetTop, IInv, TypeOK
<1>3. /\ Len(state') = Len(state) /\ state'[Len(state)] = t
      /\ \A d \in 1..Len(state) - 1 : state'[d] = state[d]
  BY <1>1, <1>2
<1> QED BY <1>1, <1>3 DEF Depth, Top

LEMMA TopStepAccounts ==
  ASSUME IInv, Accounted, state # <<>>, NEW t \in EncoderStates, SetTop(t),
         phase' = phase, result' = result,
         IF file'.open
           THEN /\ t.encode_error = "none"
                /\ promised' = <<>>
                /\ Filling(FileStream', file'.remaining_size)
           ELSE IF t.encode_error = "none"
                  THEN ContentsComplete(FileStream')
                  ELSE SomeShort(FileStream') /\ promised' = <<>>,
         promised' # <<>> => Split,
         Split => Payloads(archive') = {},
         ~Split => Payloads(payload') = {},
         IsFiniteSet(NamesIn(archive'))
  PROVE  Accounted'
<1>1. /\ Depth' = Depth /\ Top' = t /\ state' # <<>>
      /\ \A d \in 1..Depth - 1 : state'[d] = state[d]
  BY TopIsSet
<1>2. Clean' <=> t.encode_error = "none"
  BY <1>1 DEF Clean
<1>3. FlagsTell'
  BY <1>1, <1>2 DEF FlagsTell, Accounted
<1>4. ContentsAccounted'
  BY <1>2 DEF ContentsAccounted, Accounted, FlagsTell
<1> QED BY <1>3, <1>4 DEF Accounted, NamesIn

(* A call that has nothing to do with contents.                             *)
LEMMA SteadyTopAccounts ==
  ASSUME IInv, Accounted, state # <<>>, NEW t \in EncoderStates, SetTop(t),
         t.encode_error = Top.encode_error, ~file.open,
         UNCHANGED <<file, phase, result>>,
         Steady(archive, archive'), Steady(payload, payload'),
         promised' # <<>> =>
           promised = promised' \/ (Split /\ Top.encode_error = "none"),
         IsFiniteSet(NamesIn(archive'))
  PROVE  Accounted'
<1>1. FlagsTell /\ ContentsAccounted
  BY DEF Accounted
<1>2. Clean <=> Top.encode_error = "none"
  BY DEF Clean
<1>3. Steady(FileStream, FileStream')
  BY DEF FileStream
<1>4. /\ Split => Payloads(archive') = {}
      /\ ~Split => Payloads(payload') = {}
  BY <1>1 DEF Steady, ContentsAccounted
<1>5. ~file'.open
  OBVIOUS
<1>6. IF t.encode_error = "none"
        THEN ContentsComplete(FileStream')
        ELSE SomeShort(FileStream') /\ promised' = <<>>
  <2>1. IF Clean THEN ContentsComplete(FileStream) ELSE SomeShort(FileStream)
    BY <1>1 DEF ContentsAccounted
  <2> QED BY <1>1, <1>2, <1>3, <2>1 DEF Steady, FlagsTell
<1>7. promised' # <<>> => Split
  BY <1>1 DEF FlagsTell
<1> QED BY <1>4, <1>5, <1>6, <1>7, TopStepAccounts

-----------------------------------------------------------------------------
(***************************************************************************)
(* What the calls write.                                                   *)
(***************************************************************************)
LEMMA WriterOut ==
  ASSUME NEW w, NEW item
  PROVE  SeqWrite(w, item).out = Append1(w.out, item)
  BY DEF SeqWrite

LEMMA FilenameOK ==
  ASSUME NEW n \in Names
  PROVE  ItemOK(Filename(n)) /\ Filename(n).htype = "FILENAME"
<1>1. NameLen[n] \in Nat
  BY NamesAssumption
<1> QED BY <1>1 DEF ItemOK, ItemTypes, Filename, HeaderSize

LEMMA NamedSteady ==
  ASSUME NEW s, Stream(s), NEW n \in Names
  PROVE  /\ Steady(s, Append1(s, Filename(n)))
         /\ OneNameMore(s, Append1(s, Filename(n)))
         /\ Stream(Append1(s, Filename(n)))
<1>1. ItemOK(Filename(n)) /\ Filename(n).htype = "FILENAME"
  BY FilenameOK
<1> QED BY <1>1, SteadyAppend, NameAppended DEF Steady

(* An item that is neither a name nor content.                              *)
LEMMA OtherSteady ==
  ASSUME NEW s, NEW t, Steady(s, t), NEW item, ItemOK(item),
         item.htype \notin {"DATA", "PAYLOAD", "FILENAME"}
  PROVE  /\ Steady(s, Append1(t, item))
         /\ NamesIn(Append1(t, item)) = NamesIn(t)
<1>1. Stream(t)
  BY DEF Steady
<1>2. Steady(t, Append1(t, item))
  BY <1>1, SteadyAppend
<1>3. NamesIn(Append1(t, item)) = NamesIn(t)
  BY <1>1, NameAppended
<1> QED BY <1>2, <1>3, SteadyTrans

LEMMA StartFileSteady ==
  ASSUME IInv, state # <<>>, NEW n \in Names, NEW meta \in Metas
  PROVE  LET s == StartFile(n, meta).out IN
         Steady(archive, s) /\ OneNameMore(archive, s) /\ Stream(s)
<1> DEFINE s == Append1(archive, Filename(n))
           t == Append1(s, Entry(meta))
<1>1. Stream(archive)
  BY DEF IInv, TypeOK
<1>2. Steady(archive, s) /\ OneNameMore(archive, s)
  BY <1>1, NamedSteady
<1>3. ItemOK(Entry(meta)) /\ Entry(meta).htype = "ENTRY"
  BY NamedItemsOK DEF Entry, Filename
<1>4. StartFile(n, meta).out = t
  BY WriterOut DEF StartFile, ArchiveWriter
<1> HIDE DEF s
<1>5. Steady(archive, t) /\ NamesIn(t) = NamesIn(s)
  BY <1>2, <1>3, OtherSteady
<1>6. OneNameMore(archive, t)
  BY <1>2, <1>5 DEF OneNameMore
<1> QED BY <1>4, <1>5, <1>6 DEF Steady

(* The two streams once create_file is through.                             *)
LEMMA FileOpens ==
  ASSUME IInv, Accounted, state # <<>>, ContentsComplete(FileStream),
         NEW n \in Names, NEW meta \in Metas, NEW size \in FileSizes
  PROVE  LET a == FileArchive(n, meta, size).out
             p == FilePayload(size).out
         IN /\ Stream(a) /\ Stream(p)
            /\ OneNameMore(archive, a)
            /\ Filling(IF Split THEN p ELSE a, size)
            /\ Split => Payloads(a) = {}
            /\ ~Split => Payloads(p) = {}
<1> DEFINE s == StartFile(n, meta).out
           a == FileArchive(n, meta, size).out
           p == FilePayload(size).out
<1>1. Steady(archive, s) /\ OneNameMore(archive, s) /\ Stream(s)
  BY StartFileSteady
<1>2. Stream(archive) /\ Stream(payload) /\ ContentsAccounted
  BY DEF IInv, TypeOK, Accounted
<1>3. CASE Split
  <2> DEFINE ref == PayloadRef(Top.payload_write_position, size)
  <2>1. a = Append1(s, ref) /\ p = Append1(payload, Payload(size))
    BY <1>3, WriterOut DEF FileArchive, FilePayload, PayloadWriter
  <2>2. ItemOK(ref) /\ ref.htype = "PAYLOAD_REF"
    <3>1. Top.payload_write_position \in Nat /\ size \in Nat
      BY TopOK, EncoderAssumption
    <3> QED BY <3>1, SizedItemsOK DEF PayloadRef
  <2> HIDE DEF s, ref, a, p
  <2>3. Steady(archive, a) /\ NamesIn(a) = NamesIn(s)
    BY <1>1, <2>1, <2>2, OtherSteady
  <2>4. OneNameMore(archive, a)
    BY <1>1, <2>3 DEF OneNameMore
  <2>5. ContentsComplete(payload)
    BY <1>3 DEF FileStream
  <2>6. Stream(p) /\ Filling(p, size)
    BY <1>2, <2>1, <2>5, PayloadFills
  <2> QED BY <1>2, <1>3, <2>3, <2>4, <2>6
          DEF Steady, ContentsAccounted, a, p
<1>4. CASE ~Split
  <2>1. a = Append1(s, Payload(size)) /\ p = payload
    BY <1>4, WriterOut DEF FileArchive, FilePayload, PayloadWriter
  <2>2. ItemOK(Payload(size)) /\ Payload(size).htype = "PAYLOAD"
    BY EncoderAssumption, SizedItemsOK DEF Payload
  <2> HIDE DEF s, a, p
  <2>3. ContentsComplete(s)
    BY <1>1, <1>4 DEF FileStream, Steady
  <2>4. Stream(a) /\ Filling(a, size)
    BY <1>1, <2>1, <2>3, PayloadFills
  <2>5. OneNameMore(archive, a)
    <3>1. NamesIn(a) = NamesIn(s)
      BY <1>1, <2>1, <2>2, NameAppended
    <3> QED BY <1>1, <3>1 DEF OneNameMore
  <2> QED BY <1>2, <1>4, <2>1, <2>4, <2>5 DEF ContentsAccounted, a, p
<1> QED BY <1>3, <1>4

-----------------------------------------------------------------------------
(***************************************************************************)
(* The calls.                                                              *)
(***************************************************************************)
(* What check() has found when it passes.                                   *)
LEMMA CheckIsClean ==
  ASSUME Accounted, Check
  PROVE  /\ state # <<>> /\ ~file.open /\ phase = "open"
         /\ Top.encode_error = "none" /\ Clean
         /\ ContentsComplete(FileStream)
<1>1. /\ state # <<>> /\ ~file.open /\ phase = "open"
      /\ Top.encode_error = "none"
  BY DEF Check, Usable
<1>2. Clean
  BY <1>1 DEF Clean
<1> QED BY <1>1, <1>2 DEF Accounted, ContentsAccounted

LEMMA FiniteNames ==
  ASSUME Accounted,
         OneNameMore(archive, archive') \/ NamesIn(archive') = NamesIn(archive)
  PROVE  IsFiniteSet(NamesIn(archive'))
<1>1. IsFiniteSet(NamesIn(archive))
  BY DEF Accounted, NamesIn
<1> QED BY <1>1, OneNameMoreCounts

LEMMA CreateFileAccounts ==
  ASSUME IInv, Accounted, NEW n \in Names, NEW meta \in Metas,
         NEW size \in FileSizes, CreateFile(n, meta, size)
  PROVE  /\ Accounted' /\ OneNameMore(archive, archive')
         /\ Depth' = Depth /\ file'.open
<1> DEFINE a == FileArchive(n, meta, size)
           p == FilePayload(size)
           t == PayloadAt(At(Top, a.position), p.position)
<1>1. /\ state # <<>> /\ Top.encode_error = "none"
      /\ ContentsComplete(FileStream) /\ promised = <<>>
  BY CheckIsClean DEF CreateFile, CanCreateFile
<1>2. /\ archive' = a.out /\ payload' = p.out /\ SetTop(t)
      /\ file' = [open |-> TRUE, remaining_size |-> size,
                  item |-> FileItem(n, meta, size)]
      /\ UNCHANGED <<phase, result, promised, faults>>
  BY DEF CreateFile
<1>3. /\ OneNameMore(archive, a.out)
      /\ Filling(IF Split THEN p.out ELSE a.out, size)
      /\ Split => Payloads(a.out) = {}
      /\ ~Split => Payloads(p.out) = {}
  BY <1>1, FileOpens
<1>4. Extends(ArchiveWriter, a) /\ Extends(PayloadWriter, p)
  BY <1>1, FileWritersOK
<1> HIDE DEF a, p
<1>5. t \in EncoderStates
  BY <1>1, <1>4, MovedOnOK DEF DirOK
<1>6. t.encode_error = "none"
  <2>1. Top \in EncoderStates /\ a.position \in Nat
    BY <1>1, <1>4, TopOK DEF DirOK, Extends, IsWriter
  <2>2. At(Top, a.position) \in EncoderStates
    BY <2>1 DEF At, EncoderStates
  <2> QED BY <1>1, <2>1, <2>2, ErrorFields
<1> HIDE DEF t
<1>7. file'.open /\ file'.remaining_size = size
  BY <1>2
<1>8. Filling(FileStream', size)
  BY <1>2, <1>3 DEF FileStream
<1>9. IsFiniteSet(NamesIn(archive'))
  BY <1>2, <1>3, FiniteNames
<1>10. Accounted'
  BY <1>1, <1>2, <1>3, <1>5, <1>6, <1>7, <1>8, <1>9, TopStepAccounts
<1> QED BY <1>1, <1>2, <1>3, <1>5, <1>7, <1>10, TopIsSet

(* write() and poll_write() reduce remaining_size by what they wrote.        *)
LEMMA WriteAccounts ==
  ASSUME IInv, Accounted, ~(Split /\ TokioIo), NEW k \in WriteSizes,
         Write(k) \/ PollWrite(k)
  PROVE  /\ Accounted' /\ NamesIn(archive') = NamesIn(archive)
         /\ Depth' = Depth /\ file'.open
<1>1. k \in Nat /\ k # 0
  BY EncoderAssumption
<1>2. /\ file.open /\ state # <<>> /\ k <= file.remaining_size
      /\ file.remaining_size \in Nat /\ file \in FileImpls
      /\ file' = [file EXCEPT !.remaining_size = @ - k]
      /\ UNCHANGED <<phase, result, links, promised, faults>>
  BY DEF Write, PollWrite, IInv, TypeOK, FileImpls
<1>3. file'.open /\ file'.remaining_size = file.remaining_size - k
  BY <1>2 DEF FileImpls
<1>4. /\ FlagsTell /\ ContentsAccounted /\ promised = <<>>
      /\ Top.encode_error = "none"
  BY <1>2 DEF Accounted, FlagsTell, Clean
<1>5. /\ Stream(archive) /\ Stream(payload)
      /\ DirOK(Top) /\ Top \in EncoderStates
      /\ Top.write_position \in Nat /\ Top.payload_write_position \in Nat
  BY <1>2, TopOK DEF IInv, TypeOK, DirOK
<1>6. ItemOK(Data(k)) /\ Data(k).htype = "DATA" /\ Data(k).size = k
  BY <1>1 DEF ItemOK, ItemTypes, Data
<1>7. Stream(FileStream) /\ Filling(FileStream, file.remaining_size)
  BY <1>2, <1>4, <1>5 DEF FileStream, ContentsAccounted
<1>8. /\ Payloads(Append1(FileStream, Data(k))) = Payloads(FileStream)
      /\ Filling(Append1(FileStream, Data(k)), file.remaining_size - k)
  BY <1>1, <1>2, <1>7, DataFills
<1>9. PICK t \in EncoderStates :
        /\ SetTop(t) /\ t.encode_error = "none"
        /\ FileStream' = Append1(FileStream, Data(k))
        /\ Split => archive' = archive
        /\ ~Split => payload' = payload
  <2>1. CASE Split
    <3> DEFINE pp == SeqWrite(PayloadWriter, Data(k)).position
               t == PayloadAt(Top, pp)
    <3>1. /\ payload' = Append1(payload, Data(k)) /\ archive' = archive
          /\ SetTop(t)
      BY <1>1, <2>1, WriterOut
         DEF Write, PollWrite, PutContent, PutToPayload, SeqWriteData,
             PayloadWriter
    <3>2. pp \in Nat
      BY <1>1, <1>5, <1>6 DEF SeqWrite, PayloadWriter
    <3>3. t \in EncoderStates /\ t.encode_error = "none"
      BY <1>4, <1>5, <3>2, PayloadAtOK, ErrorFields DEF DirOK
    <3> QED BY <2>1, <3>1, <3>3 DEF FileStream
  <2>2. CASE ~Split
    <3> DEFINE wp == SeqWrite(ArchiveWriter, Data(k)).position
               t == At(Top, wp)
    <3>1. /\ archive' = Append1(archive, Data(k)) /\ payload' = payload
          /\ SetTop(t)
      BY <1>1, <2>2, WriterOut
         DEF Write, PollWrite, PutContent, PutToArchive, SeqWriteData,
             ArchiveWriter
    <3>2. wp \in Nat /\ Top.write_position <= wp
      BY <1>1, <1>5, <1>6 DEF SeqWrite, ArchiveWriter
    <3>3. t \in EncoderStates /\ t.encode_error = "none"
      BY <1>4, <1>5, <3>2, AtOK, ErrorFields DEF DirOK
    <3> QED BY <2>2, <3>1, <3>3 DEF FileStream
  <2> QED BY <2>1, <2>2
<1>10. NamesIn(archive') = NamesIn(archive)
  <2>1. archive' = archive \/ archive' = Append1(archive, Data(k))
    BY <1>9 DEF FileStream
  <2> QED BY <1>5, <1>6, <2>1, NameAppended
<1>11. /\ Split => Payloads(archive') = {}
       /\ ~Split => Payloads(payload') = {}
  BY <1>4, <1>9 DEF ContentsAccounted
<1>12. IsFiniteSet(NamesIn(archive'))
  BY <1>10, FiniteNames
<1>13. Accounted'
  BY <1>2, <1>3, <1>4, <1>8, <1>9, <1>11, <1>12, TopStepAccounts
<1> QED BY <1>2, <1>3, <1>9, <1>10, <1>13, TopIsSet

(* A file is given up or was written to the end.                            *)
LEMMA DropFileAccounts ==
  ASSUME IInv, Accounted, DropFile
  PROVE  /\ Accounted' /\ archive' = archive /\ Depth' = Depth /\ Depth > 0
<1> DEFINE t == DropInto(Top, file.item, file.remaining_size)
<1>1. /\ file.open /\ state # <<>> /\ file.remaining_size \in Nat
      /\ file.item \in GoodbyeItem /\ file.item.offset <= Top.write_position
      /\ Stream(archive) /\ Stream(payload)
  BY DEF DropFile, IInv, TypeOK, NothingUnderflows
<1>2. /\ SetTop(t) /\ file' = NoFile /\ ~file'.open
      /\ UNCHANGED <<archive, payload, phase, result, links, promised, faults>>
  BY DEF DropFile, NoFile
<1>3. /\ FlagsTell /\ ContentsAccounted /\ promised = <<>>
      /\ Top.encode_error = "none"
  BY <1>1 DEF Accounted, FlagsTell, Clean
<1>4. DirOK(Top) /\ Top \in EncoderStates
  BY <1>1, TopOK DEF DirOK
<1>5. t \in EncoderStates
  BY <1>1, <1>4, DropIntoOK DEF DirOK
<1>6. t.encode_error = IF file.remaining_size # 0 THEN "IncompleteFile"
                                                  ELSE "none"
  BY <1>3, <1>4, DropIntoError
<1> HIDE DEF t
<1>7. IF file.remaining_size = 0 THEN ContentsComplete(FileStream)
                                 ELSE SomeShort(FileStream)
  <2>1. Stream(FileStream) /\ Filling(FileStream, file.remaining_size)
    BY <1>1, <1>3 DEF FileStream, ContentsAccounted
  <2> QED BY <1>1, <2>1, FillingEnds
<1>8. FileStream' = FileStream
  BY <1>2 DEF FileStream
<1>9. /\ Split => Payloads(archive') = {}
      /\ ~Split => Payloads(payload') = {}
      /\ IsFiniteSet(NamesIn(archive'))
  BY <1>2, <1>3 DEF ContentsAccounted, Accounted, NamesIn
<1>10. IF t.encode_error = "none"
         THEN ContentsComplete(FileStream')
         ELSE SomeShort(FileStream') /\ promised' = <<>>
  BY <1>2, <1>3, <1>6, <1>7, <1>8
<1>11. Accounted'
  BY <1>1, <1>2, <1>3, <1>5, <1>9, <1>10, TopStepAccounts
<1>12. Depth' = Depth /\ Depth > 0
  BY <1>1, <1>2, <1>5, TopIsSet
<1> QED BY <1>2, <1>11, <1>12

LEMMA AddFileAccounts ==
  ASSUME IInv, Accounted, NEW n \in Names, NEW meta \in Metas,
         NEW size \in FileSizes, NEW got \in 0..size,
         NEW returned \in BOOLEAN, AddFile(n, meta, size, got, returned)
  PROVE  /\ Accounted' /\ OneNameMore(archive, archive')
         /\ Depth' = Depth /\ ~file'.open
<1> DEFINE a == FileArchive(n, meta, size)
           p == FilePayload(size)
           a2 == IF Split THEN a ELSE SeqWriteData(a, got)
           p2 == IF Split THEN SeqWriteData(p, got) ELSE p
           written == PayloadAt(At(Top, a2.position), p2.position)
           item == FileItem(n, meta, size)
           t == DropInto(written, item, size - got)
<1>1. /\ state # <<>> /\ ~file.open /\ Top.encode_error = "none"
      /\ ContentsComplete(FileStream) /\ promised = <<>>
  BY CheckIsClean DEF AddFile, CanCreateFile
<1>2. /\ archive' = a2.out /\ payload' = p2.out /\ SetTop(t)
      /\ UNCHANGED <<file, phase, result, promised, faults>>
  BY DEF AddFile
<1>3. /\ Stream(a.out) /\ Stream(p.out)
      /\ OneNameMore(archive, a.out)
      /\ Filling(IF Split THEN p.out ELSE a.out, size)
      /\ Split => Payloads(a.out) = {}
      /\ ~Split => Payloads(p.out) = {}
  BY <1>1, FileOpens
<1>4. /\ got \in Nat /\ size \in Nat /\ got <= size
      /\ size - got \in Nat /\ (size - got # 0 <=> got # size)
  BY EncoderAssumption
<1>5. /\ Extends(ArchiveWriter, a) /\ Extends(PayloadWriter, p)
      /\ IsWriter(a) /\ IsWriter(p)
      /\ IsWriter(ArchiveWriter) /\ IsWriter(PayloadWriter)
      /\ item \in GoodbyeItem /\ item.offset = Top.write_position
      /\ DirOK(Top) /\ Top \in EncoderStates
  BY <1>1, FileWritersOK, TopOK DEF Extends, DirOK
<1> HIDE DEF a, p, item
<1>6. Extends(ArchiveWriter, a2) /\ Extends(PayloadWriter, p2)
  <2>1. Extends(a, SeqWriteData(a, got)) /\ Extends(p, SeqWriteData(p, got))
    BY <1>4, <1>5, SeqWriteDataExtends
  <2> QED BY <1>5, <2>1, ExtendsTransitive
<1>7. /\ Stream(IF Split THEN p2.out ELSE a2.out)
      /\ Filling(IF Split THEN p2.out ELSE a2.out, size - got)
      /\ NamesIn(a2.out) = NamesIn(a.out)
      /\ Split => Payloads(a2.out) = {}
      /\ ~Split => Payloads(p2.out) = {}
  <2>1. CASE got = 0
    <3>1. a2 = a /\ p2 = p /\ size - got = size
      BY <1>4, <2>1 DEF SeqWriteData
    <3> HIDE DEF a2, p2
    <3> QED BY <1>3, <3>1
  <2>2. CASE got # 0
    <3>1. /\ Split => a2 = a /\ p2.out = Append1(p.out, Data(got))
          /\ ~Split => p2 = p /\ a2.out = Append1(a.out, Data(got))
      BY <2>2, WriterOut DEF SeqWriteData
    <3>2. ItemOK(Data(got)) /\ Data(got).htype = "DATA"
      BY <1>4 DEF ItemOK, ItemTypes, Data
    <3> HIDE DEF a2, p2
    <3>3. CASE Split
      <4>1. Stream(p2.out) /\ Filling(p2.out, size - got)
        BY <1>3, <1>4, <2>2, <3>1, <3>3, DataFills
      <4> QED BY <1>3, <3>1, <3>3, <4>1
    <3>4. CASE ~Split
      <4>1. /\ Stream(a2.out) /\ Filling(a2.out, size - got)
            /\ NamesIn(a2.out) = NamesIn(a.out)
        BY <1>3, <1>4, <2>2, <3>1, <3>2, <3>4, DataFills, NameAppended
      <4> QED BY <1>3, <3>1, <3>4, <4>1
    <3> QED BY <3>3, <3>4
  <2> QED BY <2>1, <2>2
<1> HIDE DEF a2, p2
<1>8. /\ DirOK(written) /\ written.write_position = a2.position
      /\ Top.write_position <= a2.position
      /\ written.encode_error = "none"
  <2>1. /\ DirOK(written) /\ written.write_position = a2.position
        /\ Top.write_position <= a2.position
    BY <1>1, <1>6, MovedOnOK
  <2>2. At(Top, a2.position) \in EncoderStates
    BY <1>5, <1>6 DEF At, EncoderStates, Extends, IsWriter
  <2> QED BY <1>1, <1>5, <2>1, <2>2, ErrorFields
<1> HIDE DEF written
<1>9. t \in EncoderStates
  BY <1>5, <1>8, DropIntoOK DEF DirOK
<1>10. t.encode_error = IF got # size THEN "IncompleteFile" ELSE "none"
  BY <1>4, <1>8, DropIntoError DEF DirOK
<1> HIDE DEF t
<1>11. IF t.encode_error = "none"
         THEN ContentsComplete(FileStream')
         ELSE SomeShort(FileStream') /\ promised' = <<>>
  <2>1. FileStream' = IF Split THEN p2.out ELSE a2.out
    BY <1>2 DEF FileStream
  <2>2. IF size - got = 0 THEN ContentsComplete(FileStream')
                          ELSE SomeShort(FileStream')
    BY <1>4, <1>7, <2>1, FillingEnds
  <2> QED BY <1>1, <1>2, <1>4, <1>10, <2>2
<1>12. OneNameMore(archive, archive')
  BY <1>2, <1>3, <1>7 DEF OneNameMore
<1>13. IsFiniteSet(NamesIn(archive'))
  BY <1>12, FiniteNames
<1>14. ~file'.open
  BY <1>1, <1>2
<1>15. Accounted'
  BY <1>1, <1>2, <1>7, <1>9, <1>11, <1>13, <1>14, TopStepAccounts
<1> QED BY <1>1, <1>2, <1>9, <1>12, <1>14, <1>15, TopIsSet

(* Symlinks, devices, hardlinks and references: no content of their own.    *)
LEMMA EntryAccounts ==
  ASSUME IInv, Accounted, Check, NEW n \in Names, NEW full,
         Extends(ArchiveWriter, full), Steady(archive, full.out),
         OneNameMore(archive, full.out),
         EntryAdded(n, full), UNCHANGED <<payload, file, phase, result>>,
         promised' = promised \/ Split
  PROVE  /\ Accounted' /\ OneNameMore(archive, archive')
         /\ Depth' = Depth /\ ~file'.open
<1> DEFINE item == [hash   |-> HashOf[n],
                    offset |-> Top.write_position,
                    size   |-> full.position - Top.write_position]
           t == Listing(At(Top, full.position), item)
<1>1. /\ state # <<>> /\ ~file.open /\ Top.encode_error = "none"
  BY CheckIsClean
<1>2. archive' = full.out /\ SetTop(t)
  BY DEF EntryAdded
<1>3. /\ DirOK(Top) /\ Top \in EncoderStates /\ Top.write_position \in Nat
      /\ full.position \in Nat /\ Top.write_position <= full.position
      /\ HashOf[n] \in Nat
  BY <1>1, TopOK, NamesAssumption
     DEF DirOK, Extends, IsWriter, ArchiveWriter
<1>4. item \in GoodbyeItem /\ item.offset <= full.position
  BY <1>3 DEF GoodbyeItem
<1>5. /\ DirOK(At(Top, full.position))
      /\ At(Top, full.position).write_position = full.position
      /\ At(Top, full.position).encode_error = "none"
  BY <1>1, <1>3, AtOK, ErrorFields
<1> HIDE DEF item
<1>6. t \in EncoderStates /\ t.encode_error = Top.encode_error
  BY <1>1, <1>4, <1>5, ListingOK, ErrorFields DEF DirOK
<1> HIDE DEF t
<1>7. Steady(archive, archive') /\ Steady(payload, payload')
  BY <1>2, SteadyRefl DEF IInv, TypeOK
<1>8. OneNameMore(archive, archive') /\ IsFiniteSet(NamesIn(archive'))
  BY <1>2, FiniteNames
<1>9. Accounted'
  BY <1>1, <1>2, <1>6, <1>7, <1>8, SteadyTopAccounts
<1> QED BY <1>1, <1>2, <1>6, <1>8, <1>9, TopIsSet

(* A call that fails is a fault.                                            *)
LEMMA FaultsStay ==
  ASSUME faults' = {}
  PROVE  \A kind : ~Fail(kind)
  BY DEF Fail

LEMMA AddFileEntryAccounts ==
  ASSUME IInv, Accounted, faults' = {}, NEW n \in Names, NEW full,
         Extends(ArchiveWriter, full), Steady(archive, full.out),
         OneNameMore(archive, full.out), AddFileEntry(n, full),
         promised' = promised
  PROVE  /\ Accounted' /\ OneNameMore(archive, archive')
         /\ Depth' = Depth /\ ~file'.open
<1>1. /\ Check /\ EntryAdded(n, full)
      /\ UNCHANGED <<payload, file, phase, result>>
  BY FaultsStay DEF AddFileEntry, CallFails
<1> QED BY <1>1, EntryAccounts

LEMMA AddEntryAccounts ==
  ASSUME IInv, Accounted, faults' = {}, NEW n \in Names, NEW meta \in Metas,
         \/ \E len \in TargetLens : AddSymlink(n, meta, len)
         \/ AddDevice(n, meta)
         \/ AddFifo(n, meta)
         \/ AddSocket(n, meta)
  PROVE  /\ Accounted' /\ OneNameMore(archive, archive')
         /\ Depth' = Depth /\ ~file'.open
<1> DEFINE start == StartFile(n, meta)
<1>1. state # <<>> /\ promised' = promised
  BY DEF AddSymlink, AddDevice, AddFifo, AddSocket, AddFileEntry, Check, Usable
<1>2. /\ Extends(ArchiveWriter, start) /\ IsWriter(start)
      /\ IsWriter(ArchiveWriter)
      /\ Steady(archive, start.out) /\ OneNameMore(archive, start.out)
  BY <1>1, StartFileOK, StartFileSteady, TopOK DEF Extends
<1>3. ASSUME NEW item, ItemOK(item),
             item.htype \notin {"DATA", "PAYLOAD", "FILENAME"}
      PROVE  /\ Extends(ArchiveWriter, SeqWrite(start, item))
             /\ Steady(archive, SeqWrite(start, item).out)
             /\ OneNameMore(archive, SeqWrite(start, item).out)
  <2> HIDE DEF start
  <2>1. Extends(ArchiveWriter, SeqWrite(start, item))
    BY <1>2, <1>3, SeqWriteExtends, ExtendsTransitive
  <2>2. SeqWrite(start, item).out = Append1(start.out, item)
    BY WriterOut
  <2>3. /\ Steady(archive, Append1(start.out, item))
        /\ NamesIn(Append1(start.out, item)) = NamesIn(start.out)
    BY <1>2, <1>3, OtherSteady
  <2> QED BY <1>2, <2>1, <2>2, <2>3 DEF OneNameMore
<1>4. ASSUME NEW len \in TargetLens, AddSymlink(n, meta, len)
      PROVE  /\ Accounted' /\ OneNameMore(archive, archive')
             /\ Depth' = Depth /\ ~file'.open
  <2>1. ItemOK(Symlink(len)) /\ Symlink(len).htype = "SYMLINK"
    BY EncoderAssumption, SizedItemsOK DEF Symlink
  <2> QED BY <1>1, <1>3, <1>4, <2>1, AddFileEntryAccounts DEF AddSymlink
<1>5. ItemOK(Device) /\ Device.htype = "DEVICE"
  BY FixedItemsOK DEF Device
<1>6. CASE AddDevice(n, meta)
  BY <1>1, <1>3, <1>5, <1>6, AddFileEntryAccounts DEF AddDevice
<1>7. CASE AddFifo(n, meta)
  BY <1>1, <1>2, <1>7, AddFileEntryAccounts DEF AddFifo
<1>8. CASE AddSocket(n, meta)
  BY <1>1, <1>2, <1>8, AddFileEntryAccounts DEF AddSocket
<1> QED BY <1>4, <1>6, <1>7, <1>8

LEMMA AddHardlinkAccounts ==
  ASSUME IInv, Accounted, faults' = {}, NEW n \in Names,
         NEW len \in TargetLens, NEW target, AddHardlink(n, len, target)
  PROVE  /\ Accounted' /\ OneNameMore(archive, archive')
         /\ Depth' = Depth /\ ~file'.open
<1> DEFINE named == SeqWrite(ArchiveWriter, Filename(n))
           link == Hardlink(Top.write_position - target, target, len)
           full == SeqWrite(named, link)
<1>1. /\ state # <<>> /\ promised' = promised /\ AddFileEntry(n, full)
  BY DEF AddHardlink, Usable
<1>2. /\ IsWriter(ArchiveWriter) /\ ItemOK(Filename(n))
      /\ ItemOK(link) /\ link.htype = "HARDLINK" /\ Stream(archive)
  BY <1>1, TopOK, FilenameOK, EncoderAssumption, SizedItemsOK
     DEF Hardlink, IInv, TypeOK
<1>3. Extends(ArchiveWriter, named) /\ IsWriter(named)
  BY <1>2, SeqWriteExtends DEF Extends
<1>4. /\ named.out = Append1(archive, Filename(n))
      /\ full.out = Append1(named.out, link)
  BY WriterOut DEF ArchiveWriter
<1> HIDE DEF link
<1>5. Extends(ArchiveWriter, full)
  <2> HIDE DEF named
  <2> QED BY <1>2, <1>3, SeqWriteExtends, ExtendsTransitive
<1> HIDE DEF named, full
<1>6. Steady(archive, named.out) /\ OneNameMore(archive, named.out)
  BY <1>2, <1>4, NamedSteady
<1>7. Steady(archive, full.out) /\ NamesIn(full.out) = NamesIn(named.out)
  BY <1>2, <1>4, <1>6, OtherSteady
<1>8. OneNameMore(archive, full.out)
  BY <1>6, <1>7 DEF OneNameMore
<1> QED BY <1>1, <1>5, <1>7, <1>8, AddFileEntryAccounts

(* A payload known already begins before the end of the stream, so that a    *)
(* reference that is accepted is to what the stream continues with.         *)
LEMMA RefIsNext ==
  ASSUME OInv, "finish" \notin faults, NEW n, NEW meta,
         NEW ref \in KnownPayloads \cup NextPayloads,
         AddPayloadRef(n, meta, ref)
  PROVE  /\ ref.offset = payload.len
         /\ ref.content \in FileSizes /\ ref.content \in Nat
         /\ ItemOK(PayloadRef(ref.offset, ref.content))
         /\ Top.payload_write_position = payload.len
<1>1. state # <<>> /\ ref.offset >= Top.payload_write_position
  BY DEF AddPayloadRef, Check, Usable
<1>2. /\ Top.payload_write_position = payload.len /\ payload.len \in Nat
      /\ Stream(payload)
  BY <1>1, TopLeads DEF OInv, IInv, TypeOK
<1>3. ref.offset = payload.len /\ ref.content \in FileSizes
  <2>1. CASE ref \in KnownPayloads
    <3>1. PICK c \in payload.cells :
            /\ c.item.htype = "PAYLOAD"
            /\ ref = [offset |-> c.at, content |-> c.item.content]
      BY <2>1 DEF KnownPayloads, CellsOf
    <3>2. /\ c.at \in Nat /\ c.item.size \in Nat
          /\ c.item.size >= HeaderSize
          /\ c.at + c.item.size <= payload.len
      BY <1>2, <3>1 DEF Stream, ItemOK
    <3> QED BY <1>1, <1>2, <3>1, <3>2 DEF HeaderSize
  <2>2. CASE ref \in NextPayloads
    BY <1>2, <2>2 DEF NextPayloads
  <2> QED BY <2>1, <2>2
<1>4. ref.content \in Nat
  BY <1>3, EncoderAssumption
<1> QED BY <1>2, <1>3, <1>4, SizedItemsOK

LEMMA AddPayloadRefAccounts ==
  ASSUME OInv, Accounted, faults' = {}, "finish" \notin faults,
         NEW n \in Names, NEW meta \in Metas,
         NEW ref \in KnownPayloads \cup NextPayloads,
         AddPayloadRef(n, meta, ref)
  PROVE  /\ Accounted' /\ OneNameMore(archive, archive')
         /\ Depth' = Depth /\ ~file'.open
<1> DEFINE start == StartFile(n, meta)
           item == PayloadRef(ref.offset, ref.content)
           full == SeqWrite(start, item)
<1>1. /\ IInv /\ state # <<>> /\ Check /\ Split
      /\ EntryAdded(n, full)
      /\ UNCHANGED <<payload, file, phase, result>>
  BY FaultsStay DEF OInv, AddPayloadRef, Check, Usable, CallFails
<1>2. ItemOK(item) /\ item.htype = "PAYLOAD_REF"
  BY RefIsNext DEF PayloadRef
<1>3. /\ Extends(ArchiveWriter, start) /\ IsWriter(start)
      /\ IsWriter(ArchiveWriter)
      /\ Steady(archive, start.out) /\ OneNameMore(archive, start.out)
  BY <1>1, StartFileOK, StartFileSteady, TopOK DEF Extends
<1> HIDE DEF start, item
<1>4. Extends(ArchiveWriter, full)
  BY <1>2, <1>3, SeqWriteExtends, ExtendsTransitive
<1>5. full.out = Append1(start.out, item)
  BY WriterOut
<1> HIDE DEF full
<1>6. Steady(archive, full.out) /\ NamesIn(full.out) = NamesIn(start.out)
  BY <1>2, <1>3, <1>5, OtherSteady
<1>7. OneNameMore(archive, full.out)
  BY <1>3, <1>6 DEF OneNameMore
<1> QED BY <1>1, <1>4, <1>6, <1>7, EntryAccounts

(* The payload that was promised comes with all of its content.             *)
LEMMA AdvanceAccounts ==
  ASSUME IInv, Accounted, Advance
  PROVE  /\ Accounted' /\ archive' = archive /\ Depth' = Depth
         /\ ~file'.open /\ Clean /\ Clean'
<1> DEFINE k == promised[1].content
           h == SeqWrite(PayloadWriter, Payload(k))
           p == SeqWriteData(h, k)
           t == PayloadAt(Top, p.position)
<1>1. /\ state # <<>> /\ ~file.open /\ promised # <<>>
      /\ FlagsTell /\ ContentsAccounted
  BY DEF Advance, Usable, Accounted
<1>2. /\ Clean /\ Split /\ Top.encode_error = "none"
      /\ FileStream = payload /\ ContentsComplete(payload)
  BY <1>1 DEF FlagsTell, Clean, FileStream, ContentsAccounted
<1>3. k \in FileSizes /\ k \in Nat
  <2>1. promised \in Seq(PayloadRefs)
    BY DEF IInv, TypeOK
  <2>2. promised[1] \in PayloadRefs
    BY <1>1, <2>1
  <2> QED BY <2>2, EncoderAssumption DEF PayloadRefs
<1>4. /\ SetTop(t) /\ payload' = p.out /\ archive' = archive
      /\ promised' = <<>>
      /\ UNCHANGED <<file, phase, result, links, faults>>
  BY DEF Advance
<1> HIDE DEF k
<1>5. /\ IsWriter(PayloadWriter) /\ DirOK(Top) /\ Top \in EncoderStates
      /\ ItemOK(Payload(k)) /\ Stream(payload)
  BY <1>1, <1>3, TopOK, SizedItemsOK DEF DirOK, IInv, TypeOK
<1>6. Extends(PayloadWriter, h) /\ IsWriter(h)
  BY <1>5, SeqWriteExtends DEF Extends
<1>7. h.out = Append1(payload, Payload(k))
  BY WriterOut DEF PayloadWriter
<1> HIDE DEF h
<1>8. Stream(h.out) /\ Filling(h.out, k)
  BY <1>2, <1>3, <1>5, <1>7, PayloadFills
<1>9. Stream(p.out) /\ Filling(p.out, 0)
  <2>1. CASE k = 0
    BY <1>8, <2>1 DEF SeqWriteData
  <2>2. CASE k # 0
    <3>1. p.out = Append1(h.out, Data(k))
      BY <2>2, WriterOut DEF SeqWriteData
    <3>2. k <= k /\ k - k = 0
      BY <1>3
    <3> HIDE DEF p
    <3>3. /\ Stream(Append1(h.out, Data(k)))
          /\ Filling(Append1(h.out, Data(k)), k - k)
      BY <1>3, <1>8, <2>2, <3>2, DataFills
    <3> QED BY <3>1, <3>2, <3>3
  <2> QED BY <2>1, <2>2
<1>10. ContentsComplete(p.out)
  <2> HIDE DEF p
  <2> QED BY <1>9, FillingEnds
<1>11. p.position \in Nat
  BY <1>3, <1>6, SeqWriteDataExtends DEF Extends, IsWriter
<1> HIDE DEF p
<1>12. t \in EncoderStates /\ t.encode_error = "none"
  BY <1>2, <1>5, <1>11, PayloadAtOK, ErrorFields DEF DirOK
<1> HIDE DEF t
<1>13. FileStream' = p.out /\ ~file'.open
  BY <1>1, <1>2, <1>4 DEF FileStream
<1>14. Payloads(archive') = {} /\ IsFiniteSet(NamesIn(archive'))
  BY <1>1, <1>2, <1>4 DEF ContentsAccounted, Accounted, NamesIn
<1>15. Accounted'
  BY <1>1, <1>2, <1>4, <1>10, <1>12, <1>13, <1>14, TopStepAccounts
<1> QED BY <1>1, <1>2, <1>4, <1>12, <1>13, <1>15, TopIsSet DEF Clean

-----------------------------------------------------------------------------
(***************************************************************************)
(* Entering a directory and leaving it.                                    *)
(***************************************************************************)
LEMMA DirectoryOpens ==
  ASSUME IInv, NEW n \in Names, NEW meta \in Metas,
         CreateDirectory(n, meta), ~CallFails(StartFile(n, meta))
  PROVE  LET named == SeqWrite(ArchiveWriter, Filename(n))
             full == SeqWrite(named, Entry(meta))
             inner == Subdirectory(n, named, full)
         IN /\ Depth \in Nat \ {0} /\ Depth' = Depth + 1
            /\ archive' = full.out /\ full = StartFile(n, meta)
            /\ Top' = inner
            /\ inner.items = <<>> /\ inner.encode_error = "none"
            /\ inner.entry_offset = named.position
            /\ inner.files_offset = full.position
            /\ inner.file_offset = Top.write_position
            /\ \A d \in 1..Depth - 1 : state'[d] = state[d]
            /\ state'[Depth].items = Top.items
            /\ state'[Depth].entry_offset = Top.entry_offset
            /\ state'[Depth].files_offset = Top.files_offset
            /\ state'[Depth].file_offset = Top.file_offset
            /\ state'[Depth].encode_error = Top.encode_error
            /\ state'[Depth + 1] = inner
            /\ state' # <<>>
<1> DEFINE named == SeqWrite(ArchiveWriter, Filename(n))
           full == SeqWrite(named, Entry(meta))
           outer == At(Top, full.position)
           moved == [state EXCEPT ![Depth] = outer]
           inner == Subdirectory(n, named, full)
<1>1. /\ state # <<>> /\ archive' = full.out
      /\ state' = Append(moved, inner)
  BY DEF CreateDirectory, Check, Usable, StartFile
<1>2. full = StartFile(n, meta)
  BY DEF StartFile
<1>3. Extends(ArchiveWriter, full)
  BY <1>1, <1>2, StartFileOK
<1>4. /\ Depth \in Nat \ {0} /\ Depth = Len(state)
      /\ Top \in EncoderStates /\ state \in Seq(EncoderStates)
      /\ full.position \in Nat
  BY <1>1, <1>3, TopOK DEF DirOK, IInv, TypeOK, Extends, IsWriter
<1>5. /\ inner.items = <<>> /\ inner.encode_error = "none"
      /\ inner.entry_offset = named.position
      /\ inner.files_offset = full.position
      /\ inner.file_offset = Top.write_position
  BY DEF Subdirectory, EncoderState
<1> HIDE DEF named, full, inner
<1>6. /\ outer \in EncoderStates
      /\ outer.items = Top.items /\ outer.entry_offset = Top.entry_offset
      /\ outer.files_offset = Top.files_offset
      /\ outer.file_offset = Top.file_offset
      /\ outer.encode_error = Top.encode_error
  BY <1>4 DEF At, EncoderStates
<1> HIDE DEF outer
<1>7. /\ moved \in Seq(EncoderStates) /\ Len(moved) = Depth
      /\ moved[Depth] = outer
      /\ \A d \in 1..Depth - 1 : moved[d] = state[d]
  BY <1>4, <1>6
<1> HIDE DEF moved
<1>8. /\ Len(state') = Depth + 1
      /\ state'[Depth + 1] = inner /\ state'[Depth] = outer
      /\ \A d \in 1..Depth - 1 : state'[d] = moved[d]
  BY <1>1, <1>4, <1>7
<1>9. Depth' = Depth + 1 /\ Top' = inner /\ state' # <<>>
  BY <1>4, <1>8 DEF Depth, Top
<1> QED BY <1>1, <1>2, <1>4, <1>5, <1>6, <1>7, <1>8, <1>9
        DEF named, full, inner

LEMMA CreateDirectoryAccounts ==
  ASSUME IInv, Accounted, faults' = {}, NEW n \in Names, NEW meta \in Metas,
         CreateDirectory(n, meta)
  PROVE  /\ Accounted' /\ OneNameMore(archive, archive')
         /\ Depth' = Depth + 1 /\ Depth > 0 /\ ~file'.open /\ Clean'
<1>1. /\ state # <<>> /\ ~file.open /\ Top.encode_error = "none" /\ Clean
      /\ ContentsComplete(FileStream) /\ phase = "open"
      /\ UNCHANGED <<payload, file, phase, result, promised>>
  BY CheckIsClean DEF CreateDirectory
<1>2. /\ Depth \in Nat \ {0} /\ Depth' = Depth + 1 /\ state' # <<>>
      /\ archive' = StartFile(n, meta).out
      /\ Top'.encode_error = "none"
      /\ \A d \in 1..Depth - 1 : state'[d] = state[d]
      /\ state'[Depth].encode_error = "none"
  BY <1>1, DirectoryOpens, FaultsStay DEF CallFails
<1>3. Steady(archive, archive') /\ OneNameMore(archive, archive')
  BY <1>1, <1>2, StartFileSteady
<1>4. FlagsTell /\ ContentsAccounted
  BY DEF Accounted
<1>5. Clean'
  BY <1>2 DEF Clean
<1>6. FlagsTell'
  <2>1. \A d \in 1..Depth' - 1 : state'[d].encode_error = "none"
    BY <1>2, <1>4 DEF FlagsTell
  <2> QED BY <1>1, <1>2, <1>4, <1>5, <2>1 DEF FlagsTell
<1>7. ContentsAccounted'
  <2>1. /\ FileStream' = IF Split THEN payload ELSE archive'
        /\ ContentsComplete(FileStream')
    BY <1>1, <1>3 DEF FileStream, Steady
  <2> QED BY <1>1, <1>3, <1>4, <1>5, <2>1 DEF ContentsAccounted, Steady
<1>8. IsFiniteSet(NamesIn(archive'))
  BY <1>3, FiniteNames
<1> QED BY <1>1, <1>2, <1>3, <1>5, <1>6, <1>7, <1>8 DEF Accounted, NamesIn

(* The directory that finish() leaves is listed by the one around it.       *)
LEMMA DirectoryCloses ==
  ASSUME IInv, Finish
  PROVE  \E p \in SortedOrders(Top.items) :
           LET w == SeqWrite(ArchiveWriter, GoodbyeTable(Top, p)) IN
           /\ archive' = w.out /\ w.position \in Nat
           /\ ItemOK(GoodbyeTable(Top, p))
           /\ Depth = 1 => state' = <<>>
           /\ Depth # 1 =>
                /\ Depth - 1 \in Nat \ {0}
                /\ Depth' = Depth - 1 /\ state' # <<>>
                /\ \A d \in 1..Depth - 2 : state'[d] = state[d]
                /\ state[Depth - 1] \in EncoderStates
                /\ DirectoryItem(Top, w.position) \in GoodbyeItem
                /\ state'[Depth - 1] = Top'
                /\ Top'.items = Append(state[Depth - 1].items,
                                       DirectoryItem(Top, w.position))
                /\ Top'.entry_offset = state[Depth - 1].entry_offset
                /\ Top'.files_offset = state[Depth - 1].files_offset
                /\ Top'.file_offset = state[Depth - 1].file_offset
                /\ Top'.encode_error =
                     IF state[Depth - 1].encode_error = "none"
                       THEN Top.encode_error
                       ELSE state[Depth - 1].encode_error
<1>1. state # <<>>
  BY DEF Finish, Usable
<1>2. PICK p \in SortedOrders(Top.items) :
        LET w == SeqWrite(ArchiveWriter, GoodbyeTable(Top, p)) IN
        /\ archive' = w.out
        /\ state' = IF Depth = 1
                      THEN <<>>
                      ELSE [Parents EXCEPT
                              ![Depth - 1] = PopInto(state[Depth - 1], Top,
                                                     w.position)]
  BY DEF Finish
<1> DEFINE w == SeqWrite(ArchiveWriter, GoodbyeTable(Top, p))
           parent == state[Depth - 1]
           t == PopInto(parent, Top, w.position)
           item == DirectoryItem(Top, w.position)
<1>3. /\ Depth \in Nat \ {0} /\ Depth = Len(state)
      /\ DirOK(Top) /\ Top \in EncoderStates
      /\ state \in Seq(EncoderStates) /\ IsWriter(ArchiveWriter)
  BY <1>1, TopOK DEF DirOK, IInv, TypeOK
<1>4. ItemOK(GoodbyeTable(Top, p))
  BY <1>3, GoodbyeTableOK
<1>5. w.position \in Nat /\ Top.write_position <= w.position
  BY <1>3, <1>4, SeqWriteExtends DEF Extends, IsWriter, ArchiveWriter
<1>6. /\ archive' = w.out
      /\ Depth = 1 => state' = <<>>
      /\ Depth # 1 => state' = [Parents EXCEPT ![Depth - 1] = t]
  BY <1>2
<1> HIDE DEF w
<1>7. ASSUME Depth # 1
      PROVE  /\ Depth - 1 \in Nat \ {0}
             /\ Depth' = Depth - 1 /\ state' # <<>>
             /\ \A d \in 1..Depth - 2 : state'[d] = state[d]
             /\ parent \in EncoderStates /\ item \in GoodbyeItem
             /\ state'[Depth - 1] = Top'
             /\ Top'.items = Append(parent.items, item)
             /\ Top'.entry_offset = parent.entry_offset
             /\ Top'.files_offset = parent.files_offset
             /\ Top'.file_offset = parent.file_offset
             /\ Top'.encode_error = IF parent.encode_error = "none"
                                      THEN Top.encode_error
                                      ELSE parent.encode_error
  <2>1. /\ Depth - 1 \in Nat \ {0} /\ Depth - 1 <= Len(state)
        /\ Depth - 1 \in 1..Len(state) /\ Depth - 1 \in Nat
    BY <1>3, <1>7
  <2>2. parent \in EncoderStates
    BY <1>3, <2>1
  <2>3. item \in GoodbyeItem
    <3>1. /\ Top.file_offset \in Nat /\ Top.file_hash \in Nat
          /\ Top.write_position \in Nat
          /\ Top.file_offset <= Top.write_position
      BY <1>3 DEF DirOK, EncoderStates, BehindPosition
    <3> QED BY <1>5, <3>1 DEF DirectoryItem, GoodbyeItem
  <2> DEFINE moved == PayloadAt(At(parent, w.position),
                                Top.payload_write_position)
             listed == Listing(moved, item)
  <2>4. Top.payload_write_position \in Nat /\ Top.encode_error \in EncodeErrors
    BY <1>3 DEF EncoderStates
  <2>5. /\ moved \in EncoderStates /\ moved.items = parent.items
        /\ moved.entry_offset = parent.entry_offset
        /\ moved.files_offset = parent.files_offset
        /\ moved.file_offset = parent.file_offset
        /\ moved.encode_error = parent.encode_error
    <3> DEFINE u == At(parent, w.position)
    <3>1. /\ u \in EncoderStates /\ u.items = parent.items
          /\ u.entry_offset = parent.entry_offset
          /\ u.files_offset = parent.files_offset
          /\ u.file_offset = parent.file_offset
          /\ u.encode_error = parent.encode_error
      BY <1>5, <2>2 DEF At, EncoderStates
    <3>2. moved = PayloadAt(u, Top.payload_write_position)
      OBVIOUS
    <3> HIDE DEF u, moved
    <3> QED BY <2>4, <3>1, <3>2 DEF PayloadAt, EncoderStates
  <2>6. t = MergeError(listed, Top.encode_error)
    BY DEF PopInto
  <2> HIDE DEF moved, item, t
  <2>7. /\ listed \in EncoderStates
        /\ listed.items = Append(parent.items, item)
        /\ listed.entry_offset = parent.entry_offset
        /\ listed.files_offset = parent.files_offset
        /\ listed.file_offset = parent.file_offset
        /\ listed.encode_error = parent.encode_error
    <3>1. Append(parent.items, item) \in Seq(GoodbyeItem)
      BY <2>2, <2>3 DEF EncoderStates
    <3> QED BY <2>5, <3>1 DEF Listing, EncoderStates
  <2> HIDE DEF listed
  <2>8. /\ t \in EncoderStates
        /\ t.items = Append(parent.items, item)
        /\ t.entry_offset = parent.entry_offset
        /\ t.files_offset = parent.files_offset
        /\ t.file_offset = parent.file_offset
        /\ t.encode_error = IF parent.encode_error = "none"
                              THEN Top.encode_error
                              ELSE parent.encode_error
    BY <2>4, <2>6, <2>7 DEF MergeError, EncoderStates
  <2>9. /\ Parents \in Seq(EncoderStates)
        /\ Len(Parents) = Depth - 1
        /\ \A d \in 1..Depth - 1 : Parents[d] = state[d]
    BY <1>3, <2>1, FrontOfSeq DEF Parents
  <2>10. /\ Len(state') = Depth - 1
         /\ state'[Depth - 1] = t
         /\ \A d \in 1..Depth - 2 : state'[d] = state[d]
    <3> DEFINE k == Depth - 1
    <3>1. /\ k \in Nat \ {0} /\ Parents \in Seq(EncoderStates)
          /\ Len(Parents) = k /\ t \in EncoderStates
          /\ \A d \in 1..k - 1 : Parents[d] = state[d]
      BY <1>3, <2>1, <2>8, <2>9
    <3>2. state' = [Parents EXCEPT ![k] = t] /\ Depth - 2 = k - 1
      BY <1>3, <1>6, <1>7
    <3> HIDE DEF k
    <3>3. /\ Len(state') = k
          /\ state'[k] = t
          /\ \A d \in 1..k - 1 : state'[d] = state[d]
      BY <3>1, <3>2
    <3> QED BY <3>2, <3>3 DEF k
  <2>11. Depth' = Depth - 1 /\ Top' = t /\ state' # <<>>
    BY <2>1, <2>10 DEF Depth, Top
  <2> QED BY <2>1, <2>2, <2>3, <2>8, <2>10, <2>11 DEF item
<1> QED BY <1>4, <1>5, <1>6, <1>7 DEF w

LEMMA FinishAccounts ==
  ASSUME IInv, Accounted, Finish
  PROVE  /\ Accounted' /\ NamesIn(archive') = NamesIn(archive)
         /\ ~file.open /\ ~file'.open /\ Depth \in Nat
         /\ Depth = 1 => /\ state' = <<>>
                         /\ result' = IF Clean THEN "ok" ELSE "incomplete"
                         /\ Clean' <=> Clean
         /\ Depth # 1 => /\ Depth > 1 /\ Depth' = Depth - 1
                         /\ result' = result
                         /\ Clean' <=> Clean
<1>1. /\ state # <<>> /\ ~file.open /\ ~file'.open /\ phase = "open"
      /\ UNCHANGED <<payload, file, phase, links, promised, faults>>
      /\ FlagsTell /\ ContentsAccounted
  BY DEF Finish, Usable, Accounted
<1>2. /\ Depth \in Nat \ {0} /\ Depth = Len(state)
      /\ Clean <=> Top.encode_error = "none"
  BY <1>1, TopOK DEF Clean
<1>3. PICK p \in SortedOrders(Top.items) :
        LET w == SeqWrite(ArchiveWriter, GoodbyeTable(Top, p)) IN
        /\ archive' = w.out /\ ItemOK(GoodbyeTable(Top, p))
        /\ Depth = 1 => state' = <<>>
        /\ Depth # 1 =>
             /\ Depth - 1 \in Nat \ {0}
             /\ Depth' = Depth - 1 /\ state' # <<>>
             /\ \A d \in 1..Depth - 2 : state'[d] = state[d]
             /\ Top'.encode_error =
                  IF state[Depth - 1].encode_error = "none"
                    THEN Top.encode_error
                    ELSE state[Depth - 1].encode_error
  BY DirectoryCloses
<1> DEFINE table == GoodbyeTable(Top, p)
<1>4. archive' = Append1(archive, table) /\ ItemOK(table)
  BY <1>3, WriterOut DEF ArchiveWriter
<1>5. table.htype = "GOODBYE"
  BY DEF GoodbyeTable, Goodbye
<1> HIDE DEF table
<1>6. Steady(archive, archive') /\ NamesIn(archive') = NamesIn(archive)
  <2>1. Steady(archive, archive)
    BY SteadyRefl DEF IInv, TypeOK
  <2> QED BY <1>4, <1>5, <2>1, OtherSteady
<1>7. Depth = 1 =>
        /\ state' = <<>>
        /\ result' = IF Clean THEN "ok" ELSE "incomplete"
        /\ Clean' <=> Clean
        /\ result' # "none"
  BY <1>2, <1>3 DEF Finish, Clean
<1>8. Depth # 1 =>
        /\ Depth > 1 /\ Depth' = Depth - 1 /\ state' # <<>>
        /\ result' = result /\ result = "none"
        /\ Clean' <=> Clean
        /\ \A d \in 1..Depth - 2 : state'[d] = state[d]
  <2> SUFFICES ASSUME Depth # 1
               PROVE  /\ Depth > 1 /\ Depth' = Depth - 1 /\ state' # <<>>
                      /\ result' = result /\ result = "none"
                      /\ Clean' <=> Clean
                      /\ \A d \in 1..Depth - 2 : state'[d] = state[d]
    OBVIOUS
  <2>1. Depth > 1 /\ Depth - 1 \in 1..Depth - 1
    BY <1>2
  <2>2. state[Depth - 1].encode_error = "none" /\ result = "none"
    BY <1>1, <2>1 DEF FlagsTell
  <2>3. result' = result
    BY <2>1 DEF Finish
  <2>4. Top'.encode_error = Top.encode_error /\ state' # <<>>
    BY <1>3, <2>2
  <2> QED BY <1>2, <1>3, <2>1, <2>2, <2>3, <2>4 DEF Clean
<1>9. FlagsTell'
  <2>1. CASE Depth = 1
    <3>1. Depth' = 0
      BY <1>7, <2>1 DEF Depth
    <3>2. promised # <<>> => Clean
      BY <1>1 DEF FlagsTell
    <3> QED BY <1>1, <1>7, <2>1, <3>1, <3>2 DEF FlagsTell
  <2>2. CASE Depth # 1
    <3>1. \A d \in 1..Depth' - 1 : state'[d].encode_error = "none"
      BY <1>1, <1>2, <1>8, <2>2 DEF FlagsTell
    <3> QED BY <1>1, <1>8, <2>2, <3>1 DEF FlagsTell
  <2> QED BY <2>1, <2>2
<1>10. ContentsAccounted'
  <2>1. Clean' <=> Clean
    BY <1>7, <1>8
  <2>2. FileStream' = IF Split THEN payload ELSE archive'
    BY <1>1 DEF FileStream
  <2>3. /\ ContentsComplete(FileStream) => ContentsComplete(FileStream')
        /\ SomeShort(FileStream) => SomeShort(FileStream')
    BY <1>6, <2>2 DEF FileStream, Steady
  <2> QED BY <1>1, <1>6, <2>1, <2>3 DEF ContentsAccounted, Steady
<1>11. IsFiniteSet(NamesIn(archive'))
  BY <1>6, FiniteNames
<1> QED BY <1>1, <1>2, <1>6, <1>7, <1>8, <1>9, <1>10, <1>11
        DEF Accounted, NamesIn

LEMMA CloseAccounts ==
  ASSUME IInv, Accounted, faults' = {}, Close
  PROVE  /\ Accounted' /\ archive' = archive
         /\ ~file.open /\ ~file'.open /\ (Clean' <=> Clean)
         /\ result # "none"
<1>1. /\ state = <<>> /\ state' = <<>> /\ phase = "open" /\ phase' = "closed"
      /\ UNCHANGED <<archive, file, result, links, promised>>
      /\ payload' = IF Split
                      THEN Append1(payload, Marker("PAYLOAD_TAIL_MARKER"))
                      ELSE payload
  BY FaultsStay DEF Close
<1>2. /\ ~file.open /\ ~file'.open /\ Stream(payload)
      /\ FlagsTell /\ ContentsAccounted
  BY <1>1 DEF IInv, TypeOK, Accounted
<1>3. Clean' <=> Clean
  BY <1>1 DEF Clean
<1>4. result # "none"
  BY <1>1, <1>2 DEF FlagsTell
<1>5. Steady(payload, payload')
  <2>1. /\ ItemOK(Marker("PAYLOAD_TAIL_MARKER"))
        /\ Marker("PAYLOAD_TAIL_MARKER").htype = "PAYLOAD_TAIL_MARKER"
    BY FixedItemsOK DEF Marker
  <2> QED BY <1>1, <1>2, <2>1, SteadyAppend, SteadyRefl
<1>6. FlagsTell'
  BY <1>1, <1>2, <1>3, <1>4 DEF FlagsTell, Depth
<1>7. ContentsAccounted'
  <2>1. FileStream' = IF Split THEN payload' ELSE archive
    BY <1>1 DEF FileStream
  <2>2. /\ ContentsComplete(FileStream) => ContentsComplete(FileStream')
        /\ SomeShort(FileStream) => SomeShort(FileStream')
    BY <1>5, <2>1 DEF FileStream, Steady
  <2> QED BY <1>1, <1>2, <1>3, <1>5, <2>2 DEF ContentsAccounted, Steady
<1> QED BY <1>1, <1>2, <1>3, <1>4, <1>6, <1>7 DEF Accounted, NamesIn

(* new() writes nothing of an entry but the root's metadata.                 *)
Bare(s) ==
  \A c \in s.cells :
    c.item.htype \notin {"PAYLOAD", "PAYLOAD_REF", "FILENAME", "GOODBYE"}

LEMMA NewIsBare ==
  ASSUME NEW meta \in Metas, NEW prelude \in Preludes, New(meta, prelude)
  PROVE  /\ Bare(archive') /\ Bare(payload')
         /\ Depth' = 1 /\ state' # <<>>
         /\ Top'.encode_error = "none" /\ Top'.items = <<>>
<1> DEFINE start == [out |-> EmptyStream, position |-> 0]
           p  == IF Split
                   THEN SeqWrite(start, Marker("PAYLOAD_START_MARKER"))
                   ELSE start
           w1 == IF Split THEN SeqWrite(start, Version) ELSE start
           w2 == IF prelude = <<>>
                   THEN w1
                   ELSE SeqWrite(w1, PreludeItem(prelude[1]))
           w3 == SeqWrite(w2, Entry(meta))
           root == EncoderState(0, w3.position, 0, 0, w3.position, p.position)
<1>1. archive' = w3.out /\ payload' = p.out /\ state' = <<root>>
  BY DEF New
<1>2. Bare(w3.out) /\ Bare(p.out)
  <2>1. ASSUME NEW w, Bare(w.out), NEW item,
               item.htype \notin
                 {"PAYLOAD", "PAYLOAD_REF", "FILENAME", "GOODBYE"}
        PROVE  Bare(SeqWrite(w, item).out)
    BY <2>1, SeqWriteCells DEF Bare
  <2>2. Bare(start.out)
    BY DEF EmptyStream, Bare
  <2>3. /\ Version.htype = "FORMAT_VERSION" /\ Entry(meta).htype = "ENTRY"
        /\ PreludeItem(prelude[1]).htype = "PRELUDE"
        /\ Marker("PAYLOAD_START_MARKER").htype = "PAYLOAD_START_MARKER"
    BY DEF Version, Entry, PreludeItem, Marker
  <2> HIDE DEF start
  <2>4. Bare(p.out) /\ Bare(w1.out)
    BY <2>1, <2>2, <2>3
  <2> HIDE DEF w1
  <2>5. Bare(w2.out)
    BY <2>1, <2>3, <2>4
  <2> HIDE DEF w2
  <2>6. Bare(w3.out)
    BY <2>1, <2>3, <2>5
  <2> QED BY <2>4, <2>6
<1> HIDE DEF start, p, w1, w2, w3
<1>3. root.encode_error = "none" /\ root.items = <<>>
  BY DEF EncoderState
<1> HIDE DEF root
<1>4. Depth' = 1 /\ Top' = root /\ state' # <<>>
  BY <1>1 DEF Depth, Top
<1> QED BY <1>1, <1>2, <1>3, <1>4

(* Before the first entry there is neither a name nor content.              *)
LEMMA NewAccounts ==
  ASSUME IInv, Accounted, NEW meta \in Metas, NEW prelude \in Preludes,
         New(meta, prelude)
  PROVE  /\ Accounted' /\ NamesIn(archive') = NamesIn(archive)
         /\ ~file.open /\ ~file'.open /\ Clean /\ Clean'
         /\ state = <<>> /\ Depth' = 1 /\ result = "none"
<1>1. /\ phase = "new" /\ phase' = "open"
      /\ UNCHANGED <<file, result, links, promised, faults>>
  BY DEF New
<1>2. /\ FlagsTell /\ ContentsAccounted /\ state = <<>> /\ result = "none"
      /\ ~file.open /\ archive = EmptyStream
  BY <1>1 DEF Accounted, FlagsTell, ContentsAccounted, IInv, TypeOK
<1>3. /\ Bare(archive') /\ Bare(payload') /\ Bare(EmptyStream)
      /\ Depth' = 1 /\ state' # <<>> /\ Top'.encode_error = "none"
  BY NewIsBare DEF Bare, EmptyStream
<1>4. ASSUME NEW s, Bare(s)
      PROVE  Payloads(s) = {} /\ NamesIn(s) = {}
  BY <1>4 DEF Payloads, NamesIn, CellsOf, Bare
<1>5. /\ Payloads(archive') = {} /\ Payloads(payload') = {}
      /\ NamesIn(archive') = {} /\ NamesIn(archive) = {}
  BY <1>2, <1>3, <1>4
<1>6. Clean /\ Clean'
  BY <1>2, <1>3 DEF Clean
<1>7. FlagsTell'
  BY <1>1, <1>2, <1>3, <1>6 DEF FlagsTell
<1>8. ContentsComplete(FileStream')
  BY <1>5 DEF FileStream, ContentsComplete, Payloads
<1>9. ContentsAccounted'
  BY <1>1, <1>2, <1>5, <1>6, <1>8 DEF ContentsAccounted
<1>10. IsFiniteSet(NamesIn(archive'))
  BY <1>5, FS_EmptySet
<1> QED BY <1>1, <1>2, <1>3, <1>5, <1>6, <1>7, <1>9, <1>10
        DEF Accounted, NamesIn

-----------------------------------------------------------------------------
(***************************************************************************)
(* Every step.                                                             *)
(***************************************************************************)
LEMMA InitAccounts == Init => Accounted
<1> SUFFICES ASSUME Init PROVE Accounted
  OBVIOUS
<1>1. /\ archive = EmptyStream /\ payload = EmptyStream /\ state = <<>>
      /\ ~file.open /\ phase = "new" /\ result = "none" /\ promised = <<>>
  BY DEF Init, NoFile
<1>2. archive.cells = {} /\ payload.cells = {}
  BY <1>1 DEF EmptyStream
<1>3. /\ Payloads(archive) = {} /\ Payloads(payload) = {}
      /\ NamesIn(archive) = {}
  BY <1>2 DEF Payloads, NamesIn, CellsOf
<1>4. Clean /\ FlagsTell
  BY <1>1 DEF Clean, FlagsTell, Depth
<1>5. ContentsComplete(FileStream)
  BY <1>3 DEF FileStream, ContentsComplete, Payloads
<1> QED BY <1>1, <1>3, <1>4, <1>5, FS_EmptySet
        DEF Accounted, ContentsAccounted, NamesIn

(* Nothing is forgotten of what went wrong.                                 *)
LEMMA FaultsGrow ==
  ASSUME [Next]_vars
  PROVE  faults \subseteq faults'
<1>1. ASSUME NEW n, NEW full, EntryAdded(n, full) \/ CallFails(full)
      PROVE  faults \subseteq faults'
  BY <1>1 DEF EntryAdded, CallFails, Fail
<1>2. CASE \E meta \in Metas, prelude \in Preludes : New(meta, prelude)
  BY <1>2 DEF New
<1>3. CASE FileCalls
  BY <1>3 DEF FileCalls, CreateFile, CreateFileFails, AddFile, Fail
<1>4. CASE WriteCalls
  BY <1>4 DEF WriteCalls, Write, WriteAllFails, PollWrite, DropFile, Fail
<1>5. CASE RefCalls
  BY <1>1, <1>5 DEF RefCalls, Advance, AddPayloadRef
<1>6. CASE EntryCalls
  <2>1. ASSUME NEW n, NEW full, AddFileEntry(n, full)
        PROVE  faults \subseteq faults'
    BY <1>1, <2>1 DEF AddFileEntry
  <2>2. ASSUME NEW n, NEW meta, CreateDirectory(n, meta)
        PROVE  faults \subseteq faults'
    BY <2>2 DEF CreateDirectory, CallFails, Fail
  <2> QED BY <1>6, <2>1, <2>2
          DEF EntryCalls, AddDevice, AddFifo, AddSocket, AddSymlink,
              AddHardlink
<1>7. CASE Finish \/ FinishFails \/ Close
  BY <1>7 DEF Finish, FinishFails, Close, Fail
<1>8. CASE UNCHANGED vars
  BY <1>8 DEF vars
<1> QED BY <1>2, <1>3, <1>4, <1>5, <1>6, <1>7, <1>8 DEF Next, Terminated

(***************************************************************************)
(* What a step is to someone who sees how deep the encoder is, which names   *)
(* were added, whether content is lacking, and the verdict.                *)
(***************************************************************************)
Lacking == ~file.open /\ ~Clean

SameNames == NamesIn(archive') = NamesIn(archive)
SameLack == Lacking' <=> Lacking

OpensFile ==
  /\ Depth = 0 /\ result = "none" /\ Depth' = 1
  /\ SameNames /\ SameLack /\ result' = result
  /\ phase # "closed" /\ phase' # "closed"

Adds ==
  /\ Depth > 0 /\ ~Lacking /\ Depth' = Depth
  /\ OneNameMore(archive, archive')
  /\ UNCHANGED <<phase, result>>

GivesUp ==
  /\ Depth > 0 /\ Lacking' /\ Depth' = Depth
  /\ SameNames /\ UNCHANGED <<phase, result>>

EntersDirectory ==
  /\ Depth > 0 /\ ~Lacking /\ Depth' = Depth + 1
  /\ OneNameMore(archive, archive')
  /\ SameLack /\ UNCHANGED <<phase, result>>

LeavesDirectory ==
  /\ Depth > 1 /\ Depth' = Depth - 1
  /\ SameNames /\ SameLack /\ UNCHANGED <<phase, result>>

FinishesRoot ==
  /\ Depth = 1 /\ Depth' = 0
  /\ result' = IF Lacking THEN "incomplete" ELSE "ok"
  /\ SameNames /\ SameLack /\ UNCHANGED phase

Closes ==
  /\ Depth = 0 /\ Depth' = 0 /\ result # "none"
  /\ phase # "closed" /\ phase' = "closed"
  /\ SameNames /\ SameLack /\ UNCHANGED result

Stutters ==
  /\ Depth' = Depth /\ SameNames /\ SameLack /\ UNCHANGED <<phase, result>>

Builds ==
  \/ OpensFile \/ Adds \/ GivesUp \/ EntersDirectory \/ LeavesDirectory
  \/ FinishesRoot \/ Closes
  \/ Stutters

LEMMA CallsBuild ==
  ASSUME OInv, Accounted, faults' = {}, "finish" \notin faults,
         ~(Split /\ TokioIo),
         FileCalls \/ WriteCalls \/ RefCalls \/ EntryCalls
  PROVE  Accounted' /\ Builds
<1>1. IInv
  BY DEF OInv
<1>2. ASSUME state # <<>>
      PROVE  Depth > 0
  BY <1>1, <1>2, TopOK
<1>3. ASSUME Check, OneNameMore(archive, archive'), Depth' = Depth,
             UNCHANGED <<phase, result>>
      PROVE  Builds
  BY <1>2, <1>3, CheckIsClean DEF Lacking, Adds, Builds
<1>4. CASE FileCalls
  <2>1. PICK n \in Names, meta \in MetasOf("file"), size \in FileSizes :
          \/ CreateFile(n, meta, size)
          \/ CreateFileFails(n, meta, size)
          \/ \E got \in 0..size, returned \in BOOLEAN :
               AddFile(n, meta, size, got, returned)
    BY <1>4 DEF FileCalls
  <2>2. meta \in Metas
    BY DEF MetasOf
  <2>3. ~CreateFileFails(n, meta, size)
    BY FaultsStay DEF CreateFileFails
  <2>4. CASE CreateFile(n, meta, size)
    <3>1. Check /\ UNCHANGED <<phase, result>>
      BY <2>4 DEF CreateFile, CanCreateFile
    <3> QED BY <1>1, <1>3, <2>2, <2>4, <3>1, CreateFileAccounts
  <2>5. ASSUME NEW got \in 0..size, NEW returned \in BOOLEAN,
               AddFile(n, meta, size, got, returned)
        PROVE  Accounted' /\ Builds
    <3>1. Check /\ UNCHANGED <<phase, result>>
      BY <2>5 DEF AddFile, CanCreateFile
    <3> QED BY <1>1, <1>3, <2>2, <2>5, <3>1, AddFileAccounts
  <2> QED BY <2>1, <2>3, <2>4, <2>5
<1>5. CASE WriteCalls
  <2>1. ASSUME NEW k \in WriteSizes, Write(k) \/ PollWrite(k)
        PROVE  Accounted' /\ Builds
    <3>1. file.open /\ UNCHANGED <<phase, result>>
      BY <2>1 DEF Write, PollWrite
    <3>2. /\ Accounted' /\ NamesIn(archive') = NamesIn(archive)
          /\ Depth' = Depth /\ file'.open
      BY <1>1, <2>1, WriteAccounts
    <3> QED BY <3>1, <3>2
            DEF Builds, Stutters, SameNames, SameLack, Lacking
  <2>2. \A k : ~WriteAllFails(k)
    BY FaultsStay DEF WriteAllFails
  <2>3. CASE DropFile
    <3>1. file.open /\ UNCHANGED <<phase, result>>
      BY <2>3 DEF DropFile
    <3>2. Accounted' /\ archive' = archive /\ Depth' = Depth /\ Depth > 0
      BY <1>1, <2>3, DropFileAccounts
    <3> QED BY <3>1, <3>2
            DEF Builds, GivesUp, Stutters, SameNames, SameLack, Lacking
  <2> QED BY <1>5, <2>1, <2>2, <2>3 DEF WriteCalls
<1>6. CASE RefCalls
  <2>1. CASE Advance
    <3>1. ~file.open /\ UNCHANGED <<phase, result>>
      BY <2>1 DEF Advance, Usable
    <3>2. /\ Accounted' /\ archive' = archive /\ Depth' = Depth
          /\ ~file'.open /\ Clean /\ Clean'
      BY <1>1, <2>1, AdvanceAccounts
    <3> QED BY <3>1, <3>2
            DEF Builds, Stutters, SameNames, SameLack, Lacking
  <2>2. ASSUME NEW n \in Names, NEW meta \in MetasOf("file"),
               NEW ref \in KnownPayloads \cup NextPayloads,
               AddPayloadRef(n, meta, ref)
        PROVE  Accounted' /\ Builds
    <3>1. Check /\ UNCHANGED <<phase, result>> /\ meta \in Metas
      BY <2>2 DEF AddPayloadRef, MetasOf
    <3>2. /\ Accounted' /\ OneNameMore(archive, archive')
          /\ Depth' = Depth
      BY <2>2, <3>1, AddPayloadRefAccounts
    <3> QED BY <1>3, <3>1, <3>2
  <2> QED BY <1>6, <2>1, <2>2 DEF RefCalls
<1>7. CASE EntryCalls
  <2>1. PICK n \in Names :
          \/ \E meta \in Metas :
               \/ AddDevice(n, meta)
               \/ AddFifo(n, meta)
               \/ AddSocket(n, meta)
               \/ CreateDirectory(n, meta)
          \/ \E meta \in MetasOf("symlink"), len \in TargetLens :
               AddSymlink(n, meta, len)
          \/ \E len \in TargetLens, target \in links :
               AddHardlink(n, len, target)
    BY <1>7 DEF EntryCalls
  <2>2. ASSUME NEW meta \in Metas,
               \/ \E len \in TargetLens : AddSymlink(n, meta, len)
               \/ AddDevice(n, meta)
               \/ AddFifo(n, meta)
               \/ AddSocket(n, meta)
        PROVE  Accounted' /\ Builds
    <3>1. Check /\ UNCHANGED <<phase, result>>
      BY <2>2 DEF AddSymlink, AddDevice, AddFifo, AddSocket, AddFileEntry
    <3> QED BY <1>1, <1>3, <2>2, <3>1, AddEntryAccounts
  <2>3. ASSUME NEW meta \in MetasOf("symlink"), NEW len \in TargetLens,
               AddSymlink(n, meta, len)
        PROVE  Accounted' /\ Builds
    <3>1. meta \in Metas
      BY DEF MetasOf
    <3> QED BY <2>2, <2>3, <3>1
  <2>4. ASSUME NEW len \in TargetLens, NEW target \in links,
               AddHardlink(n, len, target)
        PROVE  Accounted' /\ Builds
    <3>1. Check /\ UNCHANGED <<phase, result>>
      BY <2>4 DEF AddHardlink, AddFileEntry
    <3> QED BY <1>1, <1>3, <2>4, <3>1, AddHardlinkAccounts
  <2>5. ASSUME NEW meta \in Metas, CreateDirectory(n, meta)
        PROVE  Accounted' /\ Builds
    <3>1. Check /\ UNCHANGED <<phase, result>>
      BY <2>5 DEF CreateDirectory
    <3>2. ~Lacking
      BY <3>1, CheckIsClean DEF Lacking
    <3>3. /\ Accounted' /\ OneNameMore(archive, archive') /\ Clean'
          /\ Depth' = Depth + 1 /\ Depth > 0 /\ ~file'.open
      BY <1>1, <2>5, CreateDirectoryAccounts
    <3> QED BY <3>1, <3>2, <3>3 DEF Builds, EntersDirectory, SameLack, Lacking
  <2> QED BY <2>1, <2>2, <2>3, <2>4, <2>5
<1> QED BY <1>4, <1>5, <1>6, <1>7

LEMMA StepBuilds ==
  ASSUME OInv, Accounted, faults' = {}, ~(Split /\ TokioIo), [Next]_vars
  PROVE  Accounted' /\ Builds
<1>1. IInv /\ "finish" \notin faults
  BY FaultsGrow DEF OInv
<1>2. ASSUME NEW meta \in Metas, NEW prelude \in Preludes, New(meta, prelude)
      PROVE  Accounted' /\ Builds
  <2>1. /\ phase = "new" /\ phase' = "open" /\ result' = result
    BY <1>2 DEF New
  <2>2. /\ Accounted' /\ NamesIn(archive') = NamesIn(archive)
        /\ ~file.open /\ ~file'.open /\ Clean /\ Clean'
        /\ state = <<>> /\ Depth' = 1 /\ result = "none"
    BY <1>1, <1>2, NewAccounts
  <2>3. Depth = 0
    BY <2>2 DEF Depth
  <2> QED BY <2>1, <2>2, <2>3
          DEF Builds, OpensFile, SameNames, SameLack, Lacking
<1>3. CASE FileCalls \/ WriteCalls \/ RefCalls \/ EntryCalls
  BY <1>1, <1>3, CallsBuild
<1>4. CASE Finish
  <2>1. /\ Accounted' /\ NamesIn(archive') = NamesIn(archive)
        /\ ~file.open /\ ~file'.open /\ Depth \in Nat
        /\ Depth = 1 => /\ state' = <<>>
                        /\ result' = IF Clean THEN "ok" ELSE "incomplete"
                        /\ Clean' <=> Clean
        /\ Depth # 1 => /\ Depth > 1 /\ Depth' = Depth - 1
                        /\ result' = result
                        /\ Clean' <=> Clean
    BY <1>1, <1>4, FinishAccounts
  <2>2. phase' = phase
    BY <1>4 DEF Finish
  <2>3. SameNames /\ SameLack
    BY <2>1 DEF SameNames, SameLack, Lacking
  <2>4. CASE Depth = 1
    <3>1. Depth' = 0
      BY <2>1, <2>4 DEF Depth
    <3>2. result' = IF Lacking THEN "incomplete" ELSE "ok"
      BY <2>1, <2>4 DEF Lacking
    <3>3. FinishesRoot
      BY <2>2, <2>3, <2>4, <3>1, <3>2 DEF FinishesRoot
    <3> QED BY <2>1, <3>3 DEF Builds
  <2>5. CASE Depth # 1
    BY <2>1, <2>2, <2>3, <2>5 DEF Builds, LeavesDirectory
  <2> QED BY <2>4, <2>5
<1>5. CASE FinishFails
  BY <1>5, FaultsStay DEF FinishFails
<1>6. CASE Close
  <2>1. /\ Accounted' /\ archive' = archive
        /\ ~file.open /\ ~file'.open /\ (Clean' <=> Clean)
        /\ result # "none"
    BY <1>1, <1>6, CloseAccounts
  <2>2. /\ state = <<>> /\ state' = <<>> /\ phase = "open"
        /\ phase' = "closed" /\ result' = result
    BY <1>6 DEF Close
  <2>3. Depth = 0 /\ Depth' = 0
    BY <2>2 DEF Depth
  <2> QED BY <2>1, <2>2, <2>3
          DEF Builds, Closes, SameNames, SameLack, Lacking
<1>7. CASE UNCHANGED vars
  <2>1. UNCHANGED <<archive, payload, state, file, phase, result, promised>>
    BY <1>7 DEF vars
  <2>2. Depth' = Depth /\ (Clean' <=> Clean) /\ FileStream' = FileStream
    BY <2>1 DEF Depth, Clean, Top, FileStream
  <2>3. Accounted'
    BY <2>1, <2>2 DEF Accounted, FlagsTell, ContentsAccounted
  <2> QED BY <2>1, <2>2, <2>3
          DEF Builds, Stutters, SameNames, SameLack, Lacking
<1> QED BY <1>2, <1>3, <1>4, <1>5, <1>6, <1>7 DEF Next, Terminated

(* The invariant of this module.                                            *)
THEOREM ContentsAreAccounted == Spec => []CInv
<1>1. Init => CInv
  BY InitLeads, InitAccounts DEF CInv
<1>2. CInv /\ [Next]_vars => CInv'
  <2> SUFFICES ASSUME CInv, [Next]_vars
               PROVE  CInv'
    OBVIOUS
  <2>1. OInv /\ OInv'
    BY NextKeeps, NextLeads DEF CInv, OInv
  <2>2. ASSUME faults' = {}, ~(Split /\ TokioIo)
        PROVE  Accounted'
    <3>1. Accounted
      BY <2>2, FaultsGrow DEF CInv
    <3> QED BY <2>1, <2>2, <3>1, StepBuilds
  <2> QED BY <2>1, <2>2 DEF CInv
<1> QED BY <1>1, <1>2, PTL DEF Spec

(* If no call failed and finish() of the root says Ok, every file has       *)
(* exactly the content its header declares: whatever was written in which   *)
(* pieces, and in whichever directory a file was given up.  (A call that    *)
(* failed may leave contents that do not fit their header behind an Ok.     *)
(* Where TokioIo and Split meet contents go astray: finding_poll_write.)    *)
THEOREM OkIsComplete ==
  ASSUME ~(Split /\ TokioIo)
  PROVE  Spec => []FinishedOkIsComplete
<1>1. CInv => FinishedOkIsComplete
  <2> SUFFICES ASSUME CInv, result = "ok", faults = {}
               PROVE  ContentsComplete(archive) /\ ContentsComplete(payload)
    BY DEF FinishedOkIsComplete
  <2>1. FlagsTell /\ ContentsAccounted /\ IInv
    BY DEF CInv, Accounted, OInv
  <2>2. state = <<>> /\ ~file.open
    BY <2>1 DEF FlagsTell, IInv, TypeOK
  <2>3. ContentsComplete(FileStream)
    BY <2>1, <2>2 DEF Clean, ContentsAccounted
  <2> QED BY <2>1, <2>3
          DEF FileStream, ContentsAccounted, ContentsComplete, Payloads
<1> QED BY <1>1, ContentsAreAccounted, PTL

-----------------------------------------------------------------------------
(***************************************************************************)
(* The encoder implements the abstract builder.                            *)
(***************************************************************************)

ShortAnywhere == ShortFile(archive) \/ ShortFile(payload)

LackShows ==
  CInv /\ faults = {} /\ ~(Split /\ TokioIo) => (ShortAnywhere <=> Lacking)

(* The encoder's flags and the streams agree on whether content is lacking.  *)
LEMMA LackMeans == LackShows
<1> SUFFICES ASSUME CInv, faults = {}, ~(Split /\ TokioIo)
             PROVE  ShortAnywhere <=> Lacking
  BY DEF LackShows
<1>1. /\ FlagsTell /\ ContentsAccounted
      /\ Stream(archive) /\ Stream(payload)
  BY DEF CInv, Accounted, OInv, IInv, TypeOK
<1>2. ShortAnywhere <=> ~file.open /\ ~ContentsComplete(FileStream)
  BY <1>1 DEF ShortAnywhere, ShortFile, ContentsComplete, FileStream,
              ContentsAccounted, Payloads
<1>3. ASSUME SomeShort(FileStream)
      PROVE  ~ContentsComplete(FileStream)
  <2>1. Stream(FileStream)
    BY <1>1 DEF FileStream
  <2> QED BY <1>3, <2>1, ShortIsIncomplete
          DEF SomeShort, ContentsComplete, Payloads
<1> QED BY <1>1, <1>2, <1>3 DEF Lacking, ContentsAccounted

LEMMA InitBuilds ==
  ASSUME Init, CInv, ~(Split /\ TokioIo)
  PROVE  Builder!Init
<1>1. /\ archive.cells = {} /\ state = <<>> /\ result = "none"
      /\ phase = "new" /\ faults = {}
  BY DEF Init, EmptyStream
<1>2. CellsOf(archive, "FILENAME") = {}
  BY <1>1 DEF CellsOf
<1>3. Depth = 0 /\ Cardinality(CellsOf(archive, "FILENAME")) = 0
  BY <1>1, <1>2, FS_EmptySet DEF Depth
<1>4. ~ShortAnywhere
  BY <1>1, LackMeans DEF LackShows, Lacking, Clean
<1> QED BY <1>1, <1>3, <1>4 DEF Builder!Init, ShortAnywhere

LEMMA BuildsIsAStep ==
  ASSUME CInv, faults = {}, ~(Split /\ TokioIo), Builds,
         ShortAnywhere' <=> Lacking'
  PROVE  [Builder!Next]_(Builder!vars)
<1> DEFINE count == Cardinality(CellsOf(archive, "FILENAME"))
<1>1. ShortAnywhere <=> Lacking
  BY LackMeans DEF LackShows
<1>2. IsFiniteSet(NamesIn(archive))
  BY DEF CInv, Accounted, NamesIn
<1>3. SameNames => count' = count
  BY DEF SameNames, NamesIn
<1>4. OneNameMore(archive, archive') => count' = count + 1
  BY <1>2, OneNameMoreCounts DEF NamesIn
<1> HIDE DEF count
<1>5. ASSUME OpensFile PROVE Builder!Open
  BY <1>1, <1>3, <1>5 DEF OpensFile, Builder!Open, SameLack, ShortAnywhere,
                                count
<1>6. ASSUME Adds PROVE Builder!Add
  BY <1>1, <1>4, <1>6 DEF Adds, Builder!Add, ShortAnywhere, count
<1>7. ASSUME GivesUp PROVE Builder!GiveUp
  BY <1>3, <1>7 DEF GivesUp, Builder!GiveUp, ShortAnywhere, count
<1>8. ASSUME EntersDirectory PROVE Builder!Enter
  BY <1>1, <1>4, <1>8 DEF EntersDirectory, Builder!Enter, SameLack,
                                ShortAnywhere, count
<1>9. ASSUME LeavesDirectory PROVE Builder!Leave
  BY <1>1, <1>3, <1>9 DEF LeavesDirectory, Builder!Leave, SameLack,
                                ShortAnywhere, count
<1>10. ASSUME FinishesRoot PROVE Builder!FinishRoot
  BY <1>1, <1>3, <1>10
     DEF FinishesRoot, Builder!FinishRoot, SameLack, ShortAnywhere, count
<1>11. ASSUME Closes PROVE Builder!Close
  BY <1>1, <1>3, <1>11 DEF Closes, Builder!Close, SameLack, ShortAnywhere, count
<1>12. ASSUME Stutters PROVE UNCHANGED (Builder!vars)
  BY <1>1, <1>3, <1>12
     DEF Stutters, Builder!vars, SameLack, ShortAnywhere, count
<1> QED BY <1>5, <1>6, <1>7, <1>8, <1>9, <1>10, <1>11, <1>12
        DEF Builds, Builder!Next

(* The encoder implements the abstract builder: once a file has gone without *)
(* some of its content no call adds an entry or enters a directory any more, *)
(* and the verdict on the archive is "incomplete" exactly then.  "tainted"   *)
(* is read off the streams, not the encoder's flags.  (A failed call is no   *)
(* step of the builder, so none may happen.)                               *)
THEOREM EncoderBuilds ==
  ASSUME ~(Split /\ TokioIo), FaultKinds = {}
  PROVE  Spec => ImplementsBuilder
<1>1. CInv => faults = {}
  BY DEF CInv, OInv, IInv, TypeOK
<1>2. Init => CInv
  BY InitLeads, InitAccounts DEF CInv
<1>3. Init => Builder!Init
  BY <1>2, InitBuilds
<1>4. CInv /\ CInv' /\ LackShows' /\ [Next]_vars =>
        [Builder!Next]_(Builder!vars)
  <2> SUFFICES ASSUME CInv, CInv', LackShows', [Next]_vars
               PROVE  [Builder!Next]_(Builder!vars)
    OBVIOUS
  <2>1. faults = {} /\ faults' = {}
    BY DEF CInv, OInv, IInv, TypeOK
  <2>2. Builds
    BY <2>1, StepBuilds DEF CInv
  <2>3. ShortAnywhere' <=> Lacking'
    BY <2>1 DEF LackShows
  <2> QED BY <2>1, <2>2, <2>3, BuildsIsAStep
<1> QED BY <1>3, <1>4, ContentsAreAccounted, LackMeans, PTL
        DEF Spec, ImplementsBuilder, Builder!Spec

-----------------------------------------------------------------------------
(***************************************************************************)
(* References in order.  Only a failed finish() is excluded here: a call    *)
(* that fails never gets its reference out.                                *)
(***************************************************************************)
RefsOf(s) == CellsOf(s, "PAYLOAD_REF")

RefEnd(c) == c.item.offset + HeaderSize + c.item.content

(* What the payload stream still has to get before the next reference.       *)
Due == IF file.open THEN file.remaining_size
       ELSE IF promised # <<>> THEN HeaderSize + promised[1].content
       ELSE 0

RefsInOrder ==
  \A c, d \in RefsOf(archive) : c.at < d.at => RefEnd(c) <= d.item.offset

(* Unless a file was given up what is referred to is there or due: the next  *)
(* reference will be to what comes behind it.                              *)
RefsBehind ==
  state # <<>> /\ Top.encode_error = "none" =>
    \A c \in RefsOf(archive) : RefEnd(c) <= payload.len + Due

ErrorsOnTop == \A d \in 1..Depth - 1 : state[d].encode_error = "none"

Ascending ==
  /\ RefsInOrder
  /\ RefsBehind
  /\ ErrorsOnTop
  /\ ~Split => RefsOf(archive) = {}

RInv ==
  /\ OInv
  /\ "finish" \notin faults /\ ~(Split /\ TokioIo) => Ascending

LEMMA RefCell ==
  ASSUME NEW s, Stream(s), NEW c \in RefsOf(s)
  PROVE  /\ c \in s.cells /\ c.at \in Nat /\ c.at < s.len /\ s.len \in Nat
         /\ c.item.offset \in Nat /\ c.item.content \in Nat
         /\ RefEnd(c) \in Nat
<1>1. c \in s.cells /\ c.item.htype = "PAYLOAD_REF"
  BY DEF RefsOf, CellsOf
<1>2. /\ c.at \in Nat /\ c.item.size \in Nat /\ c.item.size >= HeaderSize
      /\ c.at + c.item.size <= s.len /\ s.len \in Nat
      /\ c.item.content \in FileSizes /\ c.item.offset \in Nat
  BY <1>1 DEF Stream, ItemOK
<1>3. c.item.content \in Nat
  BY <1>2, EncoderAssumption
<1> QED BY <1>1, <1>2, <1>3 DEF RefEnd, HeaderSize

LEMMA RefsAppend ==
  ASSUME NEW s, NEW item
  PROVE  RefsOf(Append1(s, item)) =
           IF item.htype = "PAYLOAD_REF"
             THEN RefsOf(s) \cup {[at |-> s.len, item |-> item]}
             ELSE RefsOf(s)
<1> DEFINE new == [at |-> s.len, item |-> item]
<1>1. Append1(s, item).cells = s.cells \cup {new} /\ new.item = item
  BY DEF Append1
<1> HIDE DEF new
<1>2. CASE item.htype = "PAYLOAD_REF"
  BY <1>1, <1>2 DEF RefsOf, CellsOf, new
<1>3. CASE item.htype # "PAYLOAD_REF"
  BY <1>1, <1>3 DEF RefsOf, CellsOf, new
<1> QED BY <1>2, <1>3

LEMMA DueIsNat ==
  ASSUME IInv
  PROVE  Due \in Nat /\ payload.len \in Nat
<1>1. payload.len \in Nat /\ file.remaining_size \in Nat
  BY DEF IInv, TypeOK, Stream
<1>2. promised # <<>> => promised[1].content \in Nat
  <2> SUFFICES ASSUME promised # <<>> PROVE promised[1].content \in Nat
    OBVIOUS
  <2>1. promised \in Seq(PayloadRefs)
    BY DEF IInv, TypeOK
  <2>2. promised[1] \in PayloadRefs
    BY <2>1
  <2> QED BY <2>2, EncoderAssumption DEF PayloadRefs
<1> QED BY <1>1, <1>2 DEF Due, HeaderSize

(* A step that adds no reference.                                           *)
LEMMA RefsStay ==
  ASSUME IInv, IInv', Ascending,
         RefsOf(archive') \subseteq RefsOf(archive), ErrorsOnTop',
         Split /\ state' # <<>> /\ Top'.encode_error = "none" =>
           /\ state # <<>> /\ Top.encode_error = "none"
           /\ payload.len + Due <= payload'.len + Due'
  PROVE  Ascending'
<1>1. RefsInOrder' /\ (~Split => RefsOf(archive') = {})
  BY DEF Ascending, RefsInOrder
<1>2. RefsBehind'
  <2> SUFFICES ASSUME state' # <<>>, Top'.encode_error = "none",
                      NEW c \in RefsOf(archive')
               PROVE  RefEnd(c) <= payload'.len + Due'
    BY DEF RefsBehind
  <2>1. Split /\ c \in RefsOf(archive)
    BY <1>1
  <2>2. RefEnd(c) <= payload.len + Due
    BY <2>1 DEF Ascending, RefsBehind
  <2>3. RefEnd(c) \in Nat
    BY <2>1, RefCell DEF IInv, TypeOK
  <2>4. /\ Due \in Nat /\ payload.len \in Nat
        /\ payload.len + Due <= payload'.len + Due'
    BY <2>1, DueIsNat
  <2>5. Due' \in Nat /\ payload'.len \in Nat
    <3>1. payload'.len \in Nat /\ file'.remaining_size \in Nat
      BY DEF IInv, TypeOK, Stream
    <3>2. promised' # <<>> => promised'[1].content \in Nat
      <4> SUFFICES ASSUME promised' # <<>> PROVE promised'[1].content \in Nat
        OBVIOUS
      <4>1. promised' \in Seq(PayloadRefs)
        BY DEF IInv, TypeOK
      <4>2. promised'[1] \in PayloadRefs
        BY <4>1
      <4> QED BY <4>2, EncoderAssumption DEF PayloadRefs
    <3> QED BY <3>1, <3>2 DEF Due, HeaderSize
  <2> QED BY <2>2, <2>3, <2>4, <2>5
<1> QED BY <1>1, <1>2 DEF Ascending

(* A step that adds a reference to the end of the payload stream.           *)
LEMMA RefJoins ==
  ASSUME IInv, Ascending, Split, state # <<>>, Top.encode_error = "none",
         Due = 0, NEW c, RefsOf(archive') \subseteq RefsOf(archive) \cup {c},
         c.at \in Nat, archive.len <= c.at, c.item.offset = payload.len,
         c.item.content \in Nat, ErrorsOnTop',
         state' # <<>> /\ Top'.encode_error = "none" =>
           /\ payload'.len \in Nat /\ Due' \in Nat
           /\ RefEnd(c) <= payload'.len + Due'
  PROVE  Ascending'
<1>1. Stream(archive) /\ payload.len \in Nat
  BY DueIsNat DEF IInv, TypeOK
<1>2. \A d \in RefsOf(archive) :
        RefEnd(d) \in Nat /\ RefEnd(d) <= payload.len /\ d.at < c.at
  <2> TAKE d \in RefsOf(archive)
  <2>1. RefEnd(d) <= payload.len + Due
    BY DEF Ascending, RefsBehind
  <2>2. /\ RefEnd(d) \in Nat /\ d.at \in Nat /\ d.at < archive.len
        /\ archive.len \in Nat
    BY <1>1, RefCell
  <2> QED BY <1>1, <2>1, <2>2
<1>3. RefEnd(c) = payload.len + HeaderSize + c.item.content
  BY DEF RefEnd
<1>4. RefsInOrder'
  <2> SUFFICES ASSUME NEW x \in RefsOf(archive'), NEW y \in RefsOf(archive'),
                      x.at < y.at
               PROVE  RefEnd(x) <= y.item.offset
    BY DEF RefsInOrder
  <2>1. CASE x \in RefsOf(archive) /\ y \in RefsOf(archive)
    BY <2>1 DEF Ascending, RefsInOrder
  <2>2. CASE x \in RefsOf(archive) /\ y = c
    BY <1>2, <2>2
  <2>3. CASE x = c
    <3>1. y.at = c.at \/ y.at < c.at
      BY <1>2
    <3>2. y.at \in Nat
      BY <1>1, RefCell
    <3> QED BY <2>3, <3>1, <3>2
  <2> QED BY <2>1, <2>2, <2>3
<1>5. RefsBehind'
  <2> SUFFICES ASSUME state' # <<>>, Top'.encode_error = "none",
                      NEW x \in RefsOf(archive')
               PROVE  RefEnd(x) <= payload'.len + Due'
    BY DEF RefsBehind
  <2>1. CASE x = c
    BY <2>1
  <2>2. CASE x \in RefsOf(archive)
    <3>1. RefEnd(x) \in Nat /\ RefEnd(x) <= payload.len
      BY <1>2, <2>2
    <3>2. /\ RefEnd(c) \in Nat /\ payload.len <= RefEnd(c)
          /\ RefEnd(c) <= payload'.len + Due'
          /\ payload'.len \in Nat /\ Due' \in Nat
      BY <1>1, <1>3 DEF HeaderSize
    <3> QED BY <1>1, <3>1, <3>2
  <2> QED BY <2>1, <2>2
<1> QED BY <1>4, <1>5 DEF Ascending

(* A step within the current directory.                                     *)
LEMMA TopIsReplaced ==
  ASSUME IInv, IInv', state # <<>>, NEW t, SetTop(t)
  PROVE  /\ Depth \in Nat \ {0} /\ Depth' = Depth /\ Top' = t
         /\ state' # <<>> /\ t \in EncoderStates
         /\ Ascending => ErrorsOnTop'
<1>1. /\ Depth \in Nat \ {0} /\ Depth = Len(state)
      /\ state \in Seq(EncoderStates) /\ state' \in Seq(EncoderStates)
      /\ state' = [state EXCEPT ![Len(state)] = t]
  BY TopOK DEF SetTop, IInv, TypeOK
<1>2. DOMAIN state' = DOMAIN state
  BY <1>1
<1>3. Len(state') = Len(state)
  BY <1>1, <1>2
<1>4. /\ state'[Len(state)] = t
      /\ \A d \in 1..Len(state) - 1 : state'[d] = state[d]
  BY <1>1
<1>5. t \in EncoderStates
  BY <1>1, <1>3, <1>4
<1>6. Depth' = Depth /\ Top' = t /\ state' # <<>>
  BY <1>1, <1>3, <1>4 DEF Depth, Top
<1>7. Ascending => ErrorsOnTop'
  BY <1>1, <1>4, <1>6 DEF Ascending, ErrorsOnTop
<1> QED BY <1>1, <1>5, <1>6, <1>7

LEMMA TopStepAscends ==
  ASSUME IInv, IInv', Ascending, state # <<>>, NEW t, SetTop(t),
         RefsOf(archive') \subseteq RefsOf(archive),
         Split /\ t.encode_error = "none" =>
           /\ Top.encode_error = "none"
           /\ payload.len + Due <= payload'.len + Due'
  PROVE  Ascending'
<1>1. /\ Top' = t /\ state' # <<>> /\ ErrorsOnTop'
  BY TopIsReplaced
<1> QED BY <1>1, RefsStay

LEMMA StartFileRefs ==
  ASSUME IInv, state # <<>>, NEW n \in Names, NEW meta \in Metas
  PROVE  LET s == StartFile(n, meta).out IN
         /\ RefsOf(s) = RefsOf(archive)
         /\ s.len \in Nat /\ archive.len <= s.len
<1> DEFINE named == Append1(archive, Filename(n))
           s == Append1(named, Entry(meta))
<1>1. StartFile(n, meta).out = s
  BY WriterOut DEF StartFile, ArchiveWriter
<1>2. RefsOf(named) = RefsOf(archive)
  BY RefsAppend DEF Filename
<1>3. Entry(meta).htype # "PAYLOAD_REF"
  BY DEF Entry
<1> HIDE DEF named
<1>4. RefsOf(s) = RefsOf(archive)
  BY <1>2, <1>3, RefsAppend
<1>5. Extends(ArchiveWriter, StartFile(n, meta)) /\ IsWriter(ArchiveWriter)
  BY StartFileOK, TopOK
<1> HIDE DEF s
<1>6. s.len \in Nat /\ archive.len <= s.len
  BY <1>1, <1>5 DEF Extends, IsWriter, ArchiveWriter, Stream
<1> QED BY <1>1, <1>4, <1>6

(* The reference that create_file writes, if it writes one.                 *)
FileRef(n, meta, size) ==
  [at   |-> StartFile(n, meta).out.len,
   item |-> PayloadRef(Top.payload_write_position, size)]

LEMMA FileArchiveRefs ==
  ASSUME OInv, "finish" \notin faults, state # <<>>,
         NEW n \in Names, NEW meta \in Metas, NEW size \in FileSizes
  PROVE  LET c == FileRef(n, meta, size)
             a == FileArchive(n, meta, size).out
         IN /\ Split => RefsOf(a) = RefsOf(archive) \cup {c}
            /\ ~Split => RefsOf(a) = RefsOf(archive)
            /\ c.at \in Nat /\ archive.len <= c.at
            /\ c.item.offset = payload.len /\ payload.len \in Nat
            /\ c.item.content = size /\ size \in Nat
            /\ RefEnd(c) = payload.len + HeaderSize + size
<1> DEFINE s == StartFile(n, meta).out
           c == FileRef(n, meta, size)
           a == FileArchive(n, meta, size).out
<1>1. /\ RefsOf(s) = RefsOf(archive)
      /\ s.len \in Nat /\ archive.len <= s.len
  BY StartFileRefs DEF OInv
<1>2. Top.payload_write_position = payload.len /\ payload.len \in Nat
  BY TopLeads
<1>3. c.at = s.len /\ c.item = PayloadRef(payload.len, size)
  BY <1>2 DEF FileRef
<1>4. /\ c.item.offset = payload.len /\ c.item.content = size
      /\ c.item.htype = "PAYLOAD_REF" /\ size \in Nat
  BY <1>3, EncoderAssumption DEF PayloadRef
<1>5. ASSUME Split PROVE RefsOf(a) = RefsOf(archive) \cup {c}
  <2> DEFINE item == PayloadRef(Top.payload_write_position, size)
  <2>1. a = Append1(s, item)
    BY <1>5, WriterOut DEF FileArchive
  <2>2. item.htype = "PAYLOAD_REF" /\ c = [at |-> s.len, item |-> item]
    BY DEF PayloadRef, FileRef
  <2> HIDE DEF s, c, item
  <2> QED BY <1>1, <2>1, <2>2, RefsAppend
<1>6. ASSUME ~Split PROVE RefsOf(a) = RefsOf(archive)
  <2>1. a = Append1(s, Payload(size)) /\ Payload(size).htype = "PAYLOAD"
    BY <1>6, WriterOut DEF FileArchive, Payload
  <2> HIDE DEF s
  <2> QED BY <1>1, <2>1, RefsAppend
<1>7. RefEnd(c) = payload.len + HeaderSize + size
  BY <1>4 DEF RefEnd
<1> QED BY <1>1, <1>2, <1>3, <1>4, <1>5, <1>6, <1>7

LEMMA FilePayloadLen ==
  ASSUME IInv, state # <<>>, NEW size \in FileSizes
  PROVE  /\ Split => FilePayload(size).out.len = payload.len + HeaderSize
         /\ ~Split => FilePayload(size).out = payload
  BY SeqWriteCells DEF FilePayload, PayloadWriter, Payload

LEMMA CreateFileAscends ==
  ASSUME OInv, IInv', "finish" \notin faults, Ascending,
         NEW n \in Names, NEW meta \in Metas, NEW size \in FileSizes,
         CreateFile(n, meta, size)
  PROVE  Ascending'
<1> DEFINE a == FileArchive(n, meta, size)
           p == FilePayload(size)
           t == PayloadAt(At(Top, a.position), p.position)
           c == FileRef(n, meta, size)
<1>1. /\ state # <<>> /\ ~file.open /\ Top.encode_error = "none"
      /\ promised = <<>> /\ IInv
      /\ archive' = a.out /\ payload' = p.out /\ SetTop(t)
      /\ file' = [open |-> TRUE, remaining_size |-> size,
                  item |-> FileItem(n, meta, size)]
  BY DEF CreateFile, CanCreateFile, Check, Usable, OInv
<1>2. /\ Split => RefsOf(a.out) = RefsOf(archive) \cup {c}
      /\ ~Split => RefsOf(a.out) = RefsOf(archive)
      /\ c.at \in Nat /\ archive.len <= c.at
      /\ c.item.offset = payload.len /\ payload.len \in Nat
      /\ c.item.content = size /\ size \in Nat
      /\ RefEnd(c) = payload.len + HeaderSize + size
  BY <1>1, FileArchiveRefs
<1>3. /\ Split => p.out.len = payload.len + HeaderSize
      /\ ~Split => p.out = payload
  BY <1>1, FilePayloadLen
<1> HIDE DEF a, p, c
<1>4. Due' = size /\ Due = 0
  BY <1>1 DEF Due
<1> HIDE DEF t
<1>5. ErrorsOnTop'
  BY <1>1, TopIsReplaced
<1>6. CASE Split
  <2>1. payload'.len = payload.len + HeaderSize /\ payload'.len \in Nat
    BY <1>1, <1>2, <1>3, <1>6 DEF HeaderSize
  <2>2. RefEnd(c) <= payload'.len + Due' /\ Due' \in Nat
    BY <1>2, <1>4, <2>1 DEF HeaderSize
  <2> QED BY <1>1, <1>2, <1>4, <1>5, <1>6, <2>1, <2>2, RefJoins
<1>7. CASE ~Split
  BY <1>1, <1>2, <1>7, TopStepAscends
<1> QED BY <1>6, <1>7

(* A failing call never completes its last item in the archive.             *)
LEMMA CreateFileFailsAscends ==
  ASSUME OInv, IInv', Ascending,
         NEW n \in Names, NEW meta \in Metas, NEW size \in FileSizes,
         CreateFileFails(n, meta, size)
  PROVE  Ascending'
<1> DEFINE named == StartFile(n, meta)
           a == FileArchive(n, meta, size)
           p == FilePayload(size)
<1>1. /\ state # <<>> /\ ~file.open /\ promised = <<>> /\ IInv
      /\ Top.encode_error = "none"
      /\ UNCHANGED <<file, phase, result, links, promised>>
  BY DEF CreateFileFails, CanCreateFile, Check, Usable, OInv
<1>2. PICK x \in (Interrupted(ArchiveWriter, named) \X {PayloadWriter})
                   \cup ({named} \X Interrupted(PayloadWriter, p))
                   \cup (Interrupted(named, a) \X {p}) :
        /\ archive' = x[1].out
        /\ payload' = x[2].out
        /\ SetTop(PayloadAt(At(Top, x[1].position), x[2].position))
  BY DEF CreateFileFails
<1>3. /\ RefsOf(named.out) = RefsOf(archive)
      /\ IsWriter(ArchiveWriter) /\ IsWriter(PayloadWriter)
      /\ Extends(ArchiveWriter, named) /\ IsWriter(named)
      /\ Extends(PayloadWriter, p) /\ size \in Nat
  BY <1>1, StartFileRefs, StartFileOK, FileWritersOK, TopOK,
     EncoderAssumption DEF Extends
<1>4. \A w \in Interrupted(named, a) : w.out.cells \subseteq named.out.cells
  <2> DEFINE last == IF Split THEN PayloadRef(Top.payload_write_position, size)
                              ELSE Payload(size)
  <2>1. a = SeqWrite(named, last)
    BY DEF FileArchive
  <2>2. ItemOK(last)
    BY <1>1, <1>3, TopOK, SizedItemsOK
  <2> HIDE DEF last, named, a
  <2> QED BY <1>3, <2>1, <2>2, CutLosesLast
<1> HIDE DEF a, named
<1>5. /\ x[1] \in Interrupted(ArchiveWriter, named) \/ x[1] = named
           \/ x[1] \in Interrupted(named, a)
      /\ x[2] = PayloadWriter \/ x[2] \in Interrupted(PayloadWriter, p)
           \/ x[2] = p
  OBVIOUS
<1>6. x[1].out.cells \subseteq named.out.cells
  BY <1>4, <1>5, CutCells
<1>7. RefsOf(archive') \subseteq RefsOf(archive)
  BY <1>2, <1>3, <1>6 DEF RefsOf, CellsOf
<1>8. Extends(PayloadWriter, x[2])
  <2> HIDE DEF p
  <2> QED BY <1>3, <1>5, InterruptedExtends, ExtendsReflexive
<1>9. payload'.len \in Nat /\ payload.len \in Nat /\ payload.len <= payload'.len
  BY <1>2, <1>3, <1>8 DEF Extends, IsWriter, PayloadWriter, Stream
<1>10. Due' = Due /\ Due = 0
  BY <1>1 DEF Due
<1> QED BY <1>1, <1>2, <1>7, <1>9, <1>10, TopStepAscends

LEMMA AddFileAscends ==
  ASSUME OInv, IInv', "finish" \notin faults, Ascending,
         NEW n \in Names, NEW meta \in Metas,
         NEW size \in FileSizes, NEW got \in 0..size,
         NEW returned \in BOOLEAN, AddFile(n, meta, size, got, returned)
  PROVE  Ascending'
<1> DEFINE a == FileArchive(n, meta, size)
           p == FilePayload(size)
           a2 == IF Split THEN a ELSE SeqWriteData(a, got)
           p2 == IF Split THEN SeqWriteData(p, got) ELSE p
           written == PayloadAt(At(Top, a2.position), p2.position)
           item == FileItem(n, meta, size)
           t == DropInto(written, item, size - got)
           c == FileRef(n, meta, size)
<1>1. /\ state # <<>> /\ ~file.open /\ Top.encode_error = "none"
      /\ promised = <<>> /\ IInv
      /\ archive' = a2.out /\ payload' = p2.out /\ SetTop(t)
      /\ UNCHANGED <<file, phase, result, promised, faults>>
  BY DEF AddFile, CanCreateFile, Check, Usable, OInv
<1>2. /\ Split => RefsOf(a.out) = RefsOf(archive) \cup {c}
      /\ ~Split => RefsOf(a.out) = RefsOf(archive)
      /\ c.at \in Nat /\ archive.len <= c.at
      /\ c.item.offset = payload.len /\ payload.len \in Nat
      /\ c.item.content = size /\ size \in Nat
      /\ RefEnd(c) = payload.len + HeaderSize + size
  BY <1>1, FileArchiveRefs
<1>3. Split => p.out.len = payload.len + HeaderSize
  BY <1>1, FilePayloadLen
<1>4. got \in Nat /\ got <= size
  BY <1>2
<1> HIDE DEF a, p, c, item
<1>5. RefsOf(a2.out) = RefsOf(a.out)
  <2>1. SeqWriteData(a, got).out = a.out
          \/ SeqWriteData(a, got).out = Append1(a.out, Data(got))
    BY WriterOut DEF SeqWriteData
  <2>2. Data(got).htype # "PAYLOAD_REF"
    BY DEF Data
  <2> QED BY <2>1, <2>2, RefsAppend
<1>6. Split => p2.out.len = payload.len + HeaderSize + got
  <2> SUFFICES ASSUME Split PROVE p2.out.len = payload.len + HeaderSize + got
    OBVIOUS
  <2>1. CASE got = 0
    BY <1>2, <1>3, <2>1 DEF SeqWriteData, HeaderSize
  <2>2. CASE got # 0
    <3>1. p2.out.len = p.out.len + Data(got).size
      BY <2>2, SeqWriteCells DEF SeqWriteData
    <3> QED BY <1>3, <3>1 DEF Data
  <2> QED BY <2>1, <2>2
<1> HIDE DEF a2, p2
<1>7. Due' = 0 /\ Due = 0
  BY <1>1 DEF Due
<1>8. ErrorsOnTop' /\ Top' = t
  <2> HIDE DEF t
  <2> QED BY <1>1, TopIsReplaced
<1>9. CASE Split
  <2>1. /\ payload'.len = payload.len + HeaderSize + got
        /\ payload'.len \in Nat
    BY <1>1, <1>2, <1>4, <1>6, <1>9 DEF HeaderSize
  <2>2. t.encode_error = "none" => got = size
    <3>1. Extends(ArchiveWriter, a) /\ Extends(PayloadWriter, p)
      BY <1>1, FileWritersOK DEF a, p
    <3>2. /\ Extends(ArchiveWriter, a2) /\ Extends(PayloadWriter, p2)
          /\ Top \in EncoderStates
      <4>1. /\ IsWriter(a) /\ IsWriter(p) /\ IsWriter(ArchiveWriter)
            /\ IsWriter(PayloadWriter) /\ Top \in EncoderStates
        BY <1>1, <3>1, TopOK DEF Extends, DirOK
      <4>2. Extends(p, SeqWriteData(p, got))
        BY <1>4, <4>1, SeqWriteDataExtends
      <4> QED BY <1>9, <3>1, <4>1, <4>2, ExtendsTransitive DEF a2, p2
    <3>3. written \in EncoderStates /\ written.encode_error = "none"
      <4>1. DirOK(written)
        BY <1>1, <3>2, MovedOnOK
      <4>2. At(Top, a2.position) \in EncoderStates
        BY <3>2 DEF At, EncoderStates, Extends, IsWriter
      <4> QED BY <1>1, <3>2, <4>1, <4>2, ErrorFields DEF DirOK
    <3> HIDE DEF written
    <3>4. t.encode_error = IF size - got # 0 THEN "IncompleteFile" ELSE "none"
      BY <3>3, DropIntoError
    <3> QED BY <1>2, <1>4, <3>4
  <2> HIDE DEF t
  <2>3. t.encode_error = "none" =>
          RefEnd(c) <= payload'.len + Due' /\ Due' \in Nat
    BY <1>2, <1>7, <2>1, <2>2 DEF HeaderSize
  <2>4. RefsOf(archive') \subseteq RefsOf(archive) \cup {c}
    BY <1>1, <1>2, <1>5, <1>9
  <2> QED BY <1>1, <1>2, <1>7, <1>8, <1>9, <2>1, <2>3, <2>4, RefJoins
<1>10. CASE ~Split
  <2> HIDE DEF t
  <2> QED BY <1>1, <1>2, <1>5, <1>10, TopStepAscends
<1> QED BY <1>9, <1>10

LEMMA WritesAscend ==
  ASSUME OInv, IInv', Ascending, ~(Split /\ TokioIo), NEW k \in WriteSizes,
         Write(k) \/ WriteAllFails(k) \/ PollWrite(k)
  PROVE  Ascending'
<1>1. /\ file.open /\ k \in Nat /\ k # 0 /\ IInv /\ state # <<>>
      /\ file \in FileImpls /\ k <= file.remaining_size
      /\ file.remaining_size \in Nat /\ payload.len \in Nat
  BY EncoderAssumption
     DEF Write, WriteAllFails, PollWrite, OInv, IInv, TypeOK, FileImpls, Stream
<1>2. Top \in EncoderStates
  BY <1>1, TopOK DEF DirOK
<1>3. CASE Split
  <2> DEFINE t == PayloadAt(Top, SeqWrite(PayloadWriter, Data(k)).position)
  <2>1. /\ payload' = SeqWrite(PayloadWriter, Data(k)).out
        /\ archive' = archive /\ SetTop(t)
    BY <1>1, <1>3
       DEF Write, WriteAllFails, PollWrite, PutContent, PutToPayload,
           SeqWriteData
  <2>2. payload'.len = payload.len + k
    BY <2>1, SeqWriteCells DEF PayloadWriter, Data
  <2>3. t.encode_error = Top.encode_error
    BY <1>2, ErrorFields
  <2>4. Due = file.remaining_size
    BY <1>1 DEF Due
  <2>5. Due' = file.remaining_size - k \/ Due' = file.remaining_size
    BY <1>1, <1>3 DEF Write, WriteAllFails, PollWrite, Due, FileImpls
  <2> HIDE DEF t
  <2>6. payload.len + Due <= payload'.len + Due'
    BY <1>1, <2>2, <2>4, <2>5
  <2> QED BY <1>1, <2>1, <2>3, <2>6, TopStepAscends
<1>4. CASE ~Split
  <2> DEFINE t == At(Top, SeqWrite(ArchiveWriter, Data(k)).position)
  <2>1. archive' = Append1(archive, Data(k)) /\ SetTop(t)
    BY <1>1, <1>4, WriterOut
       DEF Write, WriteAllFails, PollWrite, PutContent, PutToArchive,
           SeqWriteData, ArchiveWriter
  <2>2. RefsOf(archive') = RefsOf(archive)
    BY <2>1, RefsAppend DEF Data
  <2> HIDE DEF t
  <2> QED BY <1>1, <1>4, <2>1, <2>2, TopStepAscends
<1> QED BY <1>3, <1>4

(* A file given up leaves an error, so that nothing will be referred to.    *)
LEMMA DropFileAscends ==
  ASSUME OInv, IInv', "finish" \notin faults, Ascending, DropFile
  PROVE  Ascending'
<1> DEFINE t == DropInto(Top, file.item, file.remaining_size)
<1>1. /\ file.open /\ SetTop(t) /\ file' = NoFile /\ IInv /\ state # <<>>
      /\ UNCHANGED <<archive, payload, promised>>
  BY DEF DropFile, OInv, IInv, TypeOK
<1>2. promised = <<>>
  BY <1>1 DEF OInv, OffsetsLead, OpenFileLeads
<1>3. Top \in EncoderStates
  BY <1>1, TopOK DEF DirOK
<1>4. t.encode_error =
        IF file.remaining_size # 0 /\ Top.encode_error = "none"
          THEN "IncompleteFile" ELSE Top.encode_error
  BY <1>3, DropIntoError
<1> HIDE DEF t
<1>5. Due = file.remaining_size /\ Due' = 0
  BY <1>1, <1>2 DEF Due, NoFile
<1>6. t.encode_error = "none" => Top.encode_error = "none" /\ Due = 0
  BY <1>4, <1>5
<1> QED BY <1>1, <1>5, <1>6, TopStepAscends, DueIsNat

LEMMA CallAscends ==
  ASSUME OInv, IInv', Ascending, Check, NEW n, NEW full,
         RefsOf(full.out) \subseteq RefsOf(archive),
         EntryAdded(n, full) \/ CallFails(full),
         UNCHANGED <<payload, file, promised>>
  PROVE  Ascending'
<1>1. /\ state # <<>> /\ Top.encode_error = "none" /\ IInv /\ Due' = Due
  BY DEF Check, Usable, OInv, Due
<1>2. payload.len + Due <= payload'.len + Due'
  BY <1>1, DueIsNat
<1>3. PICK t : SetTop(t) /\ RefsOf(archive') \subseteq RefsOf(full.out)
  <2>1. CASE EntryAdded(n, full)
    BY <2>1 DEF EntryAdded
  <2>2. CASE CallFails(full)
    <3>1. PICK cut \in Interrupted(ArchiveWriter, full) :
            archive' = cut.out /\ SetTop(At(Top, cut.position))
      BY <2>2 DEF CallFails
    <3> QED BY <3>1, CutCells DEF RefsOf, CellsOf
  <2> QED BY <2>1, <2>2
<1> QED BY <1>1, <1>2, <1>3, TopStepAscends

LEMMA AddEntryAscends ==
  ASSUME OInv, IInv', Ascending, NEW n \in Names, NEW meta \in Metas,
         \/ \E len \in TargetLens : AddSymlink(n, meta, len)
         \/ AddDevice(n, meta)
         \/ AddFifo(n, meta)
         \/ AddSocket(n, meta)
  PROVE  Ascending'
<1> DEFINE start == StartFile(n, meta)
<1>1. state # <<>> /\ IInv
  BY DEF AddSymlink, AddDevice, AddFifo, AddSocket, AddFileEntry, Check,
         Usable, OInv
<1>2. RefsOf(start.out) = RefsOf(archive)
  BY <1>1, StartFileRefs
<1>3. ASSUME NEW item, item.htype # "PAYLOAD_REF"
      PROVE  RefsOf(SeqWrite(start, item).out) = RefsOf(archive)
  BY <1>2, <1>3, WriterOut, RefsAppend
<1>4. ASSUME NEW full, RefsOf(full.out) = RefsOf(archive),
             AddFileEntry(n, full), UNCHANGED promised
      PROVE  Ascending'
  BY <1>4, CallAscends DEF AddFileEntry
<1>5. \A len : Symlink(len).htype # "PAYLOAD_REF"
  BY DEF Symlink
<1>6. Device.htype # "PAYLOAD_REF"
  BY DEF Device
<1> HIDE DEF start
<1>7. ASSUME NEW len \in TargetLens, AddSymlink(n, meta, len)
      PROVE  Ascending'
  BY <1>3, <1>4, <1>5, <1>7 DEF AddSymlink, start
<1>8. CASE AddDevice(n, meta)
  BY <1>3, <1>4, <1>6, <1>8 DEF AddDevice, start
<1>9. CASE AddFifo(n, meta) \/ AddSocket(n, meta)
  BY <1>2, <1>4, <1>9 DEF AddFifo, AddSocket, start
<1> QED BY <1>7, <1>8, <1>9

LEMMA AddHardlinkAscends ==
  ASSUME OInv, IInv', Ascending, NEW n, NEW len, NEW target,
         AddHardlink(n, len, target)
  PROVE  Ascending'
<1> DEFINE named == SeqWrite(ArchiveWriter, Filename(n))
           full == SeqWrite(named,
                            Hardlink(Top.write_position - target, target, len))
<1>1. /\ AddFileEntry(n, full) /\ UNCHANGED promised
  BY DEF AddHardlink
<1>2. RefsOf(named.out) = RefsOf(archive)
  BY WriterOut, RefsAppend DEF Filename, ArchiveWriter
<1>3. RefsOf(full.out) = RefsOf(named.out)
  <2> HIDE DEF named
  <2> QED BY WriterOut, RefsAppend DEF Hardlink
<1> HIDE DEF full
<1> QED BY <1>1, <1>2, <1>3, CallAscends DEF AddFileEntry

LEMMA AddPayloadRefAscends ==
  ASSUME OInv, IInv', "finish" \notin faults, Ascending,
         NEW n \in Names, NEW meta \in Metas,
         NEW ref \in KnownPayloads \cup NextPayloads,
         AddPayloadRef(n, meta, ref)
  PROVE  Ascending'
<1> DEFINE start == StartFile(n, meta)
           item == PayloadRef(ref.offset, ref.content)
           full == SeqWrite(start, item)
           c == [at |-> start.out.len, item |-> item]
<1>1. /\ state # <<>> /\ ~file.open /\ Top.encode_error = "none"
      /\ Check /\ promised = <<>> /\ IInv /\ Split
      /\ UNCHANGED <<payload, file, phase, result>>
      /\ \/ EntryAdded(n, full) /\ promised' = <<ref>>
         \/ CallFails(full) /\ UNCHANGED promised
  BY DEF AddPayloadRef, Check, Usable, OInv
<1>2. /\ ref.offset = payload.len /\ ref.content \in Nat /\ ItemOK(item)
      /\ payload.len \in Nat
  BY <1>1, RefIsNext, DueIsNat
<1>3. /\ RefsOf(start.out) = RefsOf(archive)
      /\ start.out.len \in Nat /\ archive.len <= start.out.len
  BY <1>1, StartFileRefs
<1>4. /\ c.at = start.out.len /\ c.item.offset = payload.len
      /\ c.item.content = ref.content /\ c.item.htype = "PAYLOAD_REF"
      /\ item.htype = "PAYLOAD_REF"
  BY <1>2 DEF PayloadRef
<1>5. RefsOf(full.out) = RefsOf(archive) \cup {c}
  <2>1. full.out = Append1(start.out, item)
    BY WriterOut
  <2> HIDE DEF start, item, full
  <2> QED BY <1>3, <1>4, <2>1, RefsAppend
<1>6. CASE EntryAdded(n, full) /\ promised' = <<ref>>
  <2>1. PICK t : SetTop(t) /\ archive' = full.out
    BY <1>6 DEF EntryAdded
  <2>2. ErrorsOnTop'
    BY <1>1, <2>1, TopIsReplaced
  <2>3. Due = 0 /\ Due' = HeaderSize + ref.content
    BY <1>1, <1>6 DEF Due
  <2>4. /\ RefEnd(c) = payload.len + HeaderSize + ref.content
    BY <1>4 DEF RefEnd
  <2> HIDE DEF c, full
  <2>5. payload'.len \in Nat /\ Due' \in Nat /\ RefEnd(c) <= payload'.len + Due'
    BY <1>1, <1>2, <2>3, <2>4 DEF HeaderSize
  <2> QED BY <1>1, <1>2, <1>3, <1>4, <1>5, <2>1, <2>2, <2>3, <2>5, RefJoins
<1>7. CASE CallFails(full) /\ UNCHANGED promised
  <2>1. PICK cut \in Interrupted(ArchiveWriter, full) :
          archive' = cut.out /\ SetTop(At(Top, cut.position))
    BY <1>7 DEF CallFails
  <2>2. cut.out.cells \subseteq start.out.cells
    <3>1. IsWriter(ArchiveWriter) /\ IsWriter(start)
      BY <1>1, TopOK, StartFileOK DEF Extends
    <3> HIDE DEF start, item
    <3> QED BY <1>2, <2>1, <3>1, CutLosesLast
  <2>3. RefsOf(archive') \subseteq RefsOf(archive)
    <3>1. RefsOf(archive') \subseteq RefsOf(start.out)
      BY <2>1, <2>2 DEF RefsOf, CellsOf
    <3> QED BY <1>3, <3>1
  <2>4. Due' = Due
    BY <1>1, <1>7 DEF Due
  <2>5. payload.len + Due <= payload'.len + Due'
    BY <1>1, <2>4, DueIsNat
  <2> QED BY <1>1, <2>1, <2>3, <2>5, TopStepAscends
<1> QED BY <1>1, <1>6, <1>7

LEMMA AdvanceAscends ==
  ASSUME OInv, IInv', Ascending, Advance
  PROVE  Ascending'
<1> DEFINE k == promised[1].content
           h == SeqWrite(PayloadWriter, Payload(k))
           p == SeqWriteData(h, k)
           t == PayloadAt(Top, p.position)
<1>1. /\ state # <<>> /\ ~file.open /\ promised # <<>> /\ IInv
      /\ SetTop(t) /\ payload' = p.out /\ archive' = archive
      /\ promised' = <<>> /\ file' = file
  BY DEF Advance, Usable, OInv
<1>2. k \in Nat /\ payload.len \in Nat
  <2>1. promised \in Seq(PayloadRefs)
    BY <1>1 DEF IInv, TypeOK
  <2>2. promised[1] \in PayloadRefs
    BY <1>1, <2>1
  <2> QED BY <1>1, <2>2, DueIsNat, EncoderAssumption DEF PayloadRefs
<1>3. Due = HeaderSize + k /\ Due' = 0
  BY <1>1 DEF Due
<1> HIDE DEF k
<1>4. h.out.len = payload.len + HeaderSize
  BY SeqWriteCells DEF PayloadWriter, Payload
<1> HIDE DEF h
<1>5. p.out.len = payload.len + HeaderSize + k
  <2>1. CASE k = 0
    BY <1>2, <1>4, <2>1 DEF SeqWriteData, HeaderSize
  <2>2. CASE k # 0
    BY <1>2, <1>4, <2>2, SeqWriteCells DEF SeqWriteData, HeaderSize, Data
  <2> QED BY <2>1, <2>2
<1> HIDE DEF p
<1>6. t.encode_error = Top.encode_error
  BY <1>1, TopOK, ErrorFields DEF DirOK
<1> HIDE DEF t
<1>7. payload.len + Due <= payload'.len + Due'
  BY <1>1, <1>2, <1>3, <1>5 DEF HeaderSize
<1> QED BY <1>1, <1>6, <1>7, TopStepAscends

LEMMA CreateDirectoryAscends ==
  ASSUME OInv, IInv', Ascending, NEW n \in Names, NEW meta \in Metas,
         CreateDirectory(n, meta)
  PROVE  Ascending'
<1>1. /\ Check /\ state # <<>> /\ Top.encode_error = "none" /\ IInv
      /\ UNCHANGED <<payload, file, promised>>
  BY DEF CreateDirectory, Check, Usable, OInv
<1>2. RefsOf(StartFile(n, meta).out) = RefsOf(archive)
  BY <1>1, StartFileRefs
<1>3. CASE CallFails(StartFile(n, meta))
  BY <1>1, <1>2, <1>3, CallAscends
<1>4. CASE ~CallFails(StartFile(n, meta))
  <2>1. /\ Depth \in Nat \ {0} /\ Depth' = Depth + 1
        /\ archive' = StartFile(n, meta).out
        /\ Top'.encode_error = "none"
        /\ \A d \in 1..Depth - 1 : state'[d] = state[d]
        /\ state'[Depth].encode_error = "none"
    BY <1>1, <1>4, DirectoryOpens
  <2>2. ErrorsOnTop'
    BY <2>1 DEF ErrorsOnTop, Ascending
  <2>3. Due' = Due
    BY <1>1 DEF Due
  <2>4. payload.len + Due <= payload'.len + Due'
    BY <1>1, <2>3, DueIsNat
  <2> QED BY <1>1, <1>2, <2>1, <2>2, <2>4, RefsStay
<1> QED BY <1>3, <1>4

LEMMA FinishAscends ==
  ASSUME OInv, IInv', Ascending, Finish
  PROVE  Ascending'
<1>1. /\ state # <<>> /\ IInv
      /\ UNCHANGED <<payload, file, promised>>
  BY DEF Finish, Usable, OInv
<1>2. PICK p \in SortedOrders(Top.items) :
        LET w == SeqWrite(ArchiveWriter, GoodbyeTable(Top, p)) IN
        /\ archive' = w.out
        /\ Depth = 1 => state' = <<>>
        /\ Depth # 1 =>
             /\ Depth - 1 \in Nat \ {0}
             /\ Depth' = Depth - 1
             /\ \A d \in 1..Depth - 2 : state'[d] = state[d]
             /\ Top'.encode_error =
                  IF state[Depth - 1].encode_error = "none"
                    THEN Top.encode_error
                    ELSE state[Depth - 1].encode_error
  BY <1>1, DirectoryCloses
<1>3. RefsOf(archive') = RefsOf(archive)
  <2>1. archive' = Append1(archive, GoodbyeTable(Top, p))
    BY <1>2, WriterOut DEF ArchiveWriter
  <2> QED BY <2>1, RefsAppend DEF GoodbyeTable, Goodbye
<1>4. Due' = Due
  BY <1>1 DEF Due
<1>5. payload.len + Due <= payload'.len + Due'
  BY <1>1, <1>4, DueIsNat
<1>6. Depth \in Nat \ {0}
  BY <1>1, TopOK
<1>7. CASE Depth = 1
  <2>1. state' = <<>> /\ Depth' = 0
    BY <1>2, <1>7 DEF Depth
  <2>2. ErrorsOnTop'
    BY <2>1 DEF ErrorsOnTop
  <2> QED BY <1>1, <1>3, <2>1, <2>2, RefsStay
<1>8. CASE Depth # 1
  <2>1. Depth - 1 \in 1..Depth - 1
    BY <1>6, <1>8
  <2>2. Top'.encode_error = Top.encode_error
    BY <1>2, <1>8, <2>1 DEF Ascending, ErrorsOnTop
  <2>3. ErrorsOnTop'
    BY <1>2, <1>6, <1>8 DEF ErrorsOnTop, Ascending
  <2> QED BY <1>1, <1>3, <1>5, <2>2, <2>3, RefsStay
<1> QED BY <1>7, <1>8

LEMMA NewAscends ==
  ASSUME IInv, IInv', Ascending,
         NEW meta \in Metas, NEW prelude \in Preludes, New(meta, prelude)
  PROVE  Ascending'
<1>1. Bare(archive') /\ Depth' = 1
  BY NewIsBare
<1>2. RefsOf(archive') = {}
  BY <1>1 DEF Bare, RefsOf, CellsOf
<1>3. RefsInOrder' /\ RefsBehind' /\ ErrorsOnTop'
  BY <1>1, <1>2 DEF RefsInOrder, RefsBehind, ErrorsOnTop
<1> QED BY <1>2, <1>3 DEF Ascending

LEMMA NextAscends ==
  ASSUME OInv, IInv', "finish" \notin faults', ~(Split /\ TokioIo),
         Ascending, [Next]_vars
  PROVE  Ascending'
<1>1. "finish" \notin faults /\ IInv
  BY FaultsGrow DEF OInv
<1>2. ASSUME NEW meta \in Metas, NEW prelude \in Preludes, New(meta, prelude)
      PROVE  Ascending'
  BY <1>1, <1>2, NewAscends
<1>3. \A kind : MetasOf(kind) \subseteq Metas
  BY DEF MetasOf
<1>4. CASE FileCalls
  BY <1>1, <1>3, <1>4, CreateFileAscends, CreateFileFailsAscends,
     AddFileAscends DEF FileCalls
<1>5. CASE WriteCalls
  BY <1>1, <1>5, WritesAscend, DropFileAscends DEF WriteCalls
<1>6. CASE RefCalls
  BY <1>1, <1>3, <1>6, AdvanceAscends, AddPayloadRefAscends DEF RefCalls
<1>7. CASE EntryCalls
  BY <1>3, <1>7, AddEntryAscends, AddHardlinkAscends, CreateDirectoryAscends
     DEF EntryCalls
<1>8. CASE Finish
  BY <1>8, FinishAscends
<1>9. CASE FinishFails
  BY <1>9 DEF FinishFails, Fail
<1>10. CASE Close
  <2>1. state' = <<>> /\ archive' = archive
    BY <1>10 DEF Close
  <2>2. /\ RefsInOrder' /\ RefsBehind' /\ ErrorsOnTop'
        /\ RefsOf(archive') = RefsOf(archive)
    BY <2>1 DEF Ascending, RefsInOrder, RefsBehind, ErrorsOnTop, Depth
  <2> QED BY <2>2 DEF Ascending
<1>11. CASE UNCHANGED vars
  <2>1. UNCHANGED <<archive, payload, state, file, promised>>
    BY <1>11 DEF vars
  <2>2. Depth' = Depth /\ Top' = Top /\ Due' = Due
    BY <2>1 DEF Depth, Top, Due
  <2> QED BY <2>1, <2>2
          DEF Ascending, RefsInOrder, RefsBehind, ErrorsOnTop
<1> QED BY <1>2, <1>4, <1>5, <1>6, <1>7, <1>8, <1>9, <1>10, <1>11
        DEF Next, Terminated

(* Of two references the one that is met first ends before the other begins, *)
(* however create_file, add_file and add_payload_ref are mixed and whichever *)
(* of them fail.                                                           *)
THEOREM RefsAscend ==
  ASSUME ~(Split /\ TokioIo)
  PROVE  Spec => []PayloadRefsAscend
<1>1. Init => RInv
  <2> SUFFICES ASSUME Init PROVE RInv
    OBVIOUS
  <2>1. archive.cells = {} /\ state = <<>>
    BY DEF Init, EmptyStream
  <2>2. RefsOf(archive) = {} /\ Depth = 0
    BY <2>1 DEF RefsOf, CellsOf, Depth
  <2>3. Ascending
    BY <2>1, <2>2 DEF Ascending, RefsInOrder, RefsBehind, ErrorsOnTop
  <2> QED BY <2>3, InitLeads DEF RInv
<1>2. RInv /\ [Next]_vars => RInv'
  <2> SUFFICES ASSUME RInv, [Next]_vars
               PROVE  RInv'
    OBVIOUS
  <2>1. OInv /\ OInv' /\ IInv'
    BY NextKeeps, NextLeads DEF RInv, OInv
  <2>2. ASSUME "finish" \notin faults'
        PROVE  Ascending'
    <3>1. Ascending
      BY <2>2, FaultsGrow DEF RInv
    <3> QED BY <2>1, <2>2, <3>1, NextAscends
  <2> QED BY <2>1, <2>2 DEF RInv
<1>3. RInv => PayloadRefsAscend
  BY DEF RInv, Ascending, RefsInOrder, RefsOf, RefEnd, PayloadRefsAscend
<1> QED BY <1>1, <1>2, <1>3, PTL DEF Spec
=============================================================================
