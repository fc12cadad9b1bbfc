--------------------------- MODULE RoundTripProofs --------------------------
(***************************************************************************)
(* Theorems about the decoder reading what the encoder wrote, for every     *)
(* choice of names, metadata, sizes, reads, failures and losses.            *)
(*                                                                         *)
(* First what holds of any streams (RoundTripInv).  Then what holds of an   *)
(* archive whose finish() said Ok: Intact collects what the encoder's       *)
(* theorems say of it, and Follows, which is inductive, where the decoder   *)
(* is in it: the thing it has to deal with next is the FILENAME or the      *)
(* table at some offset q, the directories around q are those it remembers, *)
(* and the names before q are those it has returned.                        *)
(***************************************************************************)
EXTENDS RoundTrip, EncoderExtentsProofs

(* What reading needs of a stream, whether it is whole or lost its end.      *)
Readable(s) ==
  /\ s.len \in Nat
  /\ \A c \in s.cells : c.at \in Nat /\ ItemOK(c.item)

InputsOK == Readable(input) /\ Readable(payload_input)

(* The payload input stands where payload_consumed says; in the middle of    *)
(* contents, where it says but for what was read of them.                   *)
AtConsumed(d) == PayloadInput => d.payload_pos = d.payload_consumed

Balanced(d) ==
  PayloadInput =>
    d.payload_pos =
      d.payload_consumed
        + (IF d.state = "InPayload" THEN d.contents.offset ELSE 0)

Ready(d) == DecoderOK(d) /\ AtConsumed(d)

(* How a turn leaves the decoder: nothing is read of new contents yet.       *)
Fresh(d) ==
  Ready(d) /\ (d.state = "InPayload" => d.contents.offset = 0)

LEMMA FreshIsBalanced ==
  ASSUME NEW d, Fresh(d)
  PROVE  DecoderOK(d) /\ Balanced(d)
  BY DEF Fresh, Ready, AtConsumed, Balanced, DecoderOK, Decoders

LEMMA BalancedIsReady ==
  ASSUME NEW d, DecoderOK(d), Balanced(d), d.state # "InPayload"
  PROVE  Ready(d) /\ Fresh(d)
  BY DEF Fresh, Ready, AtConsumed, Balanced, DecoderOK, Decoders

-----------------------------------------------------------------------------
(***************************************************************************)
(* Items.                                                                  *)
(***************************************************************************)
LEMMA ItemsAreInput ==
  ASSUME InputsOK, NEW d, NEW htypes, "DATA" \notin htypes,
         NEW item \in Headers(d, htypes)
  PROVE  /\ ItemOK(item) /\ item.htype \in htypes
         /\ item \in CurrentHeaders
         /\ item.size \in Nat /\ item.size >= HeaderSize
         /\ d.pos + HeaderSize <= input.len
<1>1. /\ item.htype \in htypes /\ item \in ItemsAt(d)
      /\ d.pos + HeaderSize <= input.len
  BY DEF Headers
<1>2. PICK c \in input.cells : item = c.item
  BY <1>1 DEF ItemsAt
<1>3. ItemOK(item)
  BY <1>2 DEF InputsOK, Readable
<1>4. item.htype # "DATA"
  BY <1>1
<1>5. item \in CurrentHeaders
  BY <1>2, <1>4 DEF CurrentHeaders
<1> QED BY <1>1, <1>3, <1>4, <1>5 DEF ItemOK

LEMMA ContentSizeOK ==
  ASSUME InputsOK, NEW item \in CurrentHeaders
  PROVE  ContentSize(item) \in Nat
<1>1. CASE item = Marker("ZEROED")
  BY <1>1 DEF ContentSize, Marker, HeaderSize
<1>2. CASE item # Marker("ZEROED")
  <2>1. ItemOK(item) /\ item.htype # "DATA"
    BY <1>2 DEF CurrentHeaders, InputsOK, Readable
  <2>2. FileSizes \subseteq Nat
    BY EncoderAssumption
  <2>3. CASE item.htype = "PAYLOAD"
    BY <2>1, <2>2, <2>3 DEF ItemOK, ContentSize
  <2>4. CASE item.htype # "PAYLOAD"
    BY <2>1, <2>4 DEF ItemOK, ContentSize, HeaderSize
  <2> QED BY <2>3, <2>4
<1> QED BY <1>1, <1>2

-----------------------------------------------------------------------------
(***************************************************************************)
(* What one operation of the decoder preserves.                            *)
(***************************************************************************)
LEMMA LoadOK ==
  ASSUME InputsOK, NEW d, Ready(d), NEW item \in CurrentHeaders,
         d.pos + HeaderSize <= input.len
  PROVE  Ready(Load(d, item)) /\ Load(d, item).state = d.state
<1> DEFINE x == Load(d, item)
           p == d.pos + HeaderSize
<1>1. d \in Decoders /\ p \in Nat /\ x = [d EXCEPT !.header = item, !.pos = p]
  BY DEF Ready, DecoderOK, Decoders, Load, HeaderSize
<1> HIDE DEF p, x
<1>2. /\ x \in Decoders
      /\ x.pos = p /\ x.payload_pos = d.payload_pos
      /\ x.payload_consumed = d.payload_consumed
      /\ x.contents = d.contents /\ x.state = d.state
      /\ x.path = d.path /\ x.path_lengths = d.path_lengths
  BY <1>1 DEF Decoders
<1> QED BY <1>2 DEF Ready, DecoderOK, LengthsOK, AtConsumed, p, x

LEMMA ReadItemOK ==
  ASSUME InputsOK, NEW d, Fresh(d), NEW item \in CurrentHeaders,
         item.size \in Nat, d.pos + item.size <= input.len
  PROVE  Fresh(ReadItem(d, item)) /\ ReadItem(d, item).state = d.state
<1> DEFINE x == ReadItem(d, item)
           p == d.pos + item.size
<1>1. d \in Decoders /\ p \in Nat /\ x = [d EXCEPT !.header = item, !.pos = p]
  BY DEF Fresh, Ready, DecoderOK, Decoders, ReadItem
<1> HIDE DEF p, x
<1>2. /\ x \in Decoders
      /\ x.pos = p /\ x.payload_pos = d.payload_pos
      /\ x.payload_consumed = d.payload_consumed
      /\ x.contents = d.contents /\ x.state = d.state
      /\ x.path = d.path /\ x.path_lengths = d.path_lengths
  BY <1>1 DEF Decoders
<1> QED BY <1>2 DEF Fresh, Ready, DecoderOK, LengthsOK, AtConsumed, p, x

LEMMA EnterOK ==
  ASSUME NEW d, Ready(d), NEW s \in States \ {"InPayload"}
  PROVE  Fresh(Enter(d, s)) /\ Enter(d, s).state = s
<1> DEFINE x == Enter(d, s)
<1>1. /\ x \in Decoders
      /\ x.pos = d.pos /\ x.payload_pos = d.payload_pos
      /\ x.payload_consumed = d.payload_consumed
      /\ x.contents = d.contents /\ x.state = s
      /\ x.path = d.path /\ x.path_lengths = d.path_lengths
  BY DEF Ready, DecoderOK, Enter, Decoders
<1> HIDE DEF x
<1> QED BY <1>1 DEF Fresh, Ready, DecoderOK, LengthsOK, AtConsumed, x

LEMMA EnterContentsOK ==
  ASSUME NEW d, Ready(d), NEW size \in Nat
  PROVE  Fresh(EnterContents(d, size))
<1> DEFINE x == EnterContents(d, size)
           c == [NoContents EXCEPT !.size = size]
<1>1. c \in ContentsFields /\ c.offset = 0 /\ c.size = size
  BY DEF ContentsFields, NoContents
<1>2. "InPayload" \in States /\ d \in Decoders
  BY DEF States, Ready, DecoderOK
<1>3. x = [d EXCEPT !.state = "InPayload", !.contents = c]
  BY DEF EnterContents
<1> HIDE DEF c
<1>4. /\ x \in Decoders
      /\ x.pos = d.pos /\ x.payload_pos = d.payload_pos
      /\ x.payload_consumed = d.payload_consumed
      /\ x.contents = c
      /\ x.path = d.path /\ x.path_lengths = d.path_lengths
  BY <1>1, <1>2, <1>3 DEF Decoders
<1> HIDE DEF x
<1> QED BY <1>1, <1>4 DEF Fresh, Ready, DecoderOK, LengthsOK, AtConsumed, x

LEMMA SkipOK ==
  ASSUME NEW d, Ready(d), NEW len \in Nat, NEW x \in Skip(d, len)
  PROVE  Ready(x) /\ x.state = d.state /\ x.header = d.header
                  /\ x.path_lengths = d.path_lengths
<1> DEFINE p == d.pos + len
<1>1. d \in Decoders /\ p \in Nat
  BY DEF Ready, DecoderOK, Decoders
<1>2. x = [d EXCEPT !.pos = p] /\ p <= input.len
  BY DEF Skip
<1> HIDE DEF p
<1>3. /\ x \in Decoders
      /\ x.pos = p /\ x.payload_pos = d.payload_pos
      /\ x.payload_consumed = d.payload_consumed
      /\ x.contents = d.contents /\ x.state = d.state
      /\ x.header = d.header
      /\ x.path = d.path /\ x.path_lengths = d.path_lengths
  BY <1>1, <1>2 DEF Decoders
<1> QED BY <1>2, <1>3 DEF Ready, DecoderOK, LengthsOK, AtConsumed

(* Reading up to an offset is what makes the input stand there: exactly       *)
(* because it stood where payload_consumed said.                            *)
LEMMA ToPayloadOK ==
  ASSUME NEW d, Ready(d), NEW offset \in Nat, NEW x \in ToPayload(d, offset)
  PROVE  Ready(x)
<1>1. CASE ~PayloadInput
  BY <1>1 DEF ToPayload
<1>2. CASE PayloadInput
  <2>1. /\ x = [d EXCEPT !.payload_pos = @ + (offset - d.payload_consumed),
                         !.payload_consumed = offset]
        /\ offset >= d.payload_consumed
        /\ x.payload_pos <= payload_input.len
    BY <1>2 DEF ToPayload
  <2>2. /\ d \in Decoders /\ d.payload_pos \in Nat
        /\ d.payload_consumed \in Nat /\ d.payload_pos = d.payload_consumed
    BY <1>2 DEF Ready, DecoderOK, Decoders, AtConsumed
  <2>3. d.payload_pos + (offset - d.payload_consumed) = offset
    BY <2>2
  <2>4. x = [d EXCEPT !.payload_pos = offset, !.payload_consumed = offset]
    BY <2>1, <2>3
  <2>5. /\ x \in Decoders
        /\ x.pos = d.pos /\ x.payload_pos = offset
        /\ x.payload_consumed = offset
        /\ x.contents = d.contents
        /\ x.path = d.path /\ x.path_lengths = d.path_lengths
    BY <2>2, <2>4 DEF Decoders
  <2> QED BY <2>1, <2>5 DEF Ready, DecoderOK, LengthsOK, AtConsumed
<1> QED BY <1>1, <1>2

-----------------------------------------------------------------------------
(***************************************************************************)
(* The path.                                                               *)
(***************************************************************************)

(* Entering a directory remembers its path.                                  *)
LEMMA RememberOK ==
  ASSUME NEW d, Fresh(d)
  PROVE  Fresh([d EXCEPT !.path_lengths = Append(@, Len(d.path))])
<1> DEFINE l == d.path_lengths
           n == Len(d.path)
           x == [d EXCEPT !.path_lengths = Append(@, n)]
<1>1. /\ d \in Decoders /\ l \in Seq(Nat) /\ n \in Nat /\ Len(l) \in Nat
  BY DEF Fresh, Ready, DecoderOK, Decoders
<1>2. /\ Append(l, n) \in Seq(Nat)
      /\ Len(Append(l, n)) = Len(l) + 1
      /\ \A i \in 1..Len(l) : Append(l, n)[i] = l[i]
      /\ Append(l, n)[Len(l) + 1] = n
  BY <1>1
<1>3. /\ x \in Decoders
      /\ x.path_lengths = Append(l, n)
      /\ x.path = d.path
      /\ x.pos = d.pos /\ x.payload_pos = d.payload_pos
      /\ x.payload_consumed = d.payload_consumed
      /\ x.contents = d.contents /\ x.state = d.state
  BY <1>1, <1>2 DEF Decoders
<1> HIDE DEF x
<1>4. LengthsOK(x)
  <2>1. /\ \A i, j \in 1..Len(l) : i <= j => l[i] <= l[j]
        /\ \A i \in 1..Len(l) : l[i] <= n
    BY DEF Fresh, Ready, DecoderOK, LengthsOK
  <2> HIDE DEF l, n
  <2>2. ASSUME NEW i \in 1..Len(l) + 1, NEW j \in 1..Len(l) + 1, i <= j
        PROVE  Append(l, n)[i] <= Append(l, n)[j]
    <3>1. CASE j \in 1..Len(l)
      <4>1. i \in 1..Len(l)
        BY <1>1, <2>2, <3>1
      <4> QED BY <1>2, <2>1, <2>2, <3>1, <4>1
    <3>2. CASE j = Len(l) + 1 /\ i \in 1..Len(l)
      BY <1>2, <2>1, <3>2
    <3>3. CASE j = Len(l) + 1 /\ i = Len(l) + 1
      BY <1>1, <1>2, <3>3
    <3> QED BY <1>1, <3>1, <3>2, <3>3
  <2>3. ASSUME NEW i \in 1..Len(l) + 1
        PROVE  Append(l, n)[i] <= n
    BY <1>1, <1>2, <2>1
  <2> QED BY <1>2, <1>3, <2>2, <2>3 DEF LengthsOK, n
<1> QED BY <1>3, <1>4 DEF Fresh, Ready, DecoderOK, AtConsumed, x

(* reset_path and set_path.                                                  *)
LEMMA SetPathOK ==
  ASSUME NEW d, Ready(d), NEW name \in Names, NEW x \in SetPath(d, name)
  PROVE  Ready(x) /\ x.state = d.state
<1> DEFINE l == d.path_lengths
           last == l[Len(l)]
           p == Append(SubSeq(d.path, 1, last), name)
<1>1. d.path_lengths # <<>> /\ x = [d EXCEPT !.path = p]
  BY DEF SetPath
<1>2. /\ d \in Decoders /\ l \in Seq(Nat) /\ d.path \in Seq(Names)
      /\ Len(l) \in Nat \ {0} /\ last \in Nat
  BY <1>1 DEF Ready, DecoderOK, Decoders
<1>3. /\ \A i, j \in 1..Len(l) : i <= j => l[i] <= l[j]
      /\ \A i \in 1..Len(l) : l[i] <= Len(d.path)
  BY DEF Ready, DecoderOK, LengthsOK
<1>4. last <= Len(d.path)
  BY <1>2, <1>3
<1>5. /\ p \in Seq(Names) /\ Len(p) = last + 1
  <2> HIDE DEF last
  <2>1. /\ SubSeq(d.path, 1, last) \in Seq(Names)
        /\ Len(SubSeq(d.path, 1, last)) = last
    BY <1>2, <1>4, FrontOfSeq
  <2> QED BY <2>1
<1> HIDE DEF p
<1>6. /\ x \in Decoders
      /\ x.path_lengths = l
      /\ x.path = p
      /\ x.pos = d.pos /\ x.payload_pos = d.payload_pos
      /\ x.payload_consumed = d.payload_consumed
      /\ x.contents = d.contents /\ x.state = d.state
  BY <1>1, <1>2, <1>5 DEF Decoders
<1>7. LengthsOK(x)
  <2>1. ASSUME NEW i \in 1..Len(l)
        PROVE  l[i] <= Len(p)
    <3>1. l[i] <= last /\ l[i] \in Nat
      BY <1>2, <1>3
    <3> QED BY <1>2, <1>5, <3>1
  <2> QED BY <1>3, <1>6, <2>1 DEF LengthsOK
<1> QED BY <1>6, <1>7 DEF Ready, DecoderOK, AtConsumed

LEMMA LeaveDirectoryOK ==
  ASSUME NEW d, Ready(d), d.path_lengths # <<>>
  PROVE  Fresh(LeaveDirectory(d))
<1> DEFINE l == d.path_lengths
           r == SubSeq(l, 1, Len(l) - 1)
           s == IF r = <<>> THEN "Eof" ELSE "Default"
           x == LeaveDirectory(d)
<1>1. /\ d \in Decoders /\ l \in Seq(Nat) /\ Len(l) \in Nat \ {0}
  BY DEF Ready, DecoderOK, Decoders
<1>2. /\ r \in Seq(Nat) /\ Len(r) = Len(l) - 1
      /\ \A i \in 1..Len(r) : r[i] = l[i] /\ i \in 1..Len(l)
  <2>1. Len(l) - 1 \in Nat /\ Len(l) - 1 <= Len(l)
    BY <1>1
  <2> QED BY <1>1, <2>1, FrontOfSeq
<1>3. s \in States /\ s # "InPayload"
  BY DEF States
<1>4. x = [d EXCEPT !.path_lengths = r, !.state = s]
  BY DEF LeaveDirectory
<1> HIDE DEF r, s, x
<1>5. /\ x \in Decoders
      /\ x.path_lengths = r
      /\ x.path = d.path
      /\ x.pos = d.pos /\ x.payload_pos = d.payload_pos
      /\ x.payload_consumed = d.payload_consumed
      /\ x.contents = d.contents /\ x.state = s
  BY <1>1, <1>2, <1>3, <1>4 DEF Decoders
<1>6. LengthsOK(x)
  BY <1>2, <1>5 DEF LengthsOK, Ready, DecoderOK
<1> QED BY <1>3, <1>5, <1>6 DEF Fresh, Ready, DecoderOK, AtConsumed, x

-----------------------------------------------------------------------------
(***************************************************************************)
(* Reading entries.                                                        *)
(***************************************************************************)
FreshOutcome(o) == o = Outcome(o.decoder, o.entry) /\ Fresh(o.decoder)

LEMMA OutcomeFields ==
  ASSUME NEW d, NEW entry, Fresh(d)
  PROVE  FreshOutcome(Outcome(d, entry))
  BY DEF FreshOutcome, Outcome

(* read_current_item, for an item that ends the entry.                       *)
LEMMA EndEntryOK ==
  ASSUME InputsOK, NEW d, Fresh(d), NEW kind, NEW o \in EndEntry(d, kind)
  PROVE  FreshOutcome(o)
<1> USE DEF Items
<1>1. Ready(d)
  BY DEF Fresh
<1>2. CASE o \in EndSymlink(d) \cup EndDevice(d)
  <2>1. PICK item \in Headers(d, {"SYMLINK", "DEVICE"}) :
          /\ d.pos + item.size <= input.len
          /\ \/ o = Outcome(ReadItem(d, item), EntryAt(d, "Symlink"))
             \/ o = Outcome(ReadItem(d, item), EntryAt(d, "Device"))
    BY <1>2 DEF EndSymlink, EndDevice, Headers
  <2>2. item \in CurrentHeaders /\ item.size \in Nat
    BY ItemsAreInput
  <2> QED BY <2>1, <2>2, ReadItemOK, OutcomeFields
<1>3. CASE o \in EndFile(d)
  <2>1. PICK item \in Headers(d, {"PAYLOAD"}) :
          o = Outcome(EnterContents(Load(d, item), item.content),
                      FileEntry(d, item, <<>>))
    BY <1>3 DEF EndFile
  <2>2. /\ item \in CurrentHeaders /\ d.pos + HeaderSize <= input.len
        /\ item.content \in Nat
    <3>1. FileSizes \subseteq Nat
      BY EncoderAssumption
    <3>2. /\ ItemOK(item) /\ item.htype = "PAYLOAD"
          /\ item \in CurrentHeaders /\ d.pos + HeaderSize <= input.len
      BY ItemsAreInput
    <3> QED BY <3>1, <3>2 DEF ItemOK
  <2>3. Ready(Load(d, item))
    BY <1>1, <2>2, LoadOK
  <2> QED BY <2>1, <2>2, <2>3, EnterContentsOK, OutcomeFields
<1>4. CASE o \in EndFileRef(d)
  <2>1. PICK item \in Headers(d, {"PAYLOAD_REF"}) :
          /\ d.pos + item.size <= input.len
          /\ \E x \in ToPayload(ReadItem(d, item), item.offset) :
               o = Outcome(EnterContents(x, item.content),
                           FileEntry(d, item, <<item.offset>>))
    BY <1>4 DEF EndFileRef
  <2>2. PICK x \in ToPayload(ReadItem(d, item), item.offset) :
          o = Outcome(EnterContents(x, item.content),
                      FileEntry(d, item, <<item.offset>>))
    BY <2>1
  <2>3. /\ item \in CurrentHeaders /\ item.size \in Nat
        /\ item.content \in Nat /\ item.offset \in Nat
    <3>1. FileSizes \subseteq Nat
      BY EncoderAssumption
    <3>2. /\ ItemOK(item) /\ item.htype = "PAYLOAD_REF"
          /\ item \in CurrentHeaders /\ d.pos + HeaderSize <= input.len
      BY ItemsAreInput
    <3> QED BY <3>1, <3>2 DEF ItemOK
  <2>4. Ready(ReadItem(d, item))
    BY <2>1, <2>3, ReadItemOK DEF Fresh
  <2>5. Ready(x)
    BY <2>3, <2>4, ToPayloadOK
  <2> QED BY <2>2, <2>3, <2>5, EnterContentsOK, OutcomeFields
<1>5. CASE o \in EndOther(d, kind)
  <2>1. PICK item \in Headers(d, {"FILENAME", "GOODBYE"}) :
          o = IF kind = "fifo"
                THEN Outcome(Enter(Load(d, item), "InSpecialFile"),
                             EntryAt(d, "Fifo"))
              ELSE IF kind = "socket"
                THEN Outcome(Enter(Load(d, item), "InSpecialFile"),
                             EntryAt(d, "Socket"))
              ELSE Outcome([Enter(Load(d, item), "InDirectory") EXCEPT
                              !.path_lengths = Append(@, Len(d.path))],
                           EntryAt(d, "Directory"))
    BY <1>5 DEF EndOther
  <2>2. Ready(Load(d, item))
    BY <1>1, ItemsAreInput, LoadOK
  <2>3. /\ Fresh(Enter(Load(d, item), "InSpecialFile"))
        /\ Fresh(Enter(Load(d, item), "InDirectory"))
    BY <2>2, EnterOK DEF States
  <2>4. Enter(Load(d, item), "InDirectory").path = d.path
    BY <1>1 DEF Enter, Load, Ready, DecoderOK, Decoders
  <2>5. Fresh([Enter(Load(d, item), "InDirectory") EXCEPT
                 !.path_lengths = Append(@, Len(d.path))])
    BY <2>3, <2>4, RememberOK
  <2> QED BY <2>1, <2>3, <2>5, OutcomeFields
<1> QED BY <1>2, <1>3, <1>4, <1>5 DEF EndEntry

LEMMA ReadNextEntryOK ==
  ASSUME InputsOK, NEW before, Ready(before), NEW o \in ReadNextEntry(before)
  PROVE  FreshOutcome(o)
<1> DEFINE d == Enter(before, "Default")
<1>1. Fresh(d) /\ Ready(d) /\ d.state = "Default"
  BY EnterOK DEF States, Fresh
<1> HIDE DEF d
<1>2. \/ \E item \in Headers(d, {"HARDLINK", "FORMAT_VERSION", "PRELUDE"}),
            kind \in {"Hardlink", "Version", "Prelude"} :
           /\ d.pos + item.size <= input.len
           /\ o = Outcome(ReadItem(d, item), EntryAt(d, kind))
      \/ \E item \in Headers(d, {"ENTRY"}) :
           /\ d.pos + item.size <= input.len
           /\ o \in EndEntry([d EXCEPT !.pos = @ + item.size], item.kind)
  BY DEF ReadNextEntry, Items, Headers, d
<1>3. ASSUME NEW item \in Headers(d, {"HARDLINK", "FORMAT_VERSION", "PRELUDE"}),
             NEW kind, d.pos + item.size <= input.len,
             o = Outcome(ReadItem(d, item), EntryAt(d, kind))
      PROVE  FreshOutcome(o)
  BY <1>1, <1>3, ItemsAreInput, ReadItemOK, OutcomeFields
<1>4. ASSUME NEW item \in Headers(d, {"ENTRY"}),
             d.pos + item.size <= input.len,
             o \in EndEntry([d EXCEPT !.pos = @ + item.size], item.kind)
      PROVE  FreshOutcome(o)
  <2> DEFINE x == [d EXCEPT !.pos = @ + item.size]
  <2>1. item.size \in Nat
    BY ItemsAreInput
  <2>2. x \in Skip(d, item.size)
    BY <1>4 DEF Skip
  <2> HIDE DEF x
  <2>3. Ready(x) /\ x.state = "Default"
    BY <1>1, <2>1, <2>2, SkipOK
  <2>4. Fresh(x)
    BY <2>3 DEF Fresh
  <2> QED BY <1>4, <2>4, EndEntryOK DEF x
<1> QED BY <1>2, <1>3, <1>4

(* Whatever was read of the contents, leaving them settles the decoder.      *)
LEMMA LeaveContentsOK ==
  ASSUME InputsOK, NEW d, DecoderOK(d), Balanced(d), d.state = "InPayload",
         NEW x \in LeaveContents(d)
  PROVE  Ready(x)
<1>1. CASE PayloadInput
  <2> DEFINE n == d.payload_consumed + d.contents.offset
  <2>1. /\ d \in Decoders /\ n \in Nat /\ d.payload_pos = n
    BY <1>1 DEF DecoderOK, Decoders, ContentsFields, Balanced
  <2>2. x = [d EXCEPT !.payload_consumed = n]
    BY <1>1 DEF LeaveContents
  <2> HIDE DEF n
  <2>3. /\ x \in Decoders
        /\ x.pos = d.pos /\ x.payload_pos = d.payload_pos
        /\ x.payload_consumed = n
        /\ x.contents = d.contents
        /\ x.path = d.path /\ x.path_lengths = d.path_lengths
    BY <2>1, <2>2 DEF Decoders
  <2> QED BY <2>1, <2>3 DEF Ready, DecoderOK, LengthsOK, AtConsumed
<1>2. CASE ~PayloadInput
  <2> DEFINE n == ContentSize(d.header) - d.contents.offset
  <2>1. d.contents.offset <= ContentSize(d.header) /\ x \in Skip(d, n)
    BY <1>2 DEF LeaveContents
  <2>2. d.header \in CurrentHeaders /\ d.contents.offset \in Nat
    BY DEF DecoderOK, Decoders, ContentsFields
  <2>3. n \in Nat
    BY <2>1, <2>2, ContentSizeOK
  <2>4. Ready(d)
    BY <1>2 DEF Ready, AtConsumed
  <2> HIDE DEF n
  <2> QED BY <2>1, <2>3, <2>4, SkipOK
<1> QED BY <1>1, <1>2

-----------------------------------------------------------------------------
(***************************************************************************)
(* Steps of the decoder.                                                   *)
(***************************************************************************)

(* The inductive invariant: besides the encoder's, the decoder's types and   *)
(* its balance at any time, and that it does nothing before the streams are *)
(* handed over.                                                             *)
ReadingOK == InputsOK /\ DecoderTypeOK /\ Balanced(decoder)

NotBegun == decoder = NewDecoder /\ call = "new"

RoundTripInv == IInv /\ ReadingOK /\ (input = EmptyStream => NotBegun)

StepKeeps == DecoderTypeOK' /\ Balanced(decoder)'

LEMMA BecomesOK ==
  ASSUME Inputs, NEW x, decoder' = x, DecoderOK(x), Balanced(x),
         call' \in {"new", "idle", "next", "ended", "failed"}
  PROVE  StepKeeps
<1>1. input' = input /\ payload_input' = payload_input
  BY DEF Inputs
<1>2. DecoderOK(decoder)'
  BY <1>1 DEF DecoderOK, Decoders, CurrentHeaders, LengthsOK
<1> QED BY <1>2 DEF StepKeeps, DecoderTypeOK, Balanced

LEMMA UnchangedOK ==
  ASSUME ReadingOK, Inputs, decoder' = decoder,
         call' \in {"new", "idle", "next", "ended", "failed"}
  PROVE  StepKeeps
  BY BecomesOK DEF ReadingOK, DecoderTypeOK

LEMMA ReturnOrFailOK ==
  ASSUME ReadingOK, Inputs, NEW outcomes,
         \A o \in outcomes : FreshOutcome(o), ReturnOrFail(outcomes)
  PROVE  StepKeeps
<1>1. CASE ReturnError
  BY <1>1, UnchangedOK DEF ReturnError
<1>2. CASE \E o \in outcomes : Return(o.decoder, o.entry)
  <2>1. PICK o \in outcomes : Return(o.decoder, o.entry)
    BY <1>2
  <2>2. decoder' = o.decoder /\ call' = "idle"
    BY <2>1 DEF Return
  <2>3. DecoderOK(o.decoder) /\ Balanced(o.decoder)
    BY FreshIsBalanced DEF FreshOutcome
  <2> QED BY <2>2, <2>3, BecomesOK
<1> QED BY <1>1, <1>2 DEF ReturnOrFail

LEMMA ContinueOK ==
  ASSUME ReadingOK, Inputs, NEW x, Continue(x), DecoderOK(x), Balanced(x)
  PROVE  StepKeeps
  BY BecomesOK DEF Continue, ReadingOK, DecoderTypeOK

LEMMA InNextIsReady ==
  ASSUME ReadingOK, NEW states, InNext(states), "InPayload" \notin states
  PROVE  Ready(decoder)
  BY BalancedIsReady DEF ReadingOK, DecoderTypeOK, InNext

LEMMA ReadFirstEntryKeeps ==
  ASSUME ReadingOK, ReadFirstEntry
  PROVE  StepKeeps
<1>1. /\ InNext({"Begin", "Prelude", "Root"})
      /\ ReturnOrFail(FirstEntries) /\ Inputs
  BY DEF ReadFirstEntry
<1>2. Ready(decoder) /\ InputsOK
  BY <1>1, InNextIsReady DEF ReadingOK
<1>3. ASSUME NEW o \in FirstEntries
      PROVE  FreshOutcome(o)
  <2>1. PICK x \in ReadNextEntry(decoder) :
          \E s : /\ s \in {"Prelude", "Root", x.decoder.state}
                 /\ o = [x EXCEPT !.decoder = Enter(@, s)]
    BY DEF FirstEntries
  <2>2. PICK s : /\ s \in {"Prelude", "Root", x.decoder.state}
                 /\ o = [x EXCEPT !.decoder = Enter(@, s)]
    BY <2>1
  <2>3. x = Outcome(x.decoder, x.entry) /\ Fresh(x.decoder)
    BY <1>2, ReadNextEntryOK DEF FreshOutcome
  <2>4. o = Outcome(Enter(x.decoder, s), x.entry)
    BY <2>2, <2>3 DEF Outcome
  <2>5. Fresh(Enter(x.decoder, s))
    <3>1. CASE s \in {"Prelude", "Root"}
      BY <2>3, <3>1, EnterOK DEF Fresh, States
    <3>2. CASE s = x.decoder.state
      <4>1. Enter(x.decoder, s) = x.decoder
        BY <2>3, <3>2 DEF Enter, Fresh, Ready, DecoderOK, Decoders
      <4> QED BY <2>3, <4>1
    <3> QED BY <2>2, <3>1, <3>2
  <2> QED BY <2>4, <2>5, OutcomeFields
<1> QED BY <1>1, <1>3, ReturnOrFailOK

LEMMA ReadHeaderKeeps ==
  ASSUME ReadingOK, ReadHeader
  PROVE  StepKeeps
<1> DEFINE left == IF decoder.state = "InPayload"
                     THEN LeaveContents(decoder) ELSE {decoder}
<1>1. /\ ContinueOrFail(UNION {ReadNextHeader(d) : d \in left})
      /\ Inputs
  BY DEF ReadHeader
<1>2. \A d \in left : Ready(d)
  BY LeaveContentsOK, BalancedIsReady DEF ReadingOK, DecoderTypeOK
<1> HIDE DEF left
<1>3. CASE ReturnError
  BY <1>1, <1>3, UnchangedOK DEF ReturnError
<1>4. CASE \E x \in UNION {ReadNextHeader(d) : d \in left} : Continue(x)
  <2>1. PICK d \in left : \E x \in ReadNextHeader(d) : Continue(x)
    BY <1>4
  <2>2. PICK item \in Headers(d, {"FILENAME", "GOODBYE"}) :
          Continue(Enter(Load(d, item), "InDirectory"))
    BY <2>1 DEF ReadNextHeader
  <2>3. Ready(Load(d, item))
    BY <1>2, ItemsAreInput, LoadOK DEF ReadingOK
  <2>4. Fresh(Enter(Load(d, item), "InDirectory"))
    BY <2>3, EnterOK DEF States
  <2> QED BY <1>1, <2>2, <2>4, FreshIsBalanced, ContinueOK
<1> QED BY <1>1, <1>3, <1>4 DEF ContinueOrFail

LEMMA HeaderContentSize ==
  ASSUME ReadingOK
  PROVE  /\ ContentSize(decoder.header) \in Nat
         /\ decoder.header.htype = "FILENAME" => decoder.header.name \in Names
<1>1. decoder.header \in CurrentHeaders /\ InputsOK
  BY DEF ReadingOK, DecoderTypeOK, DecoderOK, Decoders
<1>2. CASE decoder.header = Marker("ZEROED")
  BY <1>1, <1>2, ContentSizeOK DEF Marker
<1>3. CASE decoder.header # Marker("ZEROED")
  <2>1. ItemOK(decoder.header)
    BY <1>1, <1>3 DEF CurrentHeaders, InputsOK, Readable
  <2> QED BY <1>1, <2>1, ContentSizeOK DEF ItemOK
<1> QED BY <1>2, <1>3

LEMMA HandleFileEntryKeeps ==
  ASSUME ReadingOK, HandleFileEntry
  PROVE  StepKeeps
<1> DEFINE named == UNION {SetPath(x, decoder.header.name) :
                             x \in Skip(decoder, ContentSize(decoder.header))}
           outcomes == UNION {ReadNextEntry(d) : d \in named}
<1>1. /\ InNext({"InDirectory", "InSpecialFile"})
      /\ decoder.header.htype = "FILENAME"
      /\ ReturnOrFail(outcomes) /\ Inputs
  BY DEF HandleFileEntry
<1>2. Ready(decoder) /\ InputsOK
  BY <1>1, InNextIsReady DEF ReadingOK
<1>3. ASSUME NEW o \in outcomes
      PROVE  FreshOutcome(o)
  <2>1. PICK d \in named : o \in ReadNextEntry(d)
    OBVIOUS
  <2>2. PICK x \in Skip(decoder, ContentSize(decoder.header)) :
          d \in SetPath(x, decoder.header.name)
    OBVIOUS
  <2>3. Ready(x)
    BY <1>2, HeaderContentSize, SkipOK
  <2>4. Ready(d)
    BY <1>1, <2>2, <2>3, HeaderContentSize, SetPathOK
  <2> QED BY <1>2, <2>1, <2>4, ReadNextEntryOK
<1> HIDE DEF outcomes
<1> QED BY <1>1, <1>3, ReturnOrFailOK

LEMMA MeetGoodbyeKeeps ==
  ASSUME ReadingOK, MeetGoodbye
  PROVE  StepKeeps
<1> DEFINE d == Enter(decoder, "InGoodbyeTable")
<1>1. /\ InNext({"InDirectory", "InSpecialFile"}) /\ Inputs
      /\ decoder' = d /\ call' \in {"idle", call}
  BY DEF MeetGoodbye, Return, Continue
<1>2. DecoderOK(d) /\ Balanced(d)
  BY <1>1, InNextIsReady, EnterOK, FreshIsBalanced DEF States
<1> HIDE DEF d
<1> QED BY <1>1, <1>2, BecomesOK DEF ReadingOK, DecoderTypeOK

LEMMA SkipGoodbyeTableKeeps ==
  ASSUME ReadingOK, SkipGoodbyeTable
  PROVE  StepKeeps
<1>1. InNext({"InGoodbyeTable"}) /\ Inputs
  BY DEF SkipGoodbyeTable
<1>2. CASE ReturnError
  BY <1>1, <1>2, UnchangedOK DEF ReturnError
<1>3. CASE ~ReturnError
  <2>1. PICK d \in Skip(decoder, ContentSize(decoder.header)) :
          /\ decoder.path_lengths # <<>>
          /\ decoder' = LeaveDirectory(d)
          /\ call' \in {"ended", call}
    BY <1>3 DEF SkipGoodbyeTable
  <2>2. Ready(d) /\ d.path_lengths # <<>>
    BY <1>1, <2>1, InNextIsReady, HeaderContentSize, SkipOK
  <2>3. DecoderOK(LeaveDirectory(d)) /\ Balanced(LeaveDirectory(d))
    BY <2>2, LeaveDirectoryOK, FreshIsBalanced
  <2> QED BY <1>1, <2>1, <2>3, BecomesOK DEF ReadingOK, DecoderTypeOK
<1> QED BY <1>2, <1>3

LEMMA NewDecoderFields ==
  /\ NewDecoder \in Decoders
  /\ NewDecoder.pos = 0 /\ NewDecoder.payload_pos = 0
  /\ NewDecoder.payload_consumed = 0
  /\ NewDecoder.state = "Begin" /\ NewDecoder.contents = NoContents
  /\ NewDecoder.path = <<>> /\ NewDecoder.path_lengths = <<>>
<1>1. /\ NoContents \in ContentsFields
      /\ "Begin" \in States /\ Marker("ZEROED") \in CurrentHeaders
      /\ <<>> \in Seq(Names) /\ <<>> \in Seq(Nat)
  BY DEF NoContents, ContentsFields, States, CurrentHeaders
<1> QED BY <1>1 DEF NewDecoder, Decoders

LEMMA CreateKeeps ==
  ASSUME ReadingOK, Create
  PROVE  StepKeeps
<1> DEFINE start == IF PayloadInput THEN HeaderSize ELSE 0
           x == [NewDecoder EXCEPT !.payload_pos = start,
                                   !.payload_consumed = start]
<1>1. Inputs
  BY DEF Create
<1>2. CASE ReturnError
  BY <1>1, <1>2, UnchangedOK DEF ReturnError
<1>3. CASE ~ReturnError
  <2>1. /\ decoder' = x /\ call' = "idle"
        /\ PayloadInput => HeaderSize <= payload_input.len
    BY <1>3 DEF Create
  <2>2. /\ start \in Nat /\ start <= payload_input.len
        /\ input.len \in Nat
    BY <2>1 DEF HeaderSize, ReadingOK, InputsOK, Readable
  <2> HIDE DEF start
  <2>3. /\ x \in Decoders
        /\ x.pos = 0 /\ x.payload_pos = start /\ x.payload_consumed = start
        /\ x.state = "Begin" /\ x.contents = NoContents
        /\ x.path = <<>> /\ x.path_lengths = <<>>
    <3> DEFINE n == NewDecoder
    <3>1. /\ n \in Decoders /\ n.pos = 0
          /\ n.state = "Begin" /\ n.contents = NoContents
          /\ n.path = <<>> /\ n.path_lengths = <<>>
      BY NewDecoderFields
    <3>2. x = [n EXCEPT !.payload_pos = start, !.payload_consumed = start]
      OBVIOUS
    <3> HIDE DEF n, x
    <3> QED BY <2>2, <3>1, <3>2 DEF Decoders
  <2> HIDE DEF x
  <2>4. LengthsOK(x)
    BY <2>3 DEF LengthsOK
  <2>5. DecoderOK(x) /\ Balanced(x)
    BY <2>2, <2>3, <2>4 DEF DecoderOK, Balanced, NoContents
  <2> QED BY <1>1, <2>1, <2>5, BecomesOK DEF x
<1> QED BY <1>2, <1>3

LEMMA EnableGoodbyeEntriesKeeps ==
  ASSUME ReadingOK, NEW on \in GoodbyeModes, EnableGoodbyeEntries(on)
  PROVE  StepKeeps
<1> DEFINE x == [decoder EXCEPT !.with_goodbye_tables = on]
<1>1. Inputs /\ decoder' = x /\ call' = call
  BY DEF EnableGoodbyeEntries
<1>2. on \in BOOLEAN
  BY DecoderAssumption
<1>3. DecoderOK(decoder) /\ Balanced(decoder)
  BY DEF ReadingOK, DecoderTypeOK
<1>4. /\ x \in Decoders
      /\ x.pos = decoder.pos /\ x.payload_pos = decoder.payload_pos
      /\ x.payload_consumed = decoder.payload_consumed
      /\ x.contents = decoder.contents /\ x.state = decoder.state
      /\ x.path = decoder.path /\ x.path_lengths = decoder.path_lengths
  BY <1>2, <1>3 DEF DecoderOK, Decoders
<1> HIDE DEF x
<1>5. DecoderOK(x) /\ Balanced(x)
  BY <1>3, <1>4 DEF DecoderOK, LengthsOK, Balanced
<1> QED BY <1>1, <1>5, BecomesOK DEF ReadingOK, DecoderTypeOK

(* The header in front of the contents moves both sides of the balance.      *)
LEMMA ContentReaderKeeps ==
  ASSUME ReadingOK, ContentReader
  PROVE  StepKeeps
<1> DEFINE c == [decoder.contents EXCEPT !.header_checked = TRUE]
           p == decoder.payload_pos + HeaderSize
           n == decoder.payload_consumed + HeaderSize
           x == CheckHeader(decoder)
<1>1. Inputs /\ decoder.state = "InPayload"
  BY DEF ContentReader
<1>2. DecoderOK(decoder) /\ Balanced(decoder) /\ decoder \in Decoders
  BY DEF ReadingOK, DecoderTypeOK, DecoderOK
<1>3. CASE ReturnError
  BY <1>1, <1>3, UnchangedOK DEF ReturnError
<1>4. CASE ~ReturnError
  <2>1. Continue(x) /\ PayloadHeaderFits
    BY <1>4 DEF ContentReader
  <2>2. p <= payload_input.len
    BY <2>1 DEF PayloadHeaderFits
  <2>3. /\ decoder.contents \in ContentsFields
        /\ p \in Nat /\ n \in Nat
        /\ decoder.payload_pos \in Nat /\ decoder.payload_consumed \in Nat
    BY <1>2 DEF Decoders, HeaderSize
  <2>4. /\ c \in ContentsFields
        /\ c.offset = decoder.contents.offset
        /\ c.size = decoder.contents.size
        /\ c.offset \in Nat
    BY <2>3 DEF ContentsFields
  <2>5. x = [decoder EXCEPT !.payload_pos = p, !.payload_consumed = n,
                            !.contents = c]
    BY <1>2 DEF CheckHeader, Decoders
  <2> HIDE DEF c, p, n, x
  <2>6. /\ x \in Decoders
        /\ x.pos = decoder.pos /\ x.payload_pos = p
        /\ x.payload_consumed = n
        /\ x.contents = c /\ x.state = decoder.state
        /\ x.path = decoder.path /\ x.path_lengths = decoder.path_lengths
    BY <1>2, <2>3, <2>4, <2>5 DEF Decoders
  <2>7. DecoderOK(x)
    BY <1>2, <2>2, <2>4, <2>6 DEF DecoderOK, LengthsOK
  <2>8. Balanced(x)
    BY <1>1, <1>2, <2>3, <2>4, <2>6 DEF Balanced, HeaderSize, p, n
  <2> QED BY <1>1, <2>1, <2>7, <2>8, ContinueOK
<1> QED BY <1>3, <1>4

(* So does a read.                                                           *)
LEMMA ReadContentsKeeps ==
  ASSUME ReadingOK, NEW k \in ReadSizes, ReadContents(k)
  PROVE  StepKeeps
<1> DEFINE o == decoder.contents.offset + k
           c == [decoder.contents EXCEPT !.offset = o]
<1>1. /\ Inputs /\ decoder.state = "InPayload" /\ call' = call
      /\ k <= decoder.contents.size - decoder.contents.offset
  BY DEF ReadContents
<1>2. DecoderOK(decoder) /\ Balanced(decoder) /\ decoder \in Decoders
  BY DEF ReadingOK, DecoderTypeOK, DecoderOK
<1>3. k \in Nat
  BY DecoderAssumption
<1>4. /\ decoder.contents \in ContentsFields
      /\ decoder.contents.offset \in Nat /\ decoder.contents.size \in Nat
      /\ decoder.payload_pos \in Nat /\ decoder.payload_consumed \in Nat
      /\ decoder.pos \in Nat
  BY <1>2 DEF Decoders, ContentsFields
<1>5. o \in Nat /\ o <= decoder.contents.size
  BY <1>1, <1>3, <1>4
<1>6. /\ c \in ContentsFields
      /\ c.offset = o /\ c.size = decoder.contents.size
  <2> HIDE DEF o
  <2> QED BY <1>4, <1>5 DEF ContentsFields
<1>7. CASE PayloadInput
  <2> DEFINE p == decoder.payload_pos + k
             x == [decoder EXCEPT !.contents = c, !.payload_pos = p]
  <2>1. decoder' = x /\ p <= payload_input.len
    BY <1>2, <1>7 DEF ReadContents, Decoders
  <2>2. p \in Nat
    BY <1>3, <1>4
  <2> HIDE DEF c, p
  <2>3. /\ x \in Decoders
        /\ x.pos = decoder.pos /\ x.payload_pos = p
        /\ x.payload_consumed = decoder.payload_consumed
        /\ x.contents = c /\ x.state = decoder.state
        /\ x.path = decoder.path /\ x.path_lengths = decoder.path_lengths
    BY <1>2, <1>6, <2>2 DEF Decoders
  <2> HIDE DEF x
  <2>4. DecoderOK(x)
    BY <1>2, <1>5, <1>6, <2>1, <2>3 DEF DecoderOK, LengthsOK
  <2>5. Balanced(x)
    BY <1>1, <1>2, <1>3, <1>4, <1>6, <2>3 DEF Balanced, p
  <2> QED BY <1>1, <2>1, <2>4, <2>5, BecomesOK DEF ReadingOK, DecoderTypeOK
<1>8. CASE ~PayloadInput
  <2> DEFINE p == decoder.pos + k
             x == [decoder EXCEPT !.contents = c, !.pos = p]
  <2>1. decoder' = x /\ p <= input.len
    BY <1>2, <1>8 DEF ReadContents, Decoders
  <2>2. p \in Nat
    BY <1>3, <1>4
  <2> HIDE DEF c, p
  <2>3. /\ x \in Decoders
        /\ x.pos = p /\ x.payload_pos = decoder.payload_pos
        /\ x.contents = c
        /\ x.path = decoder.path /\ x.path_lengths = decoder.path_lengths
    BY <1>2, <1>6, <2>2 DEF Decoders
  <2> HIDE DEF x
  <2>4. DecoderOK(x) /\ Balanced(x)
    BY <1>2, <1>5, <1>6, <1>8, <2>1, <2>3 DEF DecoderOK, LengthsOK, Balanced
  <2> QED BY <1>1, <2>1, <2>4, BecomesOK DEF ReadingOK, DecoderTypeOK
<1> QED BY <1>7, <1>8

LEMMA DecoderNextKeeps ==
  ASSUME ReadingOK, DecoderNext
  PROVE  StepKeeps /\ Inputs
<1>1. CASE AtEnd \/ CallNext
  BY <1>1, UnchangedOK DEF AtEnd, CallNext
<1>2. CASE ReadFirstEntry
  BY <1>2, ReadFirstEntryKeeps DEF ReadFirstEntry
<1>3. CASE ReadHeader
  BY <1>3, ReadHeaderKeeps DEF ReadHeader
<1>4. CASE HandleFileEntry
  BY <1>4, HandleFileEntryKeeps DEF HandleFileEntry
<1>5. CASE MeetGoodbye
  BY <1>5, MeetGoodbyeKeeps DEF MeetGoodbye
<1>6. CASE SkipGoodbyeTable
  BY <1>6, SkipGoodbyeTableKeeps DEF SkipGoodbyeTable
<1>7. CASE Create
  BY <1>7, CreateKeeps DEF Create
<1>8. CASE ContentReader
  BY <1>8, ContentReaderKeeps DEF ContentReader
<1>9. ASSUME NEW on \in GoodbyeModes, EnableGoodbyeEntries(on)
      PROVE  StepKeeps /\ Inputs
  BY <1>9, EnableGoodbyeEntriesKeeps DEF EnableGoodbyeEntries
<1>10. ASSUME NEW k \in ReadSizes, ReadContents(k)
       PROVE  StepKeeps /\ Inputs
  BY <1>10, ReadContentsKeeps DEF ReadContents
<1> QED BY <1>1, <1>2, <1>3, <1>4, <1>5, <1>6, <1>7, <1>8, <1>9, <1>10
        DEF DecoderNext, Turn, Calls

-----------------------------------------------------------------------------
(***************************************************************************)
(* The composition.                                                        *)
(***************************************************************************)
LEMMA NewDecoderOK ==
  ASSUME InputsOK, decoder = NewDecoder, call = "new"
  PROVE  ReadingOK
<1>1. /\ decoder \in Decoders
      /\ decoder.pos = 0 /\ decoder.payload_pos = 0
      /\ decoder.payload_consumed = 0
      /\ decoder.state = "Begin" /\ decoder.contents = NoContents
      /\ decoder.path_lengths = <<>>
  BY NewDecoderFields
<1>2. LengthsOK(decoder)
  BY <1>1 DEF LengthsOK
<1>3. 0 <= input.len /\ 0 <= payload_input.len
  BY DEF InputsOK, Readable
<1>4. DecoderOK(decoder) /\ Balanced(decoder)
  BY <1>1, <1>2, <1>3 DEF DecoderOK, Balanced, NoContents
<1> QED BY <1>4 DEF ReadingOK, DecoderTypeOK

(* What is left of a stream is still readable.                               *)
LEMMA LostIsReadable ==
  ASSUME NEW s, Stream(s)
  PROVE  Readable(s) /\ \A t \in Lost(s) : Readable(t)
<1>1. Readable(s)
  BY DEF Readable, Stream
<1>2. ASSUME NEW t \in Lost(s)
      PROVE  Readable(t)
  <2>1. PICK n \in 0..s.len - 1 : t = Lossy(s, n)
    BY DEF Lost
  <2> QED BY <1>1, <2>1 DEF Readable, Lossy
<1> QED BY <1>1, <1>2

LEMMA RoundTripInitEstablishes ==
  RoundTripInit => RoundTripInv
<1> SUFFICES ASSUME RoundTripInit PROVE RoundTripInv
  OBVIOUS
<1>1. IInv
  BY InitEstablishes DEF RoundTripInit
<1>2. InputsOK
  BY DEF RoundTripInit, InputsOK, Readable, EmptyStream
<1>3. decoder = NewDecoder /\ call = "new"
  BY DEF RoundTripInit, DecoderInit
<1> QED BY <1>1, <1>2, <1>3, NewDecoderOK DEF RoundTripInv, NotBegun

LEMMA RoundTripNextKeeps ==
  ASSUME RoundTripInv, [RoundTripNext]_roundTripVars
  PROVE  RoundTripInv'
<1>1. CASE Encode
  <2>1. IInv'
    BY <1>1, NextKeeps DEF Encode, RoundTripInv
  <2>2. UNCHANGED <<input, payload_input, decoder, call, seen>>
    BY <1>1 DEF Encode, decoderVars
  <2>3. StepKeeps
    BY <2>2, UnchangedOK DEF RoundTripInv, ReadingOK, DecoderTypeOK, Inputs
  <2>4. InputsOK' /\ (input' = EmptyStream => NotBegun')
    BY <2>2 DEF RoundTripInv, ReadingOK, InputsOK, Readable, NotBegun
  <2> QED BY <2>1, <2>3, <2>4 DEF RoundTripInv, ReadingOK, StepKeeps
<1>2. CASE HandOver
  <2>1. IInv'
    BY <1>2, NextKeeps DEF HandOver, RoundTripInv
  <2>2. /\ decoder' = NewDecoder /\ call' = "new" /\ input' # EmptyStream
    BY <1>2 DEF HandOver, RoundTripInv, NotBegun
  <2>3. InputsOK'
    <3>1. Stream(archive) /\ Stream(payload)
      BY DEF RoundTripInv, IInv, TypeOK
    <3>2. /\ input' \in {archive} \cup Lost(archive)
          /\ payload_input' \in {payload} \cup Lost(payload)
      BY <1>2 DEF HandOver
    <3>3. Readable(input') /\ Readable(payload_input')
      BY <3>1, <3>2, LostIsReadable
    <3> QED BY <3>3 DEF InputsOK, Readable
  <2>4. (InputsOK /\ decoder = NewDecoder /\ call = "new" => ReadingOK)'
    BY NewDecoderOK, PTL
  <2> QED BY <2>1, <2>2, <2>3, <2>4 DEF RoundTripInv
<1>3. CASE Decode
  <2>1. IInv'
    BY <1>3, NextKeeps DEF Decode, RoundTripInv
  <2>2. StepKeeps /\ Inputs
    BY <1>3, DecoderNextKeeps DEF Decode, RoundTripInv
  <2>3. input' # EmptyStream /\ InputsOK'
    BY <1>3, <2>2
       DEF Decode, Inputs, RoundTripInv, ReadingOK, InputsOK, Readable
  <2> QED BY <2>1, <2>2, <2>3 DEF RoundTripInv, ReadingOK, StepKeeps
<1>4. CASE UNCHANGED roundTripVars
  <2>1. IInv'
    BY <1>4, NextKeeps DEF roundTripVars, vars, RoundTripInv
  <2>2. UNCHANGED <<input, payload_input, decoder, call, seen>>
    BY <1>4 DEF roundTripVars
  <2>3. StepKeeps
    BY <2>2, UnchangedOK DEF RoundTripInv, ReadingOK, DecoderTypeOK, Inputs
  <2>4. InputsOK' /\ (input' = EmptyStream => NotBegun')
    BY <2>2 DEF RoundTripInv, ReadingOK, InputsOK, Readable, NotBegun
  <2> QED BY <2>1, <2>3, <2>4 DEF RoundTripInv, ReadingOK, StepKeeps
<1> QED BY <1>1, <1>2, <1>3, <1>4 DEF RoundTripNext

(* The decoder never is behind the end of an input or of the contents it has *)
(* announced, and never goes back to a path it does not have: whatever the  *)
(* encoder's failures, the losses and the reads of the caller.              *)
THEOREM DecoderStaysInside == RoundTripSpec => []DecoderTypeOK
<1>1. RoundTripInv => DecoderTypeOK
  BY DEF RoundTripInv, ReadingOK
<1> QED BY <1>1, RoundTripInitEstablishes, RoundTripNextKeeps, PTL
        DEF RoundTripSpec

(* Skipping to the contents of a file is exact: however much of the contents *)
(* before was read, payload_consumed is where the payload input stands.      *)
THEOREM SkipsAreExact == RoundTripSpec => []ConsumedIsPosition
<1>1. RoundTripInv => ConsumedIsPosition
  BY DEF RoundTripInv, ReadingOK, Balanced, ConsumedIsPosition
<1> QED BY <1>1, RoundTripInitEstablishes, RoundTripNextKeeps, PTL
        DEF RoundTripSpec

(***************************************************************************)
(* What the theorems about the encoder say of the streams that are handed   *)
(* over if all went well.                                                   *)
(***************************************************************************)
RefsLead ==
  /\ \A c \in CellsOf(archive, "PAYLOAD_REF") :
       \E y \in CellsOf(payload, "PAYLOAD") :
         y.at = c.item.offset /\ y.item.content = c.item.content
  /\ \A c, d \in CellsOf(archive, "PAYLOAD_REF") :
       c.at < d.at =>
         c.item.offset + HeaderSize + c.item.content <= d.item.offset

Intact ==
  /\ Whole
  /\ PayloadInput = Split
  /\ Stream(archive) /\ Stream(payload)
  /\ IsFiniteSet(archive.cells)
  /\ Apart(archive.cells)
  /\ Grammatical(archive, Rest)
  /\ Nests(archive.cells, <<>>)
  /\ StartsRight(archive.cells)
  /\ RootIsClosed(archive)
  /\ ContentsComplete(archive)
  /\ Split => Marked(payload) /\ RefsLead

LEMMA CellFacts ==
  ASSUME Intact, NEW c \in archive.cells
  PROVE  /\ c.at \in Nat /\ ItemOK(c.item)
         /\ c.item.size \in Nat \ {0}
         /\ c.item.htype # "DATA" => c.item.size >= 16
         /\ EndOf(c) = c.at + c.item.size /\ EndOf(c) \in Nat
         /\ EndOf(c) <= archive.len /\ archive.len \in Nat
  BY DEF Intact, Stream, Grammatical, Solid, ItemOK, EndOf, HeaderSize

LEMMA OneAt ==
  ASSUME Intact, NEW c \in archive.cells, NEW d \in archive.cells
  PROVE  /\ c.at = d.at => c = d
         /\ EndOf(c) = EndOf(d) => c = d
         /\ ~(c.at < d.at /\ d.at < EndOf(c))
         /\ c.at < d.at => EndOf(c) <= d.at
         /\ EndOf(c) = d.at => c.at < d.at /\ c # d
<1>1. c = d \/ EndOf(c) <= d.at \/ EndOf(d) <= c.at
  BY DEF Intact, Apart, EndOf
<1>2. /\ c.at \in Nat /\ EndOf(c) \in Nat /\ c.at < EndOf(c)
      /\ d.at \in Nat /\ EndOf(d) \in Nat /\ d.at < EndOf(d)
  BY CellFacts
<1> QED BY <1>1, <1>2

(* What a tag says of an item.                                               *)
LEMMA TagTells ==
  ASSUME NEW item, ItemOK(item)
  PROVE  /\ Tag(item) \in FileKinds =>
              item.htype = "ENTRY" /\ item.kind = Tag(item)
         /\ Tag(item) \notin FileKinds =>
              item.htype # "ENTRY" /\ item.htype = Tag(item)
  BY DEF ItemOK, ItemTypes, Tag, FileKinds

IsRootTable(g) == g.item.htype = "GOODBYE" /\ Begins(g) = 0

(* Behind every item but the root's table there is another one.              *)
LEMMA Follower ==
  ASSUME Intact, NEW c \in archive.cells, ~IsRootTable(c)
  PROVE  \E d \in archive.cells : MayFollow(d, c)
<1>1. \/ \E d \in archive.cells : MayFollow(d, c)
      \/ EndOf(c) = archive.len
  BY DEF Intact, Grammatical, Leads
<1>2. ASSUME EndOf(c) = archive.len
      PROVE  FALSE
  <2>1. PICK g \in TablesOf(archive.cells) :
          Begins(g) = 0 /\ EndOf(g) = archive.len
    BY DEF Intact, RootIsClosed
  <2>2. g = c
    BY <1>2, <2>1, OneAt DEF TablesOf
  <2> QED BY <2>1, <2>2 DEF IsRootTable, TablesOf
<1> QED BY <1>1, <1>2

Landing(p) == \E x \in archive.cells : x.at = p /\ Tag(x.item) \in Rest

(* Nothing a reader goes through lists an entry or ends a directory.         *)
Clear(p, q) ==
  \A c \in archive.cells :
    p < c.at /\ c.at < q => c.item.htype \notin Rest

LEMMA FollowedByRest ==
  ASSUME Intact, NEW c \in archive.cells, ~IsRootTable(c),
         After(Tag(c.item)) = Rest
  PROVE  /\ Landing(EndOf(c)) /\ Clear(c.at, EndOf(c))
<1>1. PICK d \in archive.cells : MayFollow(d, c)
  BY Follower
<1>2. Clear(c.at, EndOf(c))
  BY OneAt DEF Clear
<1> QED BY <1>1, <1>2 DEF MayFollow, Landing

LEMMA ClearOver ==
  ASSUME Intact, NEW c \in archive.cells, NEW p, NEW q, Clear(p, c.at),
         Clear(c.at, q), c.item.htype \notin Rest
  PROVE  Clear(p, q)
<1> SUFFICES ASSUME NEW d \in archive.cells, p < d.at, d.at < q
             PROVE  d.item.htype \notin Rest
  BY DEF Clear
<1>1. c.at \in Nat /\ d.at \in Nat
  BY CellFacts
<1>2. CASE d.at < c.at
  BY <1>2 DEF Clear
<1>3. CASE d.at = c.at
  BY <1>3, OneAt
<1>4. CASE c.at < d.at
  BY <1>4 DEF Clear
<1> QED BY <1>1, <1>2, <1>3, <1>4

(* Behind a PAYLOAD there is its content, then the entry is complete.        *)
LEMMA FollowedByContent ==
  ASSUME Intact, NEW c \in archive.cells, c.item.htype = "PAYLOAD"
  PROVE  LET end == c.at + HeaderSize + c.item.content IN
         Landing(end) /\ Clear(c.at, end)
<1> DEFINE begin == c.at + HeaderSize
           end == begin + c.item.content
<1> SUFFICES Landing(end) /\ Clear(c.at, end)
  OBVIOUS
<1>1. /\ \A d \in archive.cells :
           begin <= d.at /\ d.at < end => d.item.htype = "DATA"
      /\ \/ end = archive.len
         \/ \E d \in archive.cells : d.at = end /\ d.item.htype # "DATA"
  BY DEF Intact, ContentsComplete, CellsOf, ContentComplete
<1>2. /\ c.at \in Nat /\ begin \in Nat /\ end \in Nat
      /\ c.item.content \in Nat
      /\ begin > 0 /\ c.at < end
  <2>1. FileSizes \subseteq Nat
    BY EncoderAssumption
  <2>2. c.at \in Nat /\ c.item.content \in FileSizes
    BY CellFacts DEF ItemOK
  <2>3. c.item.content \in Nat
    BY <2>1, <2>2
  <2> QED BY <2>2, <2>3 DEF HeaderSize
<1>3. EndOf(c) >= begin
  BY CellFacts DEF HeaderSize
<1> HIDE DEF begin, end
<1>4. Clear(c.at, end)
  <2> SUFFICES ASSUME NEW d \in archive.cells, c.at < d.at, d.at < end
               PROVE  d.item.htype \notin Rest
    BY DEF Clear
  <2>1. d.at >= EndOf(c) /\ d.at \in Nat /\ EndOf(c) \in Nat
    BY OneAt, CellFacts
  <2>2. begin <= d.at
    BY <1>2, <1>3, <2>1
  <2> QED BY <1>1, <2>2 DEF Rest
<1>5. \E d \in archive.cells : d.at = end /\ d.item.htype # "DATA"
  <2> SUFFICES ASSUME end = archive.len PROVE FALSE
    BY <1>1
  <2>1. PICK g \in TablesOf(archive.cells) :
          Begins(g) = 0 /\ EndOf(g) = archive.len
    BY DEF Intact, RootIsClosed
  <2>2. g \in archive.cells /\ g.item.htype = "GOODBYE" /\ g # c
    BY <2>1 DEF TablesOf
  <2>3. g.at < end /\ g.at \in Nat
    BY <2>1, <2>2, CellFacts
  <2>4. ~(begin <= g.at)
    BY <1>1, <2>2, <2>3
  <2>5. g.at < begin
    BY <1>2, <2>3, <2>4
  <2>6. EndOf(g) <= c.at
    <3>1. EndOf(c) <= archive.len /\ EndOf(c) \in Nat /\ EndOf(g) \in Nat
      BY <2>2, CellFacts
    <3>2. ~(EndOf(c) <= g.at)
      BY <1>2, <1>3, <2>3, <2>5, <3>1
    <3> QED BY <2>2, <3>2 DEF Intact, Apart, EndOf
  <2> QED BY <1>2, <2>1, <2>2, <2>6, CellFacts
<1>6. Landing(end)
  <2>1. PICK d \in archive.cells : d.at = end /\ d.item.htype # "DATA"
    BY <1>5
  <2>2. Tag(d.item) # "DATA"
    <3>1. ItemOK(d.item)
      BY CellFacts
    <3> QED BY <2>1, <3>1, TagTells DEF FileKinds
  <2>3. Tag(d.item) \in Rest
    <3>1. \/ Tag(d.item) \in More
          \/ \E a \in archive.cells : MayFollow(d, a)
      BY <1>2, <2>1 DEF Intact, Grammatical, Preceded
    <3>2. ASSUME NEW a \in archive.cells, MayFollow(d, a)
          PROVE  Tag(d.item) \in More
      <4>1. EndOf(a) = end /\ Tag(d.item) \in After(Tag(a.item))
        BY <2>1, <3>2 DEF MayFollow
      <4>2. a.item.htype \in {"DATA", "PAYLOAD"}
        <5>1. CASE a = c
          BY <5>1
        <5>2. CASE a # c
          <6>1. EndOf(a) <= c.at \/ EndOf(c) <= a.at
            BY <5>2 DEF Intact, Apart, EndOf
          <6>2. /\ EndOf(a) \in Nat /\ a.at \in Nat /\ EndOf(c) \in Nat
                /\ a.at < EndOf(a)
            BY CellFacts
          <6>3. EndOf(c) <= a.at
            BY <1>2, <4>1, <6>1, <6>2
          <6>4. begin <= a.at /\ a.at < end
            BY <1>2, <1>3, <4>1, <6>2, <6>3
          <6> QED BY <1>1, <6>4
        <5> QED BY <5>1, <5>2
      <4>3. Tag(a.item) \in {"DATA", "PAYLOAD"}
        BY <4>2 DEF Tag
      <4> QED BY <4>1, <4>3, Afters
    <3> QED BY <2>2, <3>1, <3>2 DEF More
  <2> QED BY <2>1, <2>3 DEF Landing
<1> QED BY <1>4, <1>6

-----------------------------------------------------------------------------
(***************************************************************************)
(* Where a reader is: the names it has passed and those of the directories  *)
(* it is in.                                                               *)
(***************************************************************************)
NamesBefore(p) == {x \in Filenames : x.at < p}

Within(p) ==
  {x \in Filenames :
     /\ x.at < p
     /\ \E g \in TablesOf(archive.cells) : Begins(g) = EndOf(x) /\ p <= g.at}

LEMMA TableFacts ==
  ASSUME Intact, NEW g \in TablesOf(archive.cells)
  PROVE  /\ g \in archive.cells /\ g.item.htype = "GOODBYE"
         /\ Begins(g) \in Nat /\ Begins(g) <= g.at
         /\ Begins(g) = 0 \/ Subdir(archive.cells, Begins(g))
         /\ \A h \in TablesOf(archive.cells) :
              g.at < h.at => Begins(h) < Begins(g) \/ g.at < Begins(h)
<1>1. g \in archive.cells /\ g.item.htype = "GOODBYE" /\ g.at \in Nat
  BY CellFacts DEF TablesOf
<1>2. Spans(archive.cells, g) /\ Laminar(TablesOf(archive.cells))
  BY DEF Intact, Nests
<1> QED BY <1>1, <1>2 DEF Spans, Laminar, Begins

LEMMA NameFacts ==
  ASSUME Intact, NEW x \in Filenames
  PROVE  /\ x \in archive.cells /\ x.item.htype = "FILENAME"
         /\ x.at \in Nat /\ EndOf(x) \in Nat /\ x.at + 16 <= EndOf(x)
         /\ x.item.name \in Names
         /\ Tag(x.item) = "FILENAME"
<1>1. x \in archive.cells /\ x.item.htype = "FILENAME"
  BY DEF Filenames, CellsOf
<1> QED BY <1>1, CellFacts DEF ItemOK, Tag

LEMMA HoldingIsWithin ==
  ASSUME Intact, NEW x \in Filenames
  PROVE  Holding(x) = Within(x.at)
<1>1. ASSUME NEW g \in TablesOf(archive.cells)
      PROVE  x.at < g.at <=> x.at <= g.at
  BY NameFacts, TableFacts, CellFacts, OneAt
<1> QED BY <1>1 DEF Holding, Within, TablesOf, CellsOf, Begins, EndOf

(* An entry that is read has been listed; a directory has been entered.      *)
LEMMA PassesEntry ==
  ASSUME Intact, NEW x \in Filenames, NEW b \in archive.cells,
         b.at = EndOf(x), b.item.htype \notin Rest,
         NEW q \in Nat, b.at < q, Clear(b.at, q)
  PROVE  /\ x \notin NamesBefore(x.at)
         /\ NamesBefore(q) = NamesBefore(x.at) \cup {x}
         /\ ~IsDirEntry(b) => Within(q) = Within(x.at)
         /\ IsDirEntry(b) => Within(q) = Within(x.at) \cup {x}
         /\ \A y \in Within(x.at) : y.at < x.at
<1>1. /\ x \in archive.cells /\ x.at \in Nat /\ x.at < q
      /\ EndOf(x) \in Nat /\ x.at < EndOf(x) /\ x.item.htype = "FILENAME"
  BY NameFacts
<1>2. ASSUME NEW c \in archive.cells, c.item.htype \in Rest
      PROVE  /\ c.at \in Nat
             /\ c.at < q => c.at < x.at \/ c = x
             /\ c.at < x.at => c.at < q
             /\ c # x => (x.at <= c.at <=> q <= c.at)
  <2>1. c.at \in Nat /\ c # b
    BY <1>2, CellFacts
  <2>2. ~(x.at < c.at /\ c.at < b.at)
    BY <1>1, OneAt
  <2>3. c.at # b.at
    BY <2>1, OneAt
  <2>4. ~(b.at < c.at /\ c.at < q)
    BY <1>2 DEF Clear
  <2>5. c.at = x.at => c = x
    BY <1>1, OneAt
  <2> QED BY <1>1, <2>1, <2>2, <2>3, <2>4, <2>5
<1>3. /\ \A c \in Filenames : c \in archive.cells /\ c.item.htype \in Rest
      /\ \A g \in TablesOf(archive.cells) :
           g \in archive.cells /\ g.item.htype \in Rest /\ g # x
  BY <1>1 DEF Filenames, CellsOf, TablesOf, Rest
<1>4. /\ NamesBefore(q) = NamesBefore(x.at) \cup {x}
      /\ x \notin NamesBefore(x.at)
  <2>1. \A c \in Filenames : c.at < q <=> c.at < x.at \/ c = x
    BY <1>1, <1>2, <1>3
  <2> QED BY <1>1, <2>1 DEF NamesBefore
<1>5. ASSUME NEW c \in Filenames
      PROVE  c \in Within(q) <=>
               \/ c \in Within(x.at)
               \/ /\ c = x
                  /\ \E g \in TablesOf(archive.cells) :
                       Begins(g) = EndOf(x) /\ q <= g.at
  <2>1. c.at < q <=> c.at < x.at \/ c = x
    BY <1>1, <1>2, <1>3
  <2>2. \A g \in TablesOf(archive.cells) : x.at <= g.at <=> q <= g.at
    BY <1>2, <1>3
  <2>3. x \notin Within(x.at)
    BY <1>1 DEF Within
  <2> QED BY <1>1, <2>1, <2>2, <2>3 DEF Within
<1>6. (\E g \in TablesOf(archive.cells) : Begins(g) = EndOf(x) /\ q <= g.at)
        <=> IsDirEntry(b)
  <2>1. ASSUME NEW g \in TablesOf(archive.cells), Begins(g) = EndOf(x)
        PROVE  IsDirEntry(b)
    <3>1. Subdir(archive.cells, EndOf(x))
      BY <1>1, <2>1, TableFacts
    <3>2. PICK d \in archive.cells : IsDirEntry(d) /\ d.at = EndOf(x)
      BY <3>1 DEF Subdir
    <3> QED BY <3>2, OneAt
  <2>2. ASSUME IsDirEntry(b)
        PROVE  \E g \in TablesOf(archive.cells) :
                 Begins(g) = EndOf(x) /\ q <= g.at
    <3>1. ~RootEntry(archive.cells, b)
      <4>1. ASSUME NEW c \in archive.cells, EndOf(c) = b.at
            PROVE  c = x
        BY <1>1, <4>1, OneAt
      <4> QED BY <1>1, <4>1 DEF RootEntry
    <3>2. EveryDirCloses(archive.cells, <<>>)
      BY DEF Intact, Nests
    <3>3. PICK g \in TablesOf(archive.cells) : Begins(g) = b.at
      BY <2>2, <3>1, <3>2 DEF EveryDirCloses
    <3>4. g \in archive.cells /\ g # x /\ g.item.htype \in Rest
      BY <1>3
    <3>5. g.at >= b.at /\ g.at \in Nat
      BY <3>3, <3>4, TableFacts, CellFacts
    <3>6. x.at <= g.at
      BY <1>1, <3>5
    <3> QED BY <1>2, <3>3, <3>4, <3>6
  <2> QED BY <2>1, <2>2
<1>7. \A y \in Within(x.at) : y.at < x.at /\ y \in Filenames
  BY DEF Within
<1>8. Within(q) \subseteq Filenames
  BY DEF Within
<1> QED BY <1>4, <1>5, <1>6, <1>7, <1>8

(* The table of the root: it is left for good.                               *)
LEMMA LeavesRoot ==
  ASSUME Intact, NEW g \in archive.cells, IsRootTable(g)
  PROVE  /\ Within(g.at) = {}
         /\ EndOf(g) = archive.len
         /\ NamesBefore(g.at) = Filenames
<1>1. PICK r \in TablesOf(archive.cells) :
        Begins(r) = 0 /\ EndOf(r) = archive.len
  BY DEF Intact, RootIsClosed
<1>2. g \in TablesOf(archive.cells) /\ g.item.htype = "GOODBYE"
      /\ Begins(g) = 0 /\ g.at \in Nat /\ r.at \in Nat /\ r \in archive.cells
  BY <1>1, CellFacts DEF TablesOf, IsRootTable
<1>3. g = r
  <2>1. ~(g.at < r.at) /\ ~(r.at < g.at)
    BY <1>1, <1>2, TableFacts
  <2> QED BY <1>2, <2>1, OneAt
<1>4. ASSUME NEW x \in Within(g.at)
      PROVE  FALSE
  <2>1. x \in Filenames /\ x.at < g.at
    BY DEF Within
  <2>2. PICK h \in TablesOf(archive.cells) :
          Begins(h) = EndOf(x) /\ g.at <= h.at
    BY DEF Within
  <2>3. /\ x \in archive.cells /\ x.at \in Nat /\ EndOf(x) \in Nat
        /\ x.at < EndOf(x)
    BY <2>1, NameFacts
  <2>4. h # g
    BY <1>2, <2>2, <2>3
  <2>5. h \in archive.cells /\ h.at \in Nat
    BY <2>2, TableFacts, CellFacts
  <2>6. g.at < h.at
    BY <1>2, <2>2, <2>4, <2>5, OneAt
  <2>7. g.at < EndOf(x)
    BY <1>2, <2>2, <2>3, <2>6, TableFacts
  <2> QED BY <2>1, <2>3, <2>7, OneAt
<1>5. ASSUME NEW x \in Filenames
      PROVE  x.at < g.at
  <2>1. /\ x \in archive.cells /\ x.item.htype = "FILENAME"
        /\ x.at \in Nat /\ x.at < EndOf(x) /\ EndOf(x) <= archive.len
        /\ EndOf(x) \in Nat /\ archive.len \in Nat /\ EndOf(g) \in Nat
    BY NameFacts, CellFacts
  <2>2. x # g
    BY <1>2, <2>1
  <2>3. EndOf(x) <= g.at \/ EndOf(g) <= x.at
    BY <2>1, <2>2 DEF Intact, Apart, EndOf
  <2> QED BY <1>1, <1>2, <1>3, <2>1, <2>3
<1> QED BY <1>1, <1>3, <1>4, <1>5 DEF NamesBefore

(* Any other table leads back to the parent.                                 *)
LEMMA LeavesTable ==
  ASSUME Intact, NEW g \in archive.cells, g.item.htype = "GOODBYE",
         ~IsRootTable(g)
  PROVE  /\ NamesBefore(EndOf(g)) = NamesBefore(g.at)
         /\ \E n \in Within(g.at) :
              /\ Within(EndOf(g)) = Within(g.at) \ {n}
              /\ \A y \in Within(g.at) : y # n => y.at < n.at
<1>1. /\ g \in TablesOf(archive.cells) /\ Begins(g) # 0
      /\ g.at \in Nat /\ EndOf(g) \in Nat /\ g.at < EndOf(g)
      /\ Begins(g) \in Nat /\ Begins(g) <= g.at
      /\ Subdir(archive.cells, Begins(g))
  <2>1. g \in TablesOf(archive.cells) /\ Begins(g) # 0
    BY DEF TablesOf, IsRootTable
  <2> QED BY <2>1, TableFacts, CellFacts
<1>2. \A c \in archive.cells :
        /\ c # g => (c.at < g.at <=> c.at < EndOf(g))
        /\ c # g => (g.at <= c.at <=> EndOf(g) <= c.at)
  <2> SUFFICES ASSUME NEW c \in archive.cells, c # g
               PROVE  /\ c.at < g.at <=> c.at < EndOf(g)
                      /\ g.at <= c.at <=> EndOf(g) <= c.at
    OBVIOUS
  <2>1. c.at \in Nat /\ c.at # g.at /\ ~(g.at < c.at /\ c.at < EndOf(g))
    BY CellFacts, OneAt
  <2> QED BY <1>1, <2>1
<1>3. \A x \in Filenames :
        /\ x \in archive.cells /\ x # g /\ x.at \in Nat
        /\ EndOf(x) \in Nat /\ x.at < EndOf(x)
  BY NameFacts
<1>4. NamesBefore(EndOf(g)) = NamesBefore(g.at)
  BY <1>2, <1>3 DEF NamesBefore
<1>5. PICK n \in Filenames : EndOf(n) = Begins(g)
  BY <1>1 DEF Subdir, Filenames, CellsOf
<1>6. n \in Within(g.at)
  <2>1. n.at < g.at
    BY <1>1, <1>3, <1>5
  <2> QED BY <1>1, <1>5, <2>1 DEF Within
(* The others are in a directory around it.                                  *)
<1>7. ASSUME NEW y \in Within(g.at), y # n
      PROVE  y.at < n.at /\ y \in Within(EndOf(g))
  <2>1. y \in Filenames /\ y.at < g.at
    BY DEF Within
  <2>2. PICK h \in TablesOf(archive.cells) :
          Begins(h) = EndOf(y) /\ g.at <= h.at
    BY DEF Within
  <2>3. EndOf(y) # EndOf(n)
    BY <1>3, <1>7, <2>1, OneAt
  <2>4. h # g /\ h \in archive.cells /\ h.at \in Nat
    BY <1>5, <2>2, <2>3, TableFacts, CellFacts
  <2>5. g.at < h.at /\ EndOf(g) <= h.at
    BY <1>1, <1>2, <2>2, <2>4, OneAt
  <2>6. EndOf(y) < EndOf(n) \/ g.at < EndOf(y)
    BY <1>1, <1>5, <2>2, <2>5, TableFacts
  <2>7. ~(g.at < EndOf(y))
    BY <1>3, <2>1, OneAt
  <2>8. y.at < n.at
    <3>1. ~(n.at < y.at /\ EndOf(y) < EndOf(n))
      <4>1. n.at < y.at => EndOf(n) <= y.at
        BY <1>3, <2>1, OneAt
      <4> QED BY <1>3, <2>1, <4>1
    <3>2. n.at # y.at
      BY <1>3, <1>7, <2>1, OneAt
    <3> QED BY <1>3, <2>1, <2>6, <2>7, <3>1, <3>2
  <2>9. y.at < EndOf(g)
    BY <1>2, <1>3, <2>1
  <2> QED BY <2>1, <2>2, <2>5, <2>8, <2>9 DEF Within
<1>8. ASSUME NEW y \in Within(EndOf(g))
      PROVE  y \in Within(g.at) /\ y # n
  <2>1. y \in Filenames /\ y.at < EndOf(g)
    BY DEF Within
  <2>2. PICK h \in TablesOf(archive.cells) :
          Begins(h) = EndOf(y) /\ EndOf(g) <= h.at
    BY DEF Within
  <2>3. h \in archive.cells /\ h.at \in Nat
    BY <2>2, TableFacts, CellFacts
  <2>4. g.at < h.at
    BY <1>1, <2>2, <2>3
  <2>5. y.at < g.at
    BY <1>2, <1>3, <2>1
  <2>6. y \in Within(g.at)
    BY <1>1, <2>1, <2>2, <2>3, <2>4, <2>5 DEF Within
  <2>7. y # n
    BY <1>1, <1>5, <2>2, <2>4, TableFacts
  <2> QED BY <2>6, <2>7
<1> QED BY <1>4, <1>6, <1>7, <1>8

-----------------------------------------------------------------------------
(***************************************************************************)
(* A set in the order of its positions.                                    *)
(***************************************************************************)
InOrder(hs, S) ==
  /\ hs \in Seq(S)
  /\ \A x \in S : \E k \in 1..Len(hs) : hs[k] = x
  /\ \A k, l \in 1..Len(hs) : k < l => hs[k].at < hs[l].at

LEMMA SeqIsBijection ==
  ASSUME NEW S, NEW n \in Nat, NEW f \in [1..n -> S],
         \A x \in S : \E k \in 1..n : f[k] = x,
         \A k, l \in 1..n : f[k] = f[l] => k = l
  PROVE  Cardinality(S) = n
<1>1. f \in Bijection(1..n, S)
  BY DEF Bijection, Injection, Surjection, IsInjective
<1> QED BY <1>1, FS_CountingElements DEF ExistsBijection

Rank(S, x) == Cardinality({y \in S : y.at < x.at})

Kth(S, k) == CHOOSE x \in S : Cardinality({y \in S : y.at < x.at}) = k - 1

LEMMA KthIs ==
  ASSUME NEW S, NEW k, NEW x \in S, Rank(S, x) = k - 1,
         \A z \in S : Rank(S, z) = k - 1 => z = x
  PROVE  Kth(S, k) = x
<1>1. Kth(S, k) = CHOOSE z \in S : Rank(S, z) = k - 1
  BY DEF Kth, Rank
<1> HIDE DEF Rank
<1> QED BY <1>1

LEMMA InOrderParts ==
  ASSUME NEW S, \A x \in S : x.at \in Nat, NEW hs, InOrder(hs, S)
  PROVE  /\ Len(hs) \in Nat /\ hs \in [1..Len(hs) -> S]
         /\ \A k \in 1..Len(hs) : hs[k] \in S /\ hs[k].at \in Nat
         /\ \A k, l \in 1..Len(hs) : k < l => hs[k].at < hs[l].at
<1>1. hs \in Seq(S)
  BY DEF InOrder
<1>2. Len(hs) \in Nat /\ hs \in [1..Len(hs) -> S]
  BY <1>1
<1>3. \A k, l \in 1..Len(hs) : k < l => hs[k].at < hs[l].at
  BY DEF InOrder
<1> QED BY <1>2, <1>3

(* The k-th of a list is the element with k - 1 before it.                   *)
LEMMA Ranked ==
  ASSUME NEW S, \A x \in S : x.at \in Nat, NEW hs, InOrder(hs, S)
  PROVE  /\ Cardinality(S) = Len(hs)
         /\ \A k \in 1..Len(hs) : Kth(S, k) = hs[k]
<1> DEFINE n == Len(hs)
           Below(x) == {y \in S : y.at < x.at}
<1>1. /\ n \in Nat /\ hs \in [1..n -> S]
      /\ \A k \in 1..n : hs[k] \in S /\ hs[k].at \in Nat
      /\ \A k, l \in 1..n : k < l => hs[k].at < hs[l].at
  BY InOrderParts
<1>2. \A k, l \in 1..n : hs[k].at < hs[l].at => k < l
  BY <1>1
<1>3. \A k, l \in 1..n : hs[k] = hs[l] => k = l
  BY <1>1
<1>4. Cardinality(S) = n
  BY <1>1, <1>3, SeqIsBijection DEF InOrder
<1>5. ASSUME NEW k \in 1..n
      PROVE  Cardinality(Below(hs[k])) = k - 1
  <2> DEFINE f == [j \in 1..k - 1 |-> hs[j]]
  <2>1. k - 1 \in Nat /\ 1..k - 1 \subseteq 1..n
    BY <1>1
  <2>2. \A j \in 1..k - 1 : hs[j] \in S /\ hs[j].at < hs[k].at
    BY <1>1, <2>1
  <2>3. f \in [1..k - 1 -> Below(hs[k])]
    BY <2>2
  <2>4. \A x \in Below(hs[k]) : \E j \in 1..k - 1 : f[j] = x
    <3> SUFFICES ASSUME NEW x \in S, x.at < hs[k].at
                 PROVE  \E j \in 1..k - 1 : f[j] = x
      OBVIOUS
    <3>1. PICK j \in 1..n : hs[j] = x
      BY DEF InOrder
    <3>2. j < k
      BY <1>2, <3>1
    <3>3. j \in 1..k - 1
      BY <1>1, <3>2
    <3> QED BY <3>1, <3>3
  <2>5. \A j, l \in 1..k - 1 : f[j] = f[l] => j = l
    BY <1>3, <2>1
  <2> HIDE DEF f, Below
  <2> QED BY <2>1, <2>3, <2>4, <2>5, SeqIsBijection
<1>6. ASSUME NEW k \in 1..n
      PROVE  Kth(S, k) = hs[k]
  <2>1. hs[k] \in S /\ Rank(S, hs[k]) = k - 1
    BY <1>1, <1>5 DEF Rank
  <2>2. ASSUME NEW x \in S, Rank(S, x) = k - 1
        PROVE  x = hs[k]
    <3>1. PICK j \in 1..n : hs[j] = x
      BY DEF InOrder
    <3>2. j - 1 = k - 1
      BY <1>5, <2>2, <3>1 DEF Rank
    <3>3. j = k
      BY <1>1, <3>2
    <3> QED BY <3>1, <3>3
  <2> QED BY <2>1, <2>2, KthIs
<1> QED BY <1>4, <1>6

LEMMA InOrderMore ==
  ASSUME NEW S, NEW hs, InOrder(hs, S), NEW x, \A y \in S : y.at < x.at
  PROVE  InOrder(Append(hs, x), S \cup {x})
<1> DEFINE n == Len(hs)
           t == Append(hs, x)
<1>1. /\ n \in Nat /\ hs \in Seq(S \cup {x})
      /\ \A k \in 1..n : hs[k] \in S
  BY DEF InOrder
<1>2. /\ t \in Seq(S \cup {x}) /\ Len(t) = n + 1
      /\ \A k \in 1..n : t[k] = hs[k]
      /\ t[n + 1] = x
  BY <1>1
<1> HIDE DEF t
<1>3. \A y \in S \cup {x} : \E k \in 1..n + 1 : t[k] = y
  <2>1. ASSUME NEW y \in S PROVE \E k \in 1..n + 1 : t[k] = y
    <3>1. PICK k \in 1..n : hs[k] = y
      BY DEF InOrder
    <3>2. k \in 1..n + 1
      BY <1>1
    <3> QED BY <1>2, <3>1, <3>2
  <2>2. n + 1 \in 1..n + 1
    BY <1>1
  <2> QED BY <1>2, <2>1, <2>2
<1>4. ASSUME NEW k \in 1..n + 1, NEW l \in 1..n + 1, k < l
      PROVE  t[k].at < t[l].at
  <2>1. k \in 1..n
    BY <1>1, <1>4
  <2>2. CASE l = n + 1
    BY <1>1, <1>2, <2>1, <2>2
  <2>3. CASE l \in 1..n
    BY <1>2, <1>4, <2>1, <2>3 DEF InOrder
  <2> QED BY <1>1, <2>2, <2>3
<1>5. InOrder(t, S \cup {x})
  BY <1>2, <1>3, <1>4 DEF InOrder
<1> QED BY <1>5 DEF t

LEMMA InOrderFewer ==
  ASSUME NEW S, \A y \in S : y.at \in Nat, NEW hs, InOrder(hs, S), NEW n \in S,
         \A y \in S : y # n => y.at < n.at
  PROVE  /\ Len(hs) > 0
         /\ InOrder(SubSeq(hs, 1, Len(hs) - 1), S \ {n})
<1> DEFINE m == Len(hs)
           t == SubSeq(hs, 1, m - 1)
<1>1. PICK i \in 1..m : hs[i] = n
  BY DEF InOrder
<1>2. /\ m \in Nat /\ \A k \in 1..m : hs[k] \in S /\ hs[k].at \in Nat
      /\ \A k, l \in 1..m : k < l => hs[k].at < hs[l].at
  BY InOrderParts
<1>3. i = m
  <2> SUFFICES ASSUME i < m PROVE FALSE
    BY <1>2
  <2>1. m \in 1..m
    BY <1>1, <1>2
  <2>2. hs[i].at < hs[m].at /\ hs[m] \in S
    BY <1>2, <2>1
  <2> QED BY <1>1, <1>2, <2>2
<1>4. /\ m - 1 \in Nat /\ m - 1 <= m /\ m \in 1..m
      /\ 1..m - 1 \subseteq 1..m
  BY <1>1, <1>2
<1>5. \A k \in 1..m - 1 : hs[k] \in S \ {n}
  <2> SUFFICES ASSUME NEW k \in 1..m - 1 PROVE hs[k] \in S \ {n}
    OBVIOUS
  <2>1. k < m /\ k \in 1..m
    BY <1>2, <1>4
  <2>2. hs[k].at < hs[m].at
    BY <1>2, <1>4, <2>1
  <2> QED BY <1>1, <1>2, <1>3, <2>1, <2>2
<1>6. /\ t \in Seq(S) /\ Len(t) = m - 1
      /\ \A k \in 1..m - 1 : t[k] = hs[k]
  <2>1. hs \in Seq(S)
    BY DEF InOrder
  <2> QED BY <1>4, <2>1, FrontOfSeq
<1> HIDE DEF t, m
<1>7. t \in Seq(S \ {n})
  <2>1. t \in [1..m - 1 -> S]
    BY <1>6
  <2>2. t \in [1..m - 1 -> S \ {n}]
    BY <1>5, <1>6, <2>1
  <2> QED BY <1>4, <2>2, SeqDef
<1>8. \A y \in S \ {n} : \E k \in 1..m - 1 : t[k] = y
  <2> SUFFICES ASSUME NEW y \in S, y # n PROVE \E k \in 1..m - 1 : t[k] = y
    OBVIOUS
  <2>1. PICK k \in 1..m : hs[k] = y
    BY DEF InOrder, m
  <2>2. k # m
    BY <1>1, <1>3, <2>1
  <2>3. k \in 1..m - 1
    BY <1>2, <2>2
  <2> QED BY <1>6, <2>1, <2>3
<1>9. \A k, l \in 1..m - 1 : k < l => t[k].at < t[l].at
  BY <1>4, <1>6 DEF InOrder, m
<1>10. InOrder(t, S \ {n})
  BY <1>4, <1>6, <1>7, <1>8, <1>9 DEF InOrder
<1> QED BY <1>1, <1>2, <1>3, <1>10 DEF t, m

LEMMA InOrderNothing == InOrder(<<>>, {})
  BY DEF InOrder

-----------------------------------------------------------------------------
(***************************************************************************)
(* The names in their order.                                               *)
(***************************************************************************)
LEMMA NamesAreFinite ==
  ASSUME Intact
  PROVE  /\ IsFiniteSet(Filenames) /\ Cardinality(Filenames) \in Nat
         /\ \A p : /\ IsFiniteSet(NamesBefore(p))
                   /\ Cardinality(NamesBefore(p)) \in Nat
                   /\ Cardinality(NamesBefore(p)) <= Cardinality(Filenames)
<1>1. IsFiniteSet(Filenames)
  BY FS_Subset DEF Intact, Filenames, CellsOf
<1>2. \A p : NamesBefore(p) \in SUBSET Filenames
  BY DEF NamesBefore
<1> HIDE DEF Filenames
<1>3. ASSUME NEW p
      PROVE  /\ IsFiniteSet(NamesBefore(p))
             /\ Cardinality(NamesBefore(p)) \in Nat
             /\ Cardinality(NamesBefore(p)) <= Cardinality(Filenames)
  BY <1>1, <1>2, FS_Subset, FS_CardinalityType
<1> QED BY <1>1, <1>3, FS_CardinalityType

(* A name that has n before it is the one NthName gives for n + 1.           *)
LEMMA NthNameIs ==
  ASSUME Intact, NEW x \in Filenames
  PROVE  NthName(Cardinality(NamesBefore(x.at)) + 1) = x
<1> DEFINE n == Cardinality(NamesBefore(x.at))
<1>1. n \in Nat /\ n + 1 - 1 = n
  BY NamesAreFinite
<1>2. ASSUME NEW c \in Filenames, NEW d \in Filenames, c.at < d.at
      PROVE  Cardinality(NamesBefore(c.at)) < Cardinality(NamesBefore(d.at))
  <2>1. c.at \in Nat /\ d.at \in Nat /\ \A y \in Filenames : y.at \in Nat
    BY NameFacts
  <2>2. /\ NamesBefore(c.at) \cup {c} \in SUBSET NamesBefore(d.at)
        /\ c \notin NamesBefore(c.at)
    BY <1>2, <2>1 DEF NamesBefore
  <2>3. /\ IsFiniteSet(NamesBefore(c.at)) /\ IsFiniteSet(NamesBefore(d.at))
        /\ Cardinality(NamesBefore(c.at)) \in Nat
        /\ Cardinality(NamesBefore(d.at)) \in Nat
    BY NamesAreFinite
  <2>4. Cardinality(NamesBefore(c.at) \cup {c})
          = Cardinality(NamesBefore(c.at)) + 1
    BY <2>2, <2>3, FS_AddElement
  <2>5. Cardinality(NamesBefore(c.at) \cup {c})
          <= Cardinality(NamesBefore(d.at))
    BY <2>2, <2>3, FS_Subset
  <2> QED BY <2>3, <2>4, <2>5
<1>3. ASSUME NEW c \in Filenames, Cardinality(NamesBefore(c.at)) = n
      PROVE  c = x
  <2>1. c.at \in Nat /\ x.at \in Nat /\ c \in archive.cells
        /\ x \in archive.cells
    BY NameFacts
  <2>2. ~(c.at < x.at) /\ ~(x.at < c.at)
    BY <1>1, <1>2, <1>3
  <2> QED BY <2>1, <2>2, OneAt
<1>4. \A c \in Filenames : Rank(Filenames, c) = Cardinality(NamesBefore(c.at))
  BY DEF Rank, NamesBefore
<1> HIDE DEF n
<1>5. Kth(Filenames, n + 1) = x
  BY <1>1, <1>3, <1>4, KthIs DEF n
<1>6. NthName(n + 1) = Kth(Filenames, n + 1)
  <2> HIDE DEF Filenames
  <2> QED BY DEF NthName, Kth
<1> QED BY <1>5, <1>6 DEF n

(* The path of a name, once the names of the directories are listed.         *)
LEMMA PathOfIs ==
  ASSUME Intact, NEW x \in Filenames, NEW hs, InOrder(hs, Within(x.at)),
         NEW path \in Seq(Names), Len(path) = Len(hs) + 1,
         \A k \in 1..Len(hs) : path[k] = hs[k].item.name,
         path[Len(hs) + 1] = x.item.name
  PROVE  PathOf(x) = path
<1> DEFINE n == Len(hs)
           dirs == Holding(x)
<1>1. n \in Nat
  BY DEF InOrder
<1>2. dirs = Within(x.at) /\ \A y \in dirs : y.at \in Nat
  BY HoldingIsWithin, NameFacts DEF Within
<1> HIDE DEF dirs
<1>3. Cardinality(dirs) = n /\ \A k \in 1..n : Kth(dirs, k) = hs[k]
  BY <1>2, Ranked
<1>4. PathOf(x) = [k \in 1..Cardinality(dirs) + 1 |->
                     IF k > Cardinality(dirs) THEN x.item.name
                                              ELSE Kth(dirs, k).item.name]
  BY DEF PathOf, Kth, dirs
<1>5. PathOf(x) = [k \in 1..n + 1 |->
                     IF k > n THEN x.item.name ELSE Kth(dirs, k).item.name]
  BY <1>3, <1>4
<1>6. \A k \in 1..n + 1 :
        (IF k > n THEN x.item.name ELSE Kth(dirs, k).item.name) = path[k]
  <2> SUFFICES ASSUME NEW k \in 1..n + 1
               PROVE  (IF k > n THEN x.item.name ELSE Kth(dirs, k).item.name)
                        = path[k]
    OBVIOUS
  <2>1. CASE k > n
    <3>1. k = n + 1
      BY <1>1, <2>1
    <3> QED BY <2>1, <3>1
  <2>2. CASE ~(k > n)
    <3>1. k \in 1..n
      BY <1>1, <2>2
    <3> QED BY <1>3, <2>2, <3>1
  <2> QED BY <2>1, <2>2
<1>7. path = [k \in 1..n + 1 |-> path[k]]
  <2> HIDE DEF n
  <2>1. path \in [1..Len(path) -> Names]
    OBVIOUS
  <2> QED BY <2>1 DEF n
<1> HIDE DEF n
<1> QED BY <1>5, <1>6, <1>7

-----------------------------------------------------------------------------
(***************************************************************************)
(* What the decoder reads where an item starts.                            *)
(***************************************************************************)
LEMMA ReadsCell ==
  ASSUME Intact, NEW c \in archive.cells, c.item.htype # "DATA",
         NEW d, d.pos = c.at, NEW htypes
  PROVE  /\ c.item.htype \in htypes => /\ Headers(d, htypes) = {c.item}
                                       /\ Items(d, htypes) = {c.item}
         /\ c.item.htype \notin htypes => /\ Headers(d, htypes) = {}
                                          /\ Items(d, htypes) = {}
<1>1. input = archive
  BY DEF Intact, Whole
<1>2. ItemsAt(d) = {c.item}
  <2>1. {x \in archive.cells : x.at = d.pos} = {c}
    BY OneAt
  <2> QED BY <1>1, <2>1 DEF ItemsAt
<1>3. d.pos + HeaderSize <= input.len /\ d.pos + c.item.size <= input.len
  <2>1. /\ c.at \in Nat /\ c.item.size \in Nat /\ c.item.size >= 16
        /\ c.at + c.item.size <= archive.len /\ archive.len \in Nat
    BY CellFacts
  <2> QED BY <1>1, <2>1 DEF HeaderSize
<1> QED BY <1>2, <1>3 DEF Headers, Items

LEMMA ReadsEntry ==
  ASSUME Intact, NEW c \in archive.cells, c.item.htype # "DATA",
         NEW before, before.pos = c.at,
         Enter(before, "Default").pos = before.pos
  PROVE  LET d == Enter(before, "Default") IN
         /\ c.item.htype = "HARDLINK" =>
              ReadNextEntry(before)
                = {Outcome(ReadItem(d, c.item), EntryAt(d, "Hardlink"))}
         /\ c.item.htype = "ENTRY" =>
              ReadNextEntry(before)
                = EndEntry([d EXCEPT !.pos = @ + c.item.size], c.item.kind)
         /\ c.item.htype = "FORMAT_VERSION" /\ before.state = "Begin" =>
              ReadNextEntry(before)
                = {Outcome(ReadItem(d, c.item), EntryAt(d, "Version"))}
         /\ c.item.htype = "PRELUDE" /\ before.state = "Prelude" =>
              ReadNextEntry(before)
                = {Outcome(ReadItem(d, c.item), EntryAt(d, "Prelude"))}
<1> DEFINE d == Enter(before, "Default")
           plain(htype, kind) ==
             {Outcome(ReadItem(d, item), EntryAt(d, kind)) :
                item \in Items(d, {htype})}
           hardlinks == plain("HARDLINK", "Hardlink")
           versions == IF before.state = "Begin"
                         THEN plain("FORMAT_VERSION", "Version") ELSE {}
           preludes == IF before.state = "Prelude"
                         THEN plain("PRELUDE", "Prelude") ELSE {}
           Ended(item) == EndEntry([d EXCEPT !.pos = @ + item.size], item.kind)
           entries == UNION {Ended(item) : item \in Items(d, {"ENTRY"})}
<1>1. ReadNextEntry(before) = hardlinks \cup versions \cup preludes \cup entries
  BY DEF ReadNextEntry
<1>2. d.pos = c.at
  OBVIOUS
<1> HIDE DEF d
<1>3. \A htype : /\ c.item.htype = htype => Items(d, {htype}) = {c.item}
                 /\ c.item.htype # htype => Items(d, {htype}) = {}
  <2> SUFFICES ASSUME NEW htype
               PROVE  /\ c.item.htype = htype => Items(d, {htype}) = {c.item}
                      /\ c.item.htype # htype => Items(d, {htype}) = {}
    OBVIOUS
  <2>1. c.item.htype = htype <=> c.item.htype \in {htype}
    OBVIOUS
  <2> QED BY <1>2, <2>1, ReadsCell
<1>4. /\ c.item.htype # "HARDLINK" => hardlinks = {}
      /\ c.item.htype # "FORMAT_VERSION" => versions = {}
      /\ c.item.htype # "PRELUDE" => preludes = {}
  BY <1>3
<1>5. c.item.htype # "ENTRY" => entries = {}
  <2> HIDE DEF Ended
  <2> QED BY <1>3
<1>6. c.item.htype = "ENTRY" => entries = Ended(c.item)
  <2> HIDE DEF Ended
  <2> QED BY <1>3
<1>7. /\ c.item.htype = "HARDLINK" =>
           hardlinks = {Outcome(ReadItem(d, c.item), EntryAt(d, "Hardlink"))}
      /\ c.item.htype = "FORMAT_VERSION" /\ before.state = "Begin" =>
           versions = {Outcome(ReadItem(d, c.item), EntryAt(d, "Version"))}
      /\ c.item.htype = "PRELUDE" /\ before.state = "Prelude" =>
           preludes = {Outcome(ReadItem(d, c.item), EntryAt(d, "Prelude"))}
  BY <1>3
<1> HIDE DEF hardlinks, versions, preludes, entries
<1>8. c.item.htype = "ENTRY" => ReadNextEntry(before) = Ended(c.item)
  <2> HIDE DEF Ended
  <2> QED BY <1>1, <1>4, <1>6
<1> QED BY <1>1, <1>4, <1>5, <1>7, <1>8 DEF d

RefOutcomes(d, item) ==
  {Outcome(EnterContents(x, item.content),
           FileEntry(d, item, <<item.offset>>)) :
     x \in ToPayload(ReadItem(d, item), item.offset)}

DirOutcome(d, item) ==
  Outcome([Enter(Load(d, item), "InDirectory") EXCEPT
             !.path_lengths = Append(@, Len(d.path))],
          EntryAt(d, "Directory"))

LEMMA EndsEntry ==
  ASSUME Intact, NEW c \in archive.cells, c.item.htype # "DATA",
         NEW d, d.pos = c.at, NEW kind
  PROVE  /\ c.item.htype = "SYMLINK" =>
              EndEntry(d, kind)
                = {Outcome(ReadItem(d, c.item), EntryAt(d, "Symlink"))}
         /\ c.item.htype = "DEVICE" =>
              EndEntry(d, kind)
                = {Outcome(ReadItem(d, c.item), EntryAt(d, "Device"))}
         /\ c.item.htype = "PAYLOAD" =>
              EndEntry(d, kind)
                = {Outcome(EnterContents(Load(d, c.item), c.item.content),
                           FileEntry(d, c.item, <<>>))}
         /\ c.item.htype = "PAYLOAD_REF" =>
              EndEntry(d, kind)
                = RefOutcomes(d, c.item)
         /\ c.item.htype \in Rest /\ kind = "fifo" =>
              EndEntry(d, kind)
                = {Outcome(Enter(Load(d, c.item), "InSpecialFile"),
                           EntryAt(d, "Fifo"))}
         /\ c.item.htype \in Rest /\ kind = "socket" =>
              EndEntry(d, kind)
                = {Outcome(Enter(Load(d, c.item), "InSpecialFile"),
                           EntryAt(d, "Socket"))}
         /\ c.item.htype \in Rest /\ kind \notin {"fifo", "socket"} =>
              EndEntry(d, kind)
                = {DirOutcome(d, c.item)}
<1> DEFINE symlinks == {Outcome(ReadItem(d, c.item), EntryAt(d, "Symlink"))}
           devices == {Outcome(ReadItem(d, c.item), EntryAt(d, "Device"))}
           files == {Outcome(EnterContents(Load(d, c.item), c.item.content),
                             FileEntry(d, c.item, <<>>))}
           refs == RefOutcomes(d, c.item)
<1>1. \A htype : /\ c.item.htype = htype => Items(d, {htype}) = {c.item}
                 /\ c.item.htype # htype => Items(d, {htype}) = {}
  <2> SUFFICES ASSUME NEW htype
               PROVE  /\ c.item.htype = htype => Items(d, {htype}) = {c.item}
                      /\ c.item.htype # htype => Items(d, {htype}) = {}
    OBVIOUS
  <2>1. c.item.htype = htype <=> c.item.htype \in {htype}
    OBVIOUS
  <2> QED BY <2>1, ReadsCell
<1>2. EndSymlink(d) = IF c.item.htype = "SYMLINK" THEN symlinks ELSE {}
  BY <1>1 DEF EndSymlink
<1>3. EndDevice(d) = IF c.item.htype = "DEVICE" THEN devices ELSE {}
  BY <1>1 DEF EndDevice
<1>4. EndFile(d) = IF c.item.htype = "PAYLOAD" THEN files ELSE {}
  BY <1>1 DEF EndFile
<1>5. EndFileRef(d) = IF c.item.htype = "PAYLOAD_REF" THEN refs ELSE {}
  <2> DEFINE Refs(item) == RefOutcomes(d, item)
  <2>1. EndFileRef(d) = UNION {Refs(item) : item \in Items(d, {"PAYLOAD_REF"})}
    BY DEF EndFileRef, RefOutcomes
  <2>2. refs = Refs(c.item)
    OBVIOUS
  <2> HIDE DEF Refs, refs
  <2>3. CASE c.item.htype = "PAYLOAD_REF"
    <3>1. Items(d, {"PAYLOAD_REF"}) = {c.item}
      BY <1>1, <2>3
    <3>2. {Refs(item) : item \in {c.item}} = {Refs(c.item)}
      OBVIOUS
    <3> QED BY <2>1, <2>2, <2>3, <3>1, <3>2
  <2>4. CASE c.item.htype # "PAYLOAD_REF"
    <3>1. Items(d, {"PAYLOAD_REF"}) = {}
      BY <1>1, <2>4
    <3> QED BY <2>1, <2>4, <3>1
  <2> QED BY <2>3, <2>4
<1>6. /\ c.item.htype \in Rest => Headers(d, {"FILENAME", "GOODBYE"}) = {c.item}
      /\ c.item.htype \notin Rest => Headers(d, {"FILENAME", "GOODBYE"}) = {}
  BY ReadsCell DEF Rest
<1>7. c.item.htype \notin Rest => EndOther(d, kind) = {}
  BY <1>6 DEF EndOther
<1>8. /\ c.item.htype \in Rest /\ kind = "fifo" =>
           EndOther(d, kind)
             = {Outcome(Enter(Load(d, c.item), "InSpecialFile"),
                        EntryAt(d, "Fifo"))}
      /\ c.item.htype \in Rest /\ kind = "socket" =>
           EndOther(d, kind)
             = {Outcome(Enter(Load(d, c.item), "InSpecialFile"),
                        EntryAt(d, "Socket"))}
      /\ c.item.htype \in Rest /\ kind \notin {"fifo", "socket"} =>
           EndOther(d, kind)
             = {DirOutcome(d, c.item)}
  BY <1>6 DEF EndOther, DirOutcome
<1>9. /\ c.item.htype \in Rest =>
           c.item.htype \notin {"SYMLINK", "DEVICE", "PAYLOAD", "PAYLOAD_REF"}
      /\ c.item.htype \in {"SYMLINK", "DEVICE", "PAYLOAD", "PAYLOAD_REF"} =>
           c.item.htype \notin Rest
  BY DEF Rest
<1> DEFINE all == EndEntry(d, kind)
<1>10. all = EndSymlink(d) \cup EndDevice(d) \cup EndFile(d)
               \cup EndFileRef(d) \cup EndOther(d, kind)
  BY DEF EndEntry
<1>11. c.item.htype = "SYMLINK" => all = symlinks
  <2> HIDE DEF symlinks, all
  <2> QED BY <1>2, <1>3, <1>4, <1>5, <1>7, <1>9, <1>10
<1>12. c.item.htype = "DEVICE" => all = devices
  <2> HIDE DEF devices, all
  <2> QED BY <1>2, <1>3, <1>4, <1>5, <1>7, <1>9, <1>10
<1>13. c.item.htype = "PAYLOAD" => all = files
  <2> HIDE DEF files, all
  <2> QED BY <1>2, <1>3, <1>4, <1>5, <1>7, <1>9, <1>10
<1>14. c.item.htype = "PAYLOAD_REF" => all = refs
  <2> HIDE DEF refs, all
  <2> QED BY <1>2, <1>3, <1>4, <1>5, <1>7, <1>9, <1>10
<1>15. c.item.htype \in Rest => all = EndOther(d, kind)
  <2> HIDE DEF all
  <2> QED BY <1>2, <1>3, <1>4, <1>5, <1>9, <1>10
<1> QED BY <1>8, <1>11, <1>12, <1>13, <1>14, <1>15

-----------------------------------------------------------------------------
(***************************************************************************)
(* Where the decoder stands when the next thing to deal with is the item at  *)
(* q, a FILENAME or a table.                                               *)
(***************************************************************************)
AtItem(d, q, htypes) ==
  \E x \in archive.cells : /\ x.at = q /\ x.item.htype \in htypes
                           /\ d.header = x.item /\ d.pos = q + HeaderSize

InContents(d, q) ==
  IF PayloadInput
    THEN d.pos = q
    ELSE /\ d.header.htype = "PAYLOAD"
         /\ d.header.content = d.contents.size
         /\ d.pos + (d.contents.size - d.contents.offset) = q

Stands(d, q) ==
  \/ d.state = "Default" /\ d.pos = q
  \/ d.state \in {"InDirectory", "InSpecialFile"} /\ AtItem(d, q, Rest)
  \/ d.state = "InGoodbyeTable" /\ AtItem(d, q, {"GOODBYE"})
  \/ d.state = "InPayload" /\ InContents(d, q)

(* What is or will be consumed of the payload input with the current file.   *)
Used(d) ==
  IF d.state = "InPayload"
    THEN d.payload_consumed
           + (IF d.contents.header_checked THEN 0 ELSE HeaderSize)
           + d.contents.size
    ELSE d.payload_consumed

(* The references to come lead further on.                                   *)
Ahead(d, q) ==
  PayloadInput =>
    \A r \in CellsOf(archive, "PAYLOAD_REF") :
      q <= r.at => Used(d) <= r.item.offset

(* The contents are those of the entry that was returned, the first behind p. *)
Opened(d, entry, p) ==
  d.state = "InPayload" =>
    IF PayloadInput
      THEN \E y \in CellsOf(payload, "PAYLOAD") :
             /\ entry.payload_offset = <<y.at>>
             /\ y.item.content = d.contents.size
             /\ d.payload_consumed
                  = y.at + (IF d.contents.header_checked THEN HeaderSize ELSE 0)
             /\ ~d.contents.header_checked => d.contents.offset = 0
      ELSE \E c \in CellsOf(archive, "PAYLOAD") :
             /\ p < c.at
             /\ \A z \in CellsOf(archive, "PAYLOAD") : p < z.at => c.at <= z.at
             /\ c.item.content = d.contents.size
             /\ d.pos = c.at + HeaderSize + d.contents.offset

(* An entry was read with decoder d, which now goes on at q.                 *)
Arrived(o, d, kind, lengths, p, q) ==
  /\ o = Outcome(o.decoder, o.entry)
  /\ o.entry.path = d.path /\ o.entry.kind = kind
  /\ o.decoder.path = d.path /\ o.decoder.path_lengths = lengths
  /\ kind # "File" => o.decoder.state # "InPayload"
  /\ Opened(o.decoder, o.entry, p)
  /\ Stands(o.decoder, q) /\ Ahead(o.decoder, q)

LEMMA ReadItemFields ==
  ASSUME NEW d \in Decoders, NEW item
  PROVE  LET x == ReadItem(d, item) IN
         /\ x.pos = d.pos + item.size /\ x.header = item
         /\ x.state = d.state /\ x.contents = d.contents
         /\ x.path = d.path /\ x.path_lengths = d.path_lengths
         /\ x.payload_pos = d.payload_pos
         /\ x.payload_consumed = d.payload_consumed
  BY DEF ReadItem, Decoders

LEMMA LoadFields ==
  ASSUME NEW d \in Decoders, NEW item
  PROVE  LET x == Load(d, item) IN
         /\ x.pos = d.pos + HeaderSize /\ x.header = item
         /\ x.state = d.state /\ x.contents = d.contents
         /\ x.path = d.path /\ x.path_lengths = d.path_lengths
         /\ x.payload_pos = d.payload_pos
         /\ x.payload_consumed = d.payload_consumed
  BY DEF Load, Decoders

LEMMA EnterFields ==
  ASSUME NEW d \in Decoders, NEW s
  PROVE  LET x == Enter(d, s) IN
         /\ x.pos = d.pos /\ x.header = d.header
         /\ x.state = s /\ x.contents = d.contents
         /\ x.path = d.path /\ x.path_lengths = d.path_lengths
         /\ x.payload_pos = d.payload_pos
         /\ x.payload_consumed = d.payload_consumed
  BY DEF Enter, Decoders

LEMMA EnterContentsFields ==
  ASSUME NEW d \in Decoders, NEW size
  PROVE  LET x == EnterContents(d, size) IN
         /\ x.pos = d.pos /\ x.header = d.header
         /\ x.state = "InPayload"
         /\ x.contents.offset = 0 /\ x.contents.size = size
         /\ x.contents.header_checked = FALSE
         /\ x.path = d.path /\ x.path_lengths = d.path_lengths
         /\ x.payload_pos = d.payload_pos
         /\ x.payload_consumed = d.payload_consumed
  BY DEF EnterContents, Decoders, NoContents

LEMMA EntryFields ==
  ASSUME NEW d
  PROVE  /\ \A kind : /\ EntryAt(d, kind).path = d.path
                      /\ EntryAt(d, kind).kind = kind
         /\ \A item, offset :
              /\ FileEntry(d, item, offset).path = d.path
              /\ FileEntry(d, item, offset).kind = "File"
              /\ FileEntry(d, item, offset).payload_offset = offset
  BY DEF EntryAt, FileEntry

LEMMA OutcomeParts ==
  ASSUME NEW d, NEW entry
  PROVE  /\ Outcome(d, entry).decoder = d /\ Outcome(d, entry).entry = entry
  BY DEF Outcome

(* The decoder in the middle of an entry, behind its ENTRY if there is one.   *)
Reading(d, q) ==
  /\ d \in Decoders /\ d.pos = q /\ d.state = "Default" /\ Ahead(d, q)

(* SYMLINK, DEVICE or HARDLINK.                                              *)
LEMMA PlainArrives ==
  ASSUME Intact, NEW f \in archive.cells, NEW d, Reading(d, f.at),
         NEW kind, NEW p
  PROVE  Arrived(Outcome(ReadItem(d, f.item), EntryAt(d, kind)), d, kind,
                 d.path_lengths, p, EndOf(f))
<1> DEFINE x == ReadItem(d, f.item)
           entry == EntryAt(d, kind)
           o == Outcome(x, entry)
<1>1. /\ x.pos = EndOf(f) /\ x.state = "Default"
      /\ x.path = d.path /\ x.path_lengths = d.path_lengths
      /\ x.payload_consumed = d.payload_consumed
  BY ReadItemFields DEF Reading, EndOf
<1>2. entry.path = d.path /\ entry.kind = kind
  BY EntryFields
<1>3. o.decoder = x /\ o.entry = entry
  BY OutcomeParts
<1>4. Ahead(x, EndOf(f))
  <2> SUFFICES ASSUME PayloadInput, NEW r \in CellsOf(archive, "PAYLOAD_REF"),
                      EndOf(f) <= r.at
               PROVE  Used(x) <= r.item.offset
    BY DEF Ahead
  <2>1. r \in archive.cells
    BY DEF CellsOf
  <2>2. f.at <= r.at
    BY <2>1, CellFacts
  <2>3. Used(d) <= r.item.offset
    BY <2>2 DEF Reading, Ahead
  <2>4. Used(x) = Used(d)
    BY <1>1 DEF Used, Reading
  <2> QED BY <2>3, <2>4
<1>5. o = Outcome(o.decoder, o.entry)
  BY <1>3
<1> HIDE DEF x, entry, o
<1>6. Arrived(o, d, kind, d.path_lengths, p, EndOf(f))
  BY <1>1, <1>2, <1>3, <1>4, <1>5 DEF Arrived, Opened, Stands
<1> QED BY <1>6 DEF x, entry, o

(* PAYLOAD: the contents are next.                                           *)
LEMMA FileArrives ==
  ASSUME Intact, ~PayloadInput, NEW f \in archive.cells,
         f.item.htype = "PAYLOAD", NEW d, Reading(d, f.at), NEW p, p < f.at,
         \A z \in CellsOf(archive, "PAYLOAD") : p < z.at => f.at <= z.at
  PROVE  Arrived(Outcome(EnterContents(Load(d, f.item), f.item.content),
                         FileEntry(d, f.item, <<>>)),
                 d, "File", d.path_lengths, p,
                 f.at + HeaderSize + f.item.content)
<1> DEFINE l == Load(d, f.item)
           x == EnterContents(l, f.item.content)
           entry == FileEntry(d, f.item, <<>>)
           o == Outcome(x, entry)
           q == f.at + HeaderSize + f.item.content
<1>1. /\ l.pos = f.at + HeaderSize /\ l.header = f.item
      /\ l.path = d.path /\ l.path_lengths = d.path_lengths
  BY LoadFields DEF Reading
<1>2. l \in Decoders
  <2>1. f.item \in CurrentHeaders
    BY DEF CurrentHeaders, Intact, Whole
  <2>2. f.at + HeaderSize \in Nat
    BY CellFacts DEF HeaderSize
  <2>3. d \in Decoders /\ d.pos = f.at
    BY DEF Reading
  <2> QED BY <2>1, <2>2, <2>3 DEF Load, Decoders
<1> HIDE DEF l
<1>3. /\ x.pos = f.at + HeaderSize /\ x.header = f.item
      /\ x.state = "InPayload"
      /\ x.contents.offset = 0 /\ x.contents.size = f.item.content
      /\ x.path = d.path /\ x.path_lengths = d.path_lengths
  BY <1>1, <1>2, EnterContentsFields
<1>4. entry.path = d.path /\ entry.kind = "File"
  BY EntryFields
<1>5. o.decoder = x /\ o.entry = entry /\ o = Outcome(o.decoder, o.entry)
  BY OutcomeParts
<1>6. /\ f.at \in Nat /\ f.item.content \in Nat
      /\ f \in CellsOf(archive, "PAYLOAD")
  <2>1. FileSizes \subseteq Nat
    BY EncoderAssumption
  <2>2. f.item.content \in FileSizes
    BY CellFacts DEF ItemOK
  <2> QED BY <2>1, <2>2, CellFacts DEF CellsOf
<1> HIDE DEF x, entry, o
<1>7. Opened(x, entry, p)
  BY <1>3, <1>6 DEF Opened, HeaderSize
<1>8. Stands(x, q)
  BY <1>3, <1>6 DEF Stands, InContents, HeaderSize
<1>9. Ahead(x, q)
  BY DEF Ahead
<1>10. Arrived(o, d, "File", d.path_lengths, p, q)
  <2> HIDE DEF q
  <2> QED BY <1>3, <1>4, <1>5, <1>7, <1>8, <1>9 DEF Arrived
<1> QED BY <1>10 DEF l, x, entry, o, q

(* PAYLOAD_REF: the payload input is read up to the header it leads to.       *)
LEMMA RefArrives ==
  ASSUME Intact, PayloadInput, InputsOK, NEW f \in archive.cells,
         f.item.htype = "PAYLOAD_REF", NEW d, Reading(d, f.at), Ready(d),
         NEW p
  PROVE  \E o : /\ {Outcome(EnterContents(x, f.item.content),
                            FileEntry(d, f.item, <<f.item.offset>>)) :
                      x \in ToPayload(ReadItem(d, f.item), f.item.offset)}
                     = {o}
                /\ Arrived(o, d, "File", d.path_lengths, p, EndOf(f))
<1> DEFINE l == ReadItem(d, f.item)
           offset == f.item.offset
           x == [l EXCEPT !.payload_pos = @ + (offset - l.payload_consumed),
                          !.payload_consumed = offset]
           t == EnterContents(x, f.item.content)
           entry == FileEntry(d, f.item, <<offset>>)
           o == Outcome(t, entry)
<1>1. /\ f \in CellsOf(archive, "PAYLOAD_REF") /\ f.at \in Nat
      /\ offset \in Nat /\ f.item.content \in Nat
      /\ EndOf(f) = f.at + f.item.size /\ EndOf(f) \in Nat
      /\ EndOf(f) <= archive.len /\ archive.len \in Nat
      /\ f.at < EndOf(f) /\ f.item \in CurrentHeaders /\ f.item.size \in Nat
  <2>1. FileSizes \subseteq Nat
    BY EncoderAssumption
  <2>2. f.item.content \in FileSizes /\ offset \in Nat
    BY CellFacts DEF ItemOK
  <2>3. f.item.content \in Nat
    BY <2>1, <2>2
  <2>4. f.item \in CurrentHeaders
    BY DEF CurrentHeaders, Intact, Whole
  <2> QED BY <2>2, <2>3, <2>4, CellFacts DEF CellsOf
<1>2. /\ l.pos = EndOf(f) /\ l.path = d.path
      /\ l.path_lengths = d.path_lengths
      /\ l.payload_consumed = d.payload_consumed
      /\ l.payload_pos = d.payload_pos
  BY <1>1, ReadItemFields DEF Reading, EndOf
<1>3. l \in Decoders
  <2>1. d.pos + f.item.size \in Nat /\ d \in Decoders
    BY <1>1 DEF Reading
  <2> QED BY <1>1, <2>1 DEF ReadItem, Decoders
<1>4. /\ d.payload_consumed \in Nat /\ d.payload_pos = d.payload_consumed
  BY DEF Ready, DecoderOK, Decoders, AtConsumed
<1>5. d.payload_consumed <= offset
  BY <1>1 DEF Reading, Ahead, Used
<1>6. PICK y \in CellsOf(payload, "PAYLOAD") :
        y.at = offset /\ y.item.content = f.item.content
  BY <1>1 DEF Intact, RefsLead
<1>7. offset <= payload_input.len
  <2>1. Stream(payload) /\ payload_input = payload
    BY DEF Intact, Whole
  <2>2. y \in payload.cells
    BY DEF CellsOf
  <2> QED BY <1>6, <2>1, <2>2 DEF Stream, ItemOK
<1>8. l.payload_pos + (offset - l.payload_consumed) = offset
  BY <1>1, <1>2, <1>4
<1>9. x = [l EXCEPT !.payload_pos = offset, !.payload_consumed = offset]
  <2> HIDE DEF l, offset
  <2> QED BY <1>3, <1>8 DEF Decoders
<1> HIDE DEF l, offset, x
<1>10. /\ x \in Decoders
       /\ x.payload_pos = offset /\ x.payload_consumed = offset
       /\ x.pos = EndOf(f) /\ x.path = d.path
       /\ x.path_lengths = d.path_lengths
  BY <1>1, <1>2, <1>3, <1>9 DEF Decoders, offset
<1>11. ToPayload(l, offset) = {x}
  <2>1. l.payload_consumed <= offset
    BY <1>2, <1>5
  <2>2. x.payload_pos <= payload_input.len
    BY <1>7, <1>10
  <2> QED BY <2>1, <2>2 DEF ToPayload, x
<1>12. /\ t.pos = EndOf(f) /\ t.state = "InPayload"
       /\ t.contents.offset = 0 /\ t.contents.size = f.item.content
       /\ t.contents.header_checked = FALSE
       /\ t.path = d.path /\ t.path_lengths = d.path_lengths
       /\ t.payload_consumed = offset
  BY <1>10, EnterContentsFields
<1>13. /\ entry.path = d.path /\ entry.kind = "File"
       /\ entry.payload_offset = <<offset>>
  BY EntryFields
<1>14. o.decoder = t /\ o.entry = entry /\ o = Outcome(o.decoder, o.entry)
  BY OutcomeParts
<1>15. {Outcome(EnterContents(z, f.item.content), entry) :
          z \in ToPayload(l, offset)} = {o}
  BY <1>11
<1> HIDE DEF t, entry, o
<1>16. Opened(t, entry, p)
  BY <1>1, <1>6, <1>12, <1>13 DEF Opened, offset
<1>17. Stands(t, EndOf(f))
  BY <1>12 DEF Stands, InContents
<1>18. Ahead(t, EndOf(f))
  <2> SUFFICES ASSUME NEW r \in CellsOf(archive, "PAYLOAD_REF"),
                      EndOf(f) <= r.at
               PROVE  Used(t) <= r.item.offset
    BY DEF Ahead
  <2>1. r.at \in Nat
    BY CellFacts DEF CellsOf
  <2>2. f.at < r.at
    BY <1>1, <2>1
  <2>3. offset + HeaderSize + f.item.content <= r.item.offset
    BY <1>1, <2>2 DEF Intact, RefsLead, offset
  <2> QED BY <1>1, <1>12, <2>3 DEF Used
<1>19. Arrived(o, d, "File", d.path_lengths, p, EndOf(f))
  BY <1>12, <1>13, <1>14, <1>16, <1>17, <1>18 DEF Arrived
<1> QED BY <1>15, <1>19 DEF l, offset, entry, o, t

(* Nothing more: a fifo, a socket or, its path remembered, a directory.       *)
LEMMA OtherArrives ==
  ASSUME Intact, NEW f \in archive.cells, f.item.htype \in Rest,
         NEW d, Reading(d, f.at), NEW kind, NEW p
  PROVE  /\ Arrived(Outcome(Enter(Load(d, f.item), "InSpecialFile"),
                            EntryAt(d, kind)),
                    d, kind, d.path_lengths, p, f.at)
         /\ Arrived(Outcome([Enter(Load(d, f.item), "InDirectory") EXCEPT
                               !.path_lengths = Append(@, Len(d.path))],
                            EntryAt(d, kind)),
                    d, kind, Append(d.path_lengths, Len(d.path)), p, f.at)
<1> DEFINE l == Load(d, f.item)
           s == Enter(l, "InSpecialFile")
           m == Enter(l, "InDirectory")
           lengths == Append(d.path_lengths, Len(d.path))
           t == [m EXCEPT !.path_lengths = Append(@, Len(d.path))]
           entry == EntryAt(d, kind)
<1>1. /\ l.pos = f.at + HeaderSize /\ l.header = f.item
      /\ l.path = d.path /\ l.path_lengths = d.path_lengths
      /\ l.payload_consumed = d.payload_consumed
  BY LoadFields DEF Reading
<1>2. l \in Decoders
  <2>1. f.item \in CurrentHeaders
    BY DEF CurrentHeaders, Intact, Whole, Rest
  <2>2. f.at + HeaderSize \in Nat
    BY CellFacts DEF HeaderSize
  <2>3. d \in Decoders /\ d.pos = f.at
    BY DEF Reading
  <2> QED BY <2>1, <2>2, <2>3 DEF Load, Decoders
<1> HIDE DEF l
<1>3. /\ s.pos = f.at + HeaderSize /\ s.header = f.item
      /\ s.state = "InSpecialFile"
      /\ s.path = d.path /\ s.path_lengths = d.path_lengths
      /\ s.payload_consumed = d.payload_consumed
  BY <1>1, <1>2, EnterFields
<1>4. /\ m.pos = f.at + HeaderSize /\ m.header = f.item
      /\ m.state = "InDirectory"
      /\ m.path = d.path /\ m.path_lengths = d.path_lengths
      /\ m.payload_consumed = d.payload_consumed
  BY <1>1, <1>2, EnterFields
<1>5. m \in Decoders
  <2>1. "InDirectory" \in States
    BY DEF States
  <2> QED BY <1>2, <2>1 DEF Enter, Decoders
<1> HIDE DEF s, m
<1>6. /\ t.pos = f.at + HeaderSize /\ t.header = f.item
      /\ t.state = "InDirectory"
      /\ t.path = d.path /\ t.path_lengths = lengths
      /\ t.payload_consumed = d.payload_consumed
  BY <1>4, <1>5 DEF Decoders
<1>7. entry.path = d.path /\ entry.kind = kind
  BY EntryFields
<1>8. \A z : /\ Outcome(z, entry).decoder = z
             /\ Outcome(z, entry).entry = entry
  BY OutcomeParts
<1> HIDE DEF t, entry, lengths
<1>9. ASSUME NEW z, z.state \in {"InSpecialFile", "InDirectory"},
             z.pos = f.at + HeaderSize, z.header = f.item, z.path = d.path,
             z.payload_consumed = d.payload_consumed
      PROVE  Arrived(Outcome(z, entry), d, kind, z.path_lengths, p, f.at)
  <2>1. Ahead(z, f.at)
    <3>1. z.state # "InPayload" /\ d.state # "InPayload"
      BY <1>9 DEF Reading
    <3>2. Used(z) = Used(d)
      BY <1>9, <3>1 DEF Used
    <3> QED BY <3>2 DEF Reading, Ahead
  <2>2. Stands(z, f.at)
    BY <1>9 DEF Stands, AtItem
  <2>3. Opened(z, entry, p)
    BY <1>9 DEF Opened
  <2> QED BY <1>7, <1>8, <1>9, <2>1, <2>2, <2>3 DEF Arrived
<1>10. Arrived(Outcome(s, entry), d, kind, s.path_lengths, p, f.at)
  BY <1>3, <1>9
<1>11. Arrived(Outcome(t, entry), d, kind, t.path_lengths, p, f.at)
  BY <1>6, <1>9
<1> QED BY <1>3, <1>6, <1>10, <1>11 DEF l, s, m, t, entry, lengths

(* What an entry that begins with the given item is.                         *)
ItemKind(item) ==
  IF item.htype = "HARDLINK"
    THEN "Hardlink"
    ELSE CASE item.kind = "dir" -> "Directory"
           [] item.kind = "file" -> "File"
           [] item.kind = "symlink" -> "Symlink"
           [] item.kind = "device" -> "Device"
           [] item.kind = "fifo" -> "Fifo"
           [] item.kind = "socket" -> "Socket"

LEMMA KindOfIs ==
  ASSUME Intact, NEW x \in Filenames, NEW e \in archive.cells,
         e.at = EndOf(x)
  PROVE  KindOf(x) = ItemKind(e.item)
<1>1. Behind(x) = {e.item}
  <2>1. {y \in archive.cells : y.at = x.at + x.item.size} = {e}
    BY OneAt DEF EndOf
  <2> QED BY <2>1 DEF Behind
<1>2. (CHOOSE item \in Behind(x) : TRUE) = e.item
  BY <1>1
<1> DEFINE Name(kind) == CASE kind = "dir" -> "Directory"
                           [] kind = "file" -> "File"
                           [] kind = "symlink" -> "Symlink"
                           [] kind = "device" -> "Device"
                           [] kind = "fifo" -> "Fifo"
                           [] kind = "socket" -> "Socket"
<1>3. KindOf(x) = IF \E item \in Behind(x) : item.htype = "HARDLINK"
                    THEN "Hardlink"
                    ELSE Name((CHOOSE item \in Behind(x) : TRUE).kind)
  BY DEF KindOf
<1>4. ItemKind(e.item) = IF e.item.htype = "HARDLINK"
                           THEN "Hardlink" ELSE Name(e.item.kind)
  BY DEF ItemKind
<1> HIDE DEF Name
<1> QED BY <1>1, <1>2, <1>3, <1>4

EntryTags == FileKinds \cup {"HARDLINK"}

LEMMA KindNames ==
  ASSUME NEW item, Tag(item) \in EntryTags, ItemOK(item)
  PROVE  /\ item.htype = "HARDLINK" => ItemKind(item) = "Hardlink"
         /\ item.htype = "HARDLINK" \/ item.htype = "ENTRY"
         /\ item.htype = "ENTRY" => /\ item.kind = Tag(item)
                                    /\ item.kind \in FileKinds
         /\ item.htype = "ENTRY" =>
              /\ item.kind = "dir" => ItemKind(item) = "Directory"
              /\ item.kind = "file" => ItemKind(item) = "File"
              /\ item.kind = "symlink" => ItemKind(item) = "Symlink"
              /\ item.kind = "device" => ItemKind(item) = "Device"
              /\ item.kind = "fifo" => ItemKind(item) = "Fifo"
              /\ item.kind = "socket" => ItemKind(item) = "Socket"
         /\ ItemKind(item) \notin {"Version", "Prelude", "GoodbyeTable"}
<1>1. /\ item.htype = "HARDLINK" \/ item.htype = "ENTRY"
      /\ item.htype = "ENTRY" =>
           item.kind = Tag(item) /\ item.kind \in FileKinds
  BY TagTells DEF EntryTags, FileKinds
<1>2. item.htype = "HARDLINK" => ItemKind(item) = "Hardlink"
  BY DEF ItemKind
<1>3. item.htype = "ENTRY" =>
        /\ item.kind = "dir" => ItemKind(item) = "Directory"
        /\ item.kind = "file" => ItemKind(item) = "File"
        /\ item.kind = "symlink" => ItemKind(item) = "Symlink"
        /\ item.kind = "device" => ItemKind(item) = "Device"
        /\ item.kind = "fifo" => ItemKind(item) = "Fifo"
        /\ item.kind = "socket" => ItemKind(item) = "Socket"
  BY DEF ItemKind
<1> QED BY <1>1, <1>2, <1>3 DEF FileKinds

LEMMA BeginsReading ==
  ASSUME Intact, NEW before, Ready(before), before.state # "InPayload",
         NEW e \in archive.cells, before.pos = e.at, Ahead(before, e.at)
  PROVE  LET d == Enter(before, "Default")
             t == [d EXCEPT !.pos = @ + e.item.size]
         IN /\ Ready(d) /\ Reading(d, e.at) /\ d.pos = before.pos
            /\ d.path = before.path /\ d.path_lengths = before.path_lengths
            /\ Ready(t) /\ Reading(t, EndOf(e))
            /\ t.path = before.path /\ t.path_lengths = before.path_lengths
<1> DEFINE d == Enter(before, "Default")
           t == [d EXCEPT !.pos = @ + e.item.size]
<1> SUFFICES /\ Ready(d) /\ Reading(d, e.at) /\ d.pos = before.pos
             /\ d.path = before.path /\ d.path_lengths = before.path_lengths
             /\ Ready(t) /\ Reading(t, EndOf(e))
             /\ t.path = before.path /\ t.path_lengths = before.path_lengths
  OBVIOUS
<1>1. before \in Decoders
  BY DEF Ready, DecoderOK
<1>2. /\ d.pos = before.pos /\ d.state = "Default"
      /\ d.path = before.path /\ d.path_lengths = before.path_lengths
      /\ d.payload_consumed = before.payload_consumed
  BY <1>1, EnterFields
<1>3. Ready(d)
  BY EnterOK DEF Fresh, States
<1> HIDE DEF d
<1>4. d \in Decoders
  BY <1>3 DEF Ready, DecoderOK
<1>5. /\ e.at \in Nat /\ e.item.size \in Nat /\ EndOf(e) \in Nat
      /\ EndOf(e) = e.at + e.item.size /\ EndOf(e) <= archive.len
      /\ archive.len \in Nat /\ e.at < EndOf(e)
  BY CellFacts
<1>6. d.pos + e.item.size <= input.len
  BY <1>2, <1>5 DEF Intact, Whole
<1>7. t \in Skip(d, e.item.size)
  BY <1>6 DEF Skip
<1>8. /\ t.pos = EndOf(e) /\ t.state = "Default"
      /\ t.path = before.path /\ t.path_lengths = before.path_lengths
      /\ t.payload_consumed = before.payload_consumed
  BY <1>2, <1>4, <1>5 DEF Decoders
<1>9. Ready(t)
  BY <1>3, <1>5, <1>7, SkipOK
<1> HIDE DEF t
<1>10. t \in Decoders
  BY <1>9 DEF Ready, DecoderOK
<1>11. Ahead(d, e.at)
  BY <1>2 DEF Ahead, Used
<1>12. Ahead(t, EndOf(e))
  <2> SUFFICES ASSUME PayloadInput, NEW r \in CellsOf(archive, "PAYLOAD_REF"),
                      EndOf(e) <= r.at
               PROVE  Used(t) <= r.item.offset
    BY DEF Ahead
  <2>1. r.at \in Nat
    BY CellFacts DEF CellsOf
  <2>2. e.at <= r.at
    BY <1>5, <2>1
  <2>3. Used(before) <= r.item.offset
    BY <2>2 DEF Ahead
  <2> QED BY <1>8, <2>3 DEF Used
<1> QED BY <1>2, <1>3, <1>4, <1>8, <1>9, <1>10, <1>11, <1>12 DEF Reading

LengthsAfter(d, e) ==
  IF IsDirEntry(e) THEN Append(d.path_lengths, Len(d.path))
                   ELSE d.path_lengths

LEMMA EndsPlain ==
  ASSUME Intact, NEW c \in archive.cells, NEW d, d.pos = c.at, NEW kind
  PROVE  /\ c.item.htype = "SYMLINK" =>
              EndEntry(d, kind)
                = {Outcome(ReadItem(d, c.item), EntryAt(d, "Symlink"))}
         /\ c.item.htype = "DEVICE" =>
              EndEntry(d, kind)
                = {Outcome(ReadItem(d, c.item), EntryAt(d, "Device"))}
<1>1. c.item.htype \in {"SYMLINK", "DEVICE"} => c.item.htype # "DATA"
  OBVIOUS
<1> QED BY <1>1, EndsEntry

LEMMA EndsRef ==
  ASSUME Intact, NEW c \in archive.cells, c.item.htype = "PAYLOAD_REF",
         NEW d, d.pos = c.at, NEW kind
  PROVE  EndEntry(d, kind) = RefOutcomes(d, c.item)
<1>1. c.item.htype # "DATA"
  OBVIOUS
<1> QED BY <1>1, EndsEntry

LEMMA EndsOther ==
  ASSUME Intact, NEW c \in archive.cells, c.item.htype \in Rest,
         NEW d, d.pos = c.at, NEW kind
  PROVE  /\ kind = "fifo" =>
              EndEntry(d, kind)
                = {Outcome(Enter(Load(d, c.item), "InSpecialFile"),
                           EntryAt(d, "Fifo"))}
         /\ kind = "socket" =>
              EndEntry(d, kind)
                = {Outcome(Enter(Load(d, c.item), "InSpecialFile"),
                           EntryAt(d, "Socket"))}
         /\ kind \notin {"fifo", "socket"} =>
              EndEntry(d, kind)
                = {DirOutcome(d, c.item)}
<1>1. c.item.htype # "DATA"
  BY DEF Rest
<1> QED BY <1>1, EndsEntry

(* An entry is read to its end, wherever it stands in an intact archive.      *)
LEMMA EntryTour ==
  ASSUME Intact, InputsOK, NEW before, Ready(before),
         before.state # "InPayload", NEW e \in archive.cells,
         before.pos = e.at, Ahead(before, e.at), Tag(e.item) \in EntryTags
  PROVE  \E o : \E q \in Nat :
           /\ ReadNextEntry(before) = {o} /\ FreshOutcome(o)
           /\ e.at < q /\ Landing(q) /\ Clear(e.at, q)
           /\ Arrived(o, before, ItemKind(e.item), LengthsAfter(before, e),
                      e.at, q)
<1> DEFINE d == Enter(before, "Default")
           t == [d EXCEPT !.pos = @ + e.item.size]
           all == ReadNextEntry(before)
           kind == ItemKind(e.item)
           Done(o, q) == /\ all = {o} /\ e.at < q /\ Landing(q)
                         /\ Clear(e.at, q)
                         /\ Arrived(o, before, kind, LengthsAfter(before, e),
                                    e.at, q)
<1>1. /\ Ready(d) /\ Reading(d, e.at) /\ d.pos = before.pos
      /\ d.path = before.path /\ d.path_lengths = before.path_lengths
      /\ Ready(t) /\ Reading(t, EndOf(e)) /\ t.pos = EndOf(e)
      /\ t.path = before.path /\ t.path_lengths = before.path_lengths
  BY BeginsReading DEF Reading
<1>2. /\ e.at \in Nat /\ EndOf(e) \in Nat /\ e.at < EndOf(e)
      /\ ItemOK(e.item)
  BY CellFacts
<1>3. /\ e.item.htype \in {"HARDLINK", "ENTRY"} /\ e.item.htype # "DATA"
      /\ ~IsRootTable(e)
      /\ e.item.htype = "ENTRY" => /\ e.item.kind = Tag(e.item)
                                   /\ e.item.kind \in FileKinds
      /\ e.item.htype = "HARDLINK" => Tag(e.item) = "HARDLINK"
  BY <1>2, KindNames DEF IsRootTable, Tag
<1>4. \A k, l, p, q, o : /\ Arrived(o, d, k, l, p, q) <=>
                              Arrived(o, before, k, l, p, q)
                         /\ Arrived(o, t, k, l, p, q) <=>
                              Arrived(o, before, k, l, p, q)
  <2> HIDE DEF d, t
  <2> QED BY <1>1 DEF Arrived
<1>5. /\ e.item.htype = "HARDLINK" =>
           all = {Outcome(ReadItem(d, e.item), EntryAt(d, "Hardlink"))}
      /\ e.item.htype = "ENTRY" => all = EndEntry(t, e.item.kind)
  BY <1>1, <1>3, ReadsEntry
<1> HIDE DEF d, t, all
<1> SUFFICES \E o : \E q \in Nat : Done(o, q)
  <2>1. PICK o : \E q \in Nat : Done(o, q)
    OBVIOUS
  <2>2. FreshOutcome(o)
    BY <2>1, ReadNextEntryOK DEF all
  <2> QED BY <2>1, <2>2 DEF all
<1>6. CASE e.item.htype = "HARDLINK"
  <2> DEFINE o == Outcome(ReadItem(d, e.item), EntryAt(d, "Hardlink"))
             q == EndOf(e)
  <2>1. all = {o} /\ kind = "Hardlink"
    BY <1>2, <1>5, <1>6, KindNames
  <2>2. Arrived(o, d, "Hardlink", d.path_lengths, e.at, q)
    BY <1>1, PlainArrives
  <2>3. After(Tag(e.item)) = Rest
    BY <1>3, <1>6, Afters
  <2>4. Landing(q) /\ Clear(e.at, q)
    BY <1>3, <2>3, FollowedByRest
  <2>5. LengthsAfter(before, e) = d.path_lengths
    BY <1>1, <1>3, <1>6 DEF LengthsAfter, IsDirEntry
  <2>6. Arrived(o, before, kind, LengthsAfter(before, e), e.at, q)
    BY <1>4, <2>1, <2>2, <2>5
  <2> HIDE DEF o, q
  <2>7. q \in Nat /\ e.at < q
    BY <1>2 DEF q
  <2> QED BY <2>1, <2>4, <2>6, <2>7
<1>7. CASE e.item.htype = "ENTRY"
  <2>1. PICK f \in archive.cells : MayFollow(f, e)
    BY <1>3, Follower
  <2>2. /\ f.at = EndOf(e) /\ Tag(f.item) \in After(e.item.kind)
        /\ ItemOK(f.item) /\ EndOf(f) \in Nat /\ f.at < EndOf(f)
    BY <1>3, <1>7, <2>1, CellFacts DEF MayFollow
  <2>3. Clear(e.at, f.at) /\ e.at < f.at
    BY <1>2, <2>2, OneAt DEF Clear
  <2>4. all = EndEntry(t, e.item.kind) /\ t.pos = f.at /\ Reading(t, f.at)
    BY <1>1, <1>5, <1>7, <2>2
  <2>5. e.item.kind # "dir" => LengthsAfter(before, e) = t.path_lengths
    BY <1>1, <1>3, <1>7 DEF LengthsAfter, IsDirEntry
  <2>6. CASE e.item.kind \in {"symlink", "device"}
    <3>1. /\ Tag(f.item) \in {"SYMLINK", "DEVICE"}
          /\ e.item.kind = "symlink" => Tag(f.item) = "SYMLINK"
          /\ e.item.kind = "device" => Tag(f.item) = "DEVICE"
      BY <2>2, <2>6, Afters
    <3>2. f.item.htype = Tag(f.item) /\ f.item.htype # "DATA"
      BY <2>2, <3>1, TagTells DEF FileKinds
    <3>3. kind \in {"Symlink", "Device"}
          /\ (e.item.kind = "symlink" => kind = "Symlink")
          /\ (e.item.kind = "device" => kind = "Device")
      BY <1>2, <1>7, <2>6, KindNames
    <3> DEFINE o == Outcome(ReadItem(t, f.item), EntryAt(t, kind))
               q == EndOf(f)
    <3> HIDE DEF kind
    <3>4. all = {o}
      <4>1. CASE e.item.kind = "symlink"
        <5>1. f.item.htype = "SYMLINK" /\ kind = "Symlink"
          BY <3>1, <3>2, <3>3, <4>1
        <5>2. EndEntry(t, e.item.kind)
                = {Outcome(ReadItem(t, f.item), EntryAt(t, "Symlink"))}
          BY <2>4, <3>2, <5>1, EndsPlain
        <5> QED BY <2>4, <5>1, <5>2
      <4>2. CASE e.item.kind = "device"
        <5>1. f.item.htype = "DEVICE" /\ kind = "Device"
          BY <3>1, <3>2, <3>3, <4>2
        <5>2. EndEntry(t, e.item.kind)
                = {Outcome(ReadItem(t, f.item), EntryAt(t, "Device"))}
          BY <2>4, <3>2, <5>1, EndsPlain
        <5> QED BY <2>4, <5>1, <5>2
      <4> QED BY <2>6, <4>1, <4>2
    <3>5. Arrived(o, t, kind, t.path_lengths, e.at, q)
      BY <2>4, PlainArrives
    <3>6. Landing(q) /\ Clear(f.at, q) /\ f.item.htype \notin Rest
      <4>1. After(Tag(f.item)) = Rest
        BY <3>1, Afters
      <4>2. ~IsRootTable(f) /\ f.item.htype \notin Rest
        BY <3>1, <3>2 DEF IsRootTable, Rest
      <4> QED BY <4>1, <4>2, FollowedByRest
    <3>7. Clear(e.at, q)
      BY <2>3, <3>6, ClearOver
    <3>8. Arrived(o, before, kind, LengthsAfter(before, e), e.at, q)
      BY <1>4, <2>5, <2>6, <3>5
    <3>9. q \in Nat /\ e.at < q
      BY <1>2, <2>2, <2>3
    <3> HIDE DEF o, q
    <3> QED BY <3>4, <3>6, <3>7, <3>8, <3>9
  <2>7. CASE e.item.kind = "file"
    <3>1. Tag(f.item) = IF Split THEN "PAYLOAD_REF" ELSE "PAYLOAD"
      BY <2>2, <2>7, Afters
    <3>2. /\ f.item.htype = Tag(f.item) /\ f.item.htype # "DATA"
          /\ f.item.htype \notin Rest /\ ~IsRootTable(f)
      BY <2>2, <3>1, TagTells DEF FileKinds, Rest, IsRootTable
    <3>3. kind = "File"
      BY <1>2, <1>7, <2>7, KindNames
    <3>4. LengthsAfter(before, e) = t.path_lengths
      BY <2>5, <2>7
    <3> HIDE DEF kind
    <3>5. CASE Split
      <4>1. PayloadInput /\ f.item.htype = "PAYLOAD_REF"
        BY <3>1, <3>2, <3>5 DEF Intact
      <4>2. PICK o :
              /\ {Outcome(EnterContents(x, f.item.content),
                          FileEntry(t, f.item, <<f.item.offset>>)) :
                    x \in ToPayload(ReadItem(t, f.item), f.item.offset)}
                   = {o}
              /\ Arrived(o, t, "File", t.path_lengths, e.at, EndOf(f))
        BY <1>1, <2>4, <4>1, RefArrives
      <4>3. all = {o}
        <5>1. EndEntry(t, e.item.kind) = RefOutcomes(t, f.item)
          BY <2>4, <3>2, <4>1, EndsRef
        <5>2. RefOutcomes(t, f.item) = {o}
          BY <4>2 DEF RefOutcomes
        <5> QED BY <2>4, <5>1, <5>2
      <4>4. After(Tag(f.item)) = Rest
        BY <3>2, <4>1, Afters
      <4>5. Landing(EndOf(f)) /\ Clear(f.at, EndOf(f))
        BY <3>2, <4>4, FollowedByRest
      <4>6. Clear(e.at, EndOf(f))
        BY <2>3, <3>2, <4>5, ClearOver
      <4>7. Arrived(o, before, kind, LengthsAfter(before, e), e.at, EndOf(f))
        BY <1>4, <3>3, <3>4, <4>2
      <4>8. EndOf(f) \in Nat /\ e.at < EndOf(f)
        BY <1>2, <2>2, <2>3
      <4> QED BY <4>3, <4>5, <4>6, <4>7, <4>8
    <3>6. CASE ~Split
      <4>1. ~PayloadInput /\ f.item.htype = "PAYLOAD"
        BY <3>1, <3>2, <3>6 DEF Intact
      <4> DEFINE o == Outcome(EnterContents(Load(t, f.item), f.item.content),
                              FileEntry(t, f.item, <<>>))
                 q == f.at + HeaderSize + f.item.content
      <4>2. all = {o}
        BY <2>4, <3>2, <4>1, EndsEntry
      <4>3. \A z \in CellsOf(archive, "PAYLOAD") : e.at < z.at => f.at <= z.at
        <5> SUFFICES ASSUME NEW z \in CellsOf(archive, "PAYLOAD"), e.at < z.at
                     PROVE  f.at <= z.at
          OBVIOUS
        <5> QED BY <2>2, OneAt DEF CellsOf
      <4>4. Arrived(o, t, "File", t.path_lengths, e.at, q)
        BY <2>3, <2>4, <4>1, <4>3, FileArrives
      <4>5. Landing(q) /\ Clear(f.at, q)
        BY <4>1, FollowedByContent
      <4>6. Clear(e.at, q)
        BY <2>3, <3>2, <4>5, ClearOver
      <4>7. Arrived(o, before, kind, LengthsAfter(before, e), e.at, q)
        BY <1>4, <3>3, <3>4, <4>4
      <4>8. q \in Nat /\ e.at < q
        <5>1. FileSizes \subseteq Nat
          BY EncoderAssumption
        <5>2. f.item.content \in FileSizes
          BY <2>2, <4>1 DEF ItemOK
        <5>3. f.item.content \in Nat
          BY <5>1, <5>2
        <5> QED BY <1>2, <2>2, <2>3, <5>3 DEF HeaderSize
      <4> HIDE DEF o, q
      <4> QED BY <4>2, <4>5, <4>6, <4>7, <4>8
    <3> QED BY <3>5, <3>6
  <2>8. CASE e.item.kind \in {"fifo", "socket", "dir"}
    <3>1. Tag(f.item) \in Rest
      BY <2>2, <2>8, Afters
    <3>2. f.item.htype \in Rest /\ f.item.htype # "DATA"
      BY <2>2, <3>1, TagTells DEF FileKinds, Rest
    <3>3. /\ e.item.kind = "fifo" => kind = "Fifo"
          /\ e.item.kind = "socket" => kind = "Socket"
          /\ e.item.kind = "dir" => kind = "Directory"
      BY <1>2, <1>7, <2>8, KindNames
    <3>4. e.item.kind = "dir" =>
            LengthsAfter(before, e) = Append(t.path_lengths, Len(t.path))
      BY <1>1, <1>3, <1>7 DEF LengthsAfter, IsDirEntry
    <3> DEFINE special == Outcome(Enter(Load(t, f.item), "InSpecialFile"),
                                  EntryAt(t, kind))
               dir == Outcome([Enter(Load(t, f.item), "InDirectory") EXCEPT
                                 !.path_lengths = Append(@, Len(t.path))],
                              EntryAt(t, kind))
    <3> HIDE DEF kind
    <3>5. IF e.item.kind = "dir" THEN all = {dir} ELSE all = {special}
      <4>1. CASE e.item.kind = "fifo"
        <5>1. EndEntry(t, e.item.kind)
                = {Outcome(Enter(Load(t, f.item), "InSpecialFile"),
                           EntryAt(t, "Fifo"))}
          BY <2>4, <3>2, <4>1, EndsOther
        <5> QED BY <2>4, <3>3, <4>1, <5>1
      <4>2. CASE e.item.kind = "socket"
        <5>1. EndEntry(t, e.item.kind)
                = {Outcome(Enter(Load(t, f.item), "InSpecialFile"),
                           EntryAt(t, "Socket"))}
          BY <2>4, <3>2, <4>2, EndsOther
        <5> QED BY <2>4, <3>3, <4>2, <5>1
      <4>3. CASE e.item.kind = "dir"
        <5>1. EndEntry(t, e.item.kind) = {DirOutcome(t, f.item)}
          BY <2>4, <3>2, <4>3, EndsOther
        <5> QED BY <2>4, <3>3, <4>3, <5>1 DEF DirOutcome
      <4> QED BY <2>8, <4>1, <4>2, <4>3
    <3>6. /\ Arrived(special, t, kind, t.path_lengths, e.at, f.at)
          /\ Arrived(dir, t, kind, Append(t.path_lengths, Len(t.path)), e.at,
                     f.at)
      BY <2>4, <3>2, OtherArrives
    <3> HIDE DEF special, dir
    <3>7. PICK o : /\ all = {o}
                   /\ Arrived(o, before, kind, LengthsAfter(before, e), e.at,
                              f.at)
      <4>1. CASE e.item.kind = "dir"
        BY <1>4, <3>4, <3>5, <3>6, <4>1
      <4>2. CASE e.item.kind # "dir"
        BY <1>4, <2>5, <3>5, <3>6, <4>2
      <4> QED BY <4>1, <4>2
    <3>8. Landing(f.at)
      BY <3>1 DEF Landing
    <3>9. f.at \in Nat
      BY <1>2, <2>2
    <3> QED BY <2>3, <3>7, <3>8, <3>9
  <2> QED BY <1>3, <1>7, <2>6, <2>7, <2>8 DEF FileKinds
<1> QED BY <1>3, <1>6, <1>7

-----------------------------------------------------------------------------
(***************************************************************************)
(* The inductive invariant of decoding an intact archive.                   *)
(***************************************************************************)
IsList(sn) == \E S : sn \in Seq(S)

Count(sn) == Cardinality(NamedIn(sn, Len(sn)))

(* The directories the decoder is in, outermost first, are those in hs.      *)
PathTo(d, hs) ==
  /\ d.path_lengths \in Seq(Nat) /\ d.path \in Seq(Names)
  /\ Len(d.path_lengths) = Len(hs) + 1 /\ Len(hs) <= Len(d.path)
  /\ \A i \in 1..Len(hs) + 1 : d.path_lengths[i] = i - 1
  /\ \A k \in 1..Len(hs) : d.path[k] = hs[k].item.name

(* The first entries are read.                                              *)
StartTags(s) ==
  IF s = "Begin" THEN {"FORMAT_VERSION", "dir"}
  ELSE IF s = "Prelude" THEN {"PRELUDE", "dir"} ELSE {"dir"}

Early(d, sn) ==
  /\ d.state \in {"Begin", "Prelude", "Root"}
  /\ d.path = <<>> /\ d.path_lengths = <<>>
  /\ Count(sn) = 0
  /\ Ahead(d, d.pos)
  /\ \E c \in archive.cells :
       /\ c.at = d.pos /\ Tag(c.item) \in StartTags(d.state)
       /\ \A x \in archive.cells : x.at < c.at => x.item.htype \notin Rest

(* The next thing to deal with is the item at q.                             *)
Midway(d, sn, q) ==
  /\ q \in Nat /\ Landing(q)
  /\ \E hs : InOrder(hs, Within(q)) /\ PathTo(d, hs)
  /\ Stands(d, q) /\ Ahead(d, q)
  /\ Count(sn) = Cardinality(NamesBefore(q))
  /\ d.state = "InPayload" =>
       /\ Len(sn) > 0
       /\ \E x \in Filenames :
            /\ Cardinality(NamesBefore(x.at)) + 1 = Count(sn)
            /\ Opened(d, sn[Len(sn)], x.at)

Finished(d, sn) == d.state = "Eof" /\ Count(sn) = Cardinality(Filenames)

Tracks(d, sn) ==
  Early(d, sn) \/ (\E q : Midway(d, sn, q)) \/ Finished(d, sn)

Shown(sn) ==
  \A j \in NamedIn(sn, Len(sn)) :
    LET c == NthName(Cardinality(NamedIn(sn, j))) IN
    sn[j].path = PathOf(c) /\ sn[j].kind = KindOf(c)

Follows(d, sn, c) ==
  /\ c \in {"idle", "next", "ended"}
  /\ c = "ended" => d.state = "Eof"
  /\ IsList(sn) /\ Shown(sn) /\ Tracks(d, sn)

-----------------------------------------------------------------------------
(***************************************************************************)
(* One entry more was returned.                                            *)
(***************************************************************************)
LEMMA ListMore ==
  ASSUME NEW sn, IsList(sn), NEW e
  PROVE  /\ IsList(Append(sn, e))
         /\ Len(sn) \in Nat /\ Len(Append(sn, e)) = Len(sn) + 1
         /\ Append(sn, e)[Len(sn) + 1] = e
         /\ \A j \in 1..Len(sn) : Append(sn, e)[j] = sn[j]
<1>1. PICK S : sn \in Seq(S)
  BY DEF IsList
<1>2. sn \in Seq(S \cup {e})
  BY <1>1
<1>3. Append(sn, e) \in Seq(S \cup {e})
  BY <1>2
<1>4. IsList(Append(sn, e))
  BY <1>3 DEF IsList
<1>5. /\ Len(sn) \in Nat /\ Len(Append(sn, e)) = Len(sn) + 1
      /\ Append(sn, e)[Len(sn) + 1] = e
      /\ \A j \in 1..Len(sn) : Append(sn, e)[j] = sn[j]
  BY <1>2
<1> QED BY <1>4, <1>5

LEMMA NamedFinite ==
  ASSUME NEW sn, NEW n \in Nat
  PROVE  IsFiniteSet(NamedIn(sn, n)) /\ Cardinality(NamedIn(sn, n)) \in Nat
<1>1. IsFiniteSet(1..n)
  BY FS_Interval
<1>2. NamedIn(sn, n) \subseteq 1..n
  BY DEF NamedIn
<1> QED BY <1>1, <1>2, FS_Subset, FS_CardinalityType

LEMMA NamedMore ==
  ASSUME NEW sn, IsList(sn), NEW e
  PROVE  LET t == Append(sn, e) IN
         /\ Count(sn) \in Nat
         /\ IsNamed(e) => Count(t) = Count(sn) + 1
         /\ ~IsNamed(e) => Count(t) = Count(sn)
         /\ \A j \in 0..Len(sn) : NamedIn(t, j) = NamedIn(sn, j)
<1> DEFINE t == Append(sn, e)
           n == Len(sn)
<1>1. /\ n \in Nat /\ Len(t) = n + 1 /\ t[n + 1] = e
      /\ \A j \in 1..n : t[j] = sn[j]
  BY ListMore
<1> HIDE DEF t, n
<1>2. \A j \in 0..n : NamedIn(t, j) = NamedIn(sn, j)
  <2> SUFFICES ASSUME NEW j \in 0..n
               PROVE  NamedIn(t, j) = NamedIn(sn, j)
    OBVIOUS
  <2>1. \A i \in 1..j : t[i] = sn[i]
    BY <1>1
  <2> QED BY <2>1 DEF NamedIn
<1>3. /\ IsNamed(e) => NamedIn(t, n + 1) = NamedIn(sn, n) \cup {n + 1}
      /\ ~IsNamed(e) => NamedIn(t, n + 1) = NamedIn(sn, n)
  <2>1. \A i \in 1..n + 1 :
          i \in NamedIn(t, n + 1)
            <=> i \in NamedIn(sn, n) \/ (i = n + 1 /\ IsNamed(e))
    BY <1>1 DEF NamedIn
  <2>2. /\ NamedIn(t, n + 1) \subseteq 1..n + 1
        /\ NamedIn(sn, n) \subseteq 1..n + 1
        /\ n + 1 \in 1..n + 1
    BY <1>1 DEF NamedIn
  <2> QED BY <2>1, <2>2
<1>4. /\ IsFiniteSet(NamedIn(sn, n)) /\ Cardinality(NamedIn(sn, n)) \in Nat
      /\ n + 1 \notin NamedIn(sn, n)
  BY <1>1, NamedFinite DEF NamedIn
<1>5. Cardinality(NamedIn(sn, n) \cup {n + 1})
        = Cardinality(NamedIn(sn, n)) + 1
  BY <1>4, FS_AddElement
<1>6. Count(sn) = Cardinality(NamedIn(sn, n))
      /\ Count(t) = Cardinality(NamedIn(t, n + 1))
  BY <1>1 DEF Count, n
<1> QED BY <1>2, <1>3, <1>4, <1>5, <1>6 DEF t, n

LEMMA ShowsMore ==
  ASSUME NEW sn, IsList(sn), Shown(sn), NEW e,
         IsNamed(e) => LET c == NthName(Count(sn) + 1) IN
                       e.path = PathOf(c) /\ e.kind = KindOf(c)
  PROVE  Shown(Append(sn, e))
<1> DEFINE t == Append(sn, e)
           n == Len(sn)
           Right(entry, m) == /\ entry.path = PathOf(NthName(m))
                              /\ entry.kind = KindOf(NthName(m))
<1> SUFFICES ASSUME NEW j \in NamedIn(t, Len(t))
             PROVE  Right(t[j], Cardinality(NamedIn(t, j)))
  BY DEF Shown
<1>1. /\ n \in Nat /\ Len(t) = n + 1 /\ t[n + 1] = e
      /\ \A i \in 1..n : t[i] = sn[i]
  BY ListMore
<1>2. /\ IsNamed(e) => Count(t) = Count(sn) + 1
      /\ \A i \in 0..n : NamedIn(t, i) = NamedIn(sn, i)
  BY NamedMore
<1>3. \A i \in NamedIn(sn, n) : Right(sn[i], Cardinality(NamedIn(sn, i)))
  BY DEF Shown
<1>4. IsNamed(e) => Right(e, Count(sn) + 1)
  OBVIOUS
<1>5. Count(t) = Cardinality(NamedIn(t, n + 1))
  BY <1>1 DEF Count
<1> HIDE DEF t, n, Right
<1>6. j \in 1..n + 1 /\ IsNamed(t[j])
  BY <1>1 DEF NamedIn
<1>7. CASE j = n + 1
  BY <1>1, <1>2, <1>4, <1>5, <1>6, <1>7
<1>8. CASE j \in 1..n
  <2>1. j \in NamedIn(sn, n)
    BY <1>1, <1>6, <1>8 DEF NamedIn
  <2>2. NamedIn(t, j) = NamedIn(sn, j) /\ t[j] = sn[j]
    BY <1>1, <1>2, <1>8
  <2> QED BY <1>3, <2>1, <2>2
<1> QED BY <1>1, <1>6, <1>7, <1>8

(* What the caller is not shown as an entry of a directory changes nothing.  *)
LEMMA ShowsOther ==
  ASSUME NEW sn, IsList(sn), Shown(sn), NEW e, ~IsNamed(e)
  PROVE  /\ IsList(Append(sn, e)) /\ Shown(Append(sn, e))
         /\ Count(Append(sn, e)) = Count(sn)
<1>1. Shown(Append(sn, e))
  BY ShowsMore
<1> QED BY <1>1, ListMore, NamedMore

-----------------------------------------------------------------------------
(***************************************************************************)
(* The start: new(), the version, the prelude and the root.                  *)
(***************************************************************************)
LEMMA RefsBehindMarker ==
  ASSUME Intact, Split, NEW r \in CellsOf(archive, "PAYLOAD_REF")
  PROVE  HeaderSize <= r.item.offset
  BY DEF Intact, Marked, RefsLead

LEMMA CreateFollows ==
  ASSUME Intact, Create, seen = <<>>
  PROVE  Follows(decoder', seen', call')
<1> DEFINE begin == IF PayloadInput THEN HeaderSize ELSE 0
<1>1. PayloadInput => StartMarker /\ HeaderSize <= payload_input.len
  BY DEF Intact, Marked, Whole, StartMarker
<1>2. /\ call' = "idle" /\ seen' = seen
      /\ decoder' = [NewDecoder EXCEPT !.payload_pos = begin,
                                       !.payload_consumed = begin]
  BY <1>1 DEF Create
<1>3. /\ decoder'.pos = 0 /\ decoder'.state = "Begin"
      /\ decoder'.path = <<>> /\ decoder'.path_lengths = <<>>
      /\ decoder'.payload_consumed = begin
  BY <1>2 DEF NewDecoder
<1>4. Ahead(decoder', decoder'.pos)
  <2> SUFFICES ASSUME PayloadInput, NEW r \in CellsOf(archive, "PAYLOAD_REF")
               PROVE  Used(decoder') <= r.item.offset
    BY DEF Ahead
  <2>1. HeaderSize <= r.item.offset
    BY RefsBehindMarker DEF Intact
  <2> QED BY <1>3, <2>1 DEF Used
<1>5. PICK c \in archive.cells : c.at = 0 /\ Tag(c.item) = First
  BY DEF Intact, StartsRight
<1>6. /\ Tag(c.item) \in StartTags("Begin")
      /\ \A x \in archive.cells : ~(x.at < c.at)
  BY <1>5, CellFacts DEF First, StartTags
<1>7. NamedIn(<<>>, 0) = {}
  BY DEF NamedIn
<1>8. Count(seen') = 0 /\ Shown(seen') /\ IsList(seen')
  <2>1. seen' = <<>> /\ Len(seen') = 0
    BY <1>2
  <2>2. <<>> \in Seq({})
    OBVIOUS
  <2> QED BY <1>7, <2>1, <2>2, FS_EmptySet DEF Count, Shown, IsList
<1>9. Early(decoder', seen')
  BY <1>3, <1>4, <1>5, <1>6, <1>8 DEF Early
<1> QED BY <1>2, <1>8, <1>9 DEF Follows, Tracks

FollowState(s, o) ==
  IF s = "Begin" /\ o.entry.kind = "Version" THEN "Prelude"
  ELSE IF s = "Prelude" /\ o.entry.kind = "Prelude" THEN "Root"
  ELSE o.decoder.state

LEMMA FirstEntriesIs ==
  ASSUME NEW d, NEW e, ReadNextEntry(decoder) = {Outcome(d, e)},
         decoder.state = "Prelude" => e.kind \in {"Prelude", "Directory"}
  PROVE  FirstEntries
           = {Outcome(Enter(d, FollowState(decoder.state, Outcome(d, e))), e)}
<1> DEFINE o == Outcome(d, e)
           follow == FollowState(decoder.state, o)
<1>1. o.entry = e /\ o.decoder = d
  BY OutcomeParts
<1>2. [o EXCEPT !.decoder = Enter(@, follow)] = Outcome(Enter(d, follow), e)
  <2> HIDE DEF follow
  <2> QED BY DEF Outcome
<1>3. {x \in ReadNextEntry(decoder) :
         decoder.state = "Prelude"
           => x.entry.kind \in {"Prelude", "Directory"}} = {o}
  BY <1>1
<1>4. FirstEntries = {[o EXCEPT !.decoder = Enter(@, follow)]}
  BY <1>3 DEF FirstEntries, FollowState
<1> QED BY <1>2, <1>4

LEMMA Returned ==
  ASSUME NEW d, NEW e, ReturnOrFail({Outcome(d, e)})
  PROVE  decoder' = d /\ seen' = Append(seen, e) /\ call' = "idle"
  BY OutcomeParts DEF ReturnOrFail, Return

(* A version or a prelude: another of the first entries must follow.         *)
LEMMA EarlyPasses ==
  ASSUME Intact, Early(decoder, seen), Ready(decoder),
         NEW c \in archive.cells, c.at = decoder.pos,
         Tag(c.item) \in {"FORMAT_VERSION", "PRELUDE"},
         \A x \in archive.cells : x.at < c.at => x.item.htype \notin Rest,
         NEW s \in {"Prelude", "Root"},
         After(Tag(c.item)) \subseteq StartTags(s),
         NEW sn, Count(sn) = 0
  PROVE  Early(Enter(ReadItem(Enter(decoder, "Default"), c.item), s), sn)
<1> DEFINE d == Enter(decoder, "Default")
           x == ReadItem(d, c.item)
           t == Enter(x, s)
<1>1. decoder \in Decoders
  BY DEF Ready, DecoderOK
<1>2. /\ d \in Decoders /\ d.pos = decoder.pos
      /\ d.path = <<>> /\ d.path_lengths = <<>>
      /\ d.payload_consumed = decoder.payload_consumed
  <2>1. Fresh(d)
    BY EnterOK DEF Fresh, States
  <2> QED BY <1>1, <2>1, EnterFields DEF Early, Fresh, Ready, DecoderOK
<1> HIDE DEF d
<1>3. c.item.htype = Tag(c.item) /\ c.item.htype \notin Rest
      /\ c.item.htype # "DATA"
  BY CellFacts, TagTells DEF FileKinds, Rest
<1>4. /\ c.at \in Nat /\ EndOf(c) = c.at + c.item.size /\ EndOf(c) \in Nat
      /\ c.at < EndOf(c) /\ c.item.size \in Nat
  BY CellFacts
<1>5. x.pos = EndOf(c) /\ x.path = <<>> /\ x.path_lengths = <<>>
      /\ x.payload_consumed = decoder.payload_consumed
  BY <1>2, <1>4, ReadItemFields
<1>6. x \in Decoders
  <2>1. c.item \in CurrentHeaders
    BY <1>3 DEF CurrentHeaders, Intact, Whole
  <2>2. d.pos + c.item.size \in Nat
    BY <1>2, <1>4
  <2> QED BY <1>2, <2>1, <2>2 DEF ReadItem, Decoders
<1> HIDE DEF x
<1>7. /\ t.pos = EndOf(c) /\ t.path = <<>> /\ t.path_lengths = <<>>
      /\ t.payload_consumed = decoder.payload_consumed /\ t.state = s
  BY <1>5, <1>6, EnterFields
<1> HIDE DEF t
<1>8. PICK f \in archive.cells : MayFollow(f, c)
  BY <1>3, Follower DEF IsRootTable
<1>9. f.at = EndOf(c) /\ Tag(f.item) \in StartTags(s)
  BY <1>8 DEF MayFollow
<1>10. ASSUME NEW z \in archive.cells, z.at < f.at
       PROVE  z.item.htype \notin Rest
  <2>1. z.at < c.at \/ z = c
    BY <1>4, <1>9, <1>10, OneAt, CellFacts
  <2> QED BY <1>3, <2>1
<1>11. Ahead(t, t.pos)
  <2> SUFFICES ASSUME PayloadInput, NEW r \in CellsOf(archive, "PAYLOAD_REF"),
                      t.pos <= r.at
               PROVE  Used(t) <= r.item.offset
    BY DEF Ahead
  <2>1. r.at \in Nat
    BY CellFacts DEF CellsOf
  <2>2. decoder.pos <= r.at
    BY <1>4, <1>7, <2>1
  <2>3. Used(decoder) <= r.item.offset
    BY <2>2 DEF Early, Ahead
  <2> QED BY <1>7, <2>3 DEF Used, Early
<1>12. Early(t, sn)
  BY <1>7, <1>9, <1>10, <1>11 DEF Early
<1> QED BY <1>12 DEF t, x, d

(* The root: the decoder is in it, and in nothing else.                      *)
LEMMA RootEntered ==
  ASSUME Intact, InputsOK, Early(decoder, seen), Ready(decoder),
         NEW c \in archive.cells, c.at = decoder.pos, Tag(c.item) = "dir",
         \A x \in archive.cells : x.at < c.at => x.item.htype \notin Rest
  PROVE  \E d, e, q :
           /\ ReadNextEntry(decoder) = {Outcome(d, e)}
           /\ d \in Decoders
           /\ e.path = <<>> /\ e.kind = "Directory"
           /\ \A sn : Count(sn) = 0 => Midway(d, sn, q)
<1>1. /\ decoder.state # "InPayload" /\ decoder.pos = c.at
      /\ Ahead(decoder, c.at) /\ Tag(c.item) \in EntryTags
      /\ decoder.path = <<>> /\ decoder.path_lengths = <<>>
  BY DEF Early, EntryTags, FileKinds
<1>2. PICK o : \E p \in Nat :
        /\ ReadNextEntry(decoder) = {o} /\ FreshOutcome(o)
        /\ c.at < p /\ Landing(p) /\ Clear(c.at, p)
        /\ Arrived(o, decoder, ItemKind(c.item), LengthsAfter(decoder, c),
                   c.at, p)
  BY <1>1, EntryTour
<1>3. PICK q \in Nat :
        /\ ReadNextEntry(decoder) = {o} /\ FreshOutcome(o)
        /\ c.at < q /\ Landing(q) /\ Clear(c.at, q)
        /\ Arrived(o, decoder, ItemKind(c.item), LengthsAfter(decoder, c),
                   c.at, q)
  BY <1>2
<1> DEFINE d == o.decoder
           e == o.entry
<1>4. c.item.htype = "ENTRY" /\ c.item.kind = "dir" /\ ItemOK(c.item)
  BY CellFacts, TagTells DEF FileKinds
<1>5. ItemKind(c.item) = "Directory"
  BY <1>4, KindNames DEF EntryTags, FileKinds
<1>6. LengthsAfter(decoder, c) = <<0>>
  BY <1>1 DEF LengthsAfter, IsDirEntry
<1>7. /\ o = Outcome(d, e) /\ e.path = <<>> /\ e.kind = "Directory"
      /\ d.path = <<>> /\ d.path_lengths = <<0>> /\ d.state # "InPayload"
      /\ Stands(d, q) /\ Ahead(d, q)
  BY <1>1, <1>3, <1>5, <1>6 DEF Arrived
<1>8. d \in Decoders
  BY <1>3 DEF FreshOutcome, Fresh, Ready, DecoderOK
<1>9. NamesBefore(q) = {} /\ Within(q) = {}
  <2>1. \A x \in Filenames : ~(x.at < q)
    <3> SUFFICES ASSUME NEW x \in Filenames, x.at < q
                 PROVE  FALSE
      OBVIOUS
    <3>1. x \in archive.cells /\ x.item.htype = "FILENAME" /\ x.at \in Nat
      BY NameFacts
    <3>2. x.item.htype \in Rest
      BY <3>1 DEF Rest
    <3>3. ~(c.at < x.at) /\ ~(x.at < c.at)
      BY <1>3, <3>1, <3>2 DEF Clear
    <3>4. c.at = x.at
      BY <3>1, <3>3, CellFacts
    <3> QED BY <1>4, <3>1, <3>4, OneAt
  <2> QED BY <2>1 DEF NamesBefore, Within
<1> HIDE DEF d, e
<1>10. PathTo(d, <<>>)
  BY <1>7, <1>8 DEF PathTo, Decoders
<1>11. \A sn : Count(sn) = 0 => Midway(d, sn, q)
  <2>1. InOrder(<<>>, Within(q))
    BY <1>9, InOrderNothing
  <2>2. Cardinality(NamesBefore(q)) = 0
    BY <1>9, FS_EmptySet
  <2> QED BY <1>3, <1>7, <1>10, <2>1, <2>2 DEF Midway
<1> QED BY <1>3, <1>7, <1>8, <1>11

LEMMA ReadFirstEntryFollows ==
  ASSUME Intact, ReadingOK, Follows(decoder, seen, call), ReadFirstEntry
  PROVE  Follows(decoder', seen', call')
<1>1. Ready(decoder) /\ InputsOK /\ decoder \in Decoders
  BY InNextIsReady DEF ReadFirstEntry, ReadingOK, Ready, DecoderOK
<1>2. /\ decoder.state \in {"Begin", "Prelude", "Root"}
      /\ ReturnOrFail(FirstEntries)
  BY DEF ReadFirstEntry, InNext
<1>3. Early(decoder, seen) /\ IsList(seen) /\ Shown(seen)
  BY <1>2 DEF Follows, Tracks, Midway, Stands, Finished
<1>4. PICK c \in archive.cells :
        /\ c.at = decoder.pos /\ Tag(c.item) \in StartTags(decoder.state)
        /\ \A x \in archive.cells : x.at < c.at => x.item.htype \notin Rest
  BY <1>3 DEF Early
<1>5. ASSUME NEW d, NEW e, FirstEntries = {Outcome(d, e)}, ~IsNamed(e),
             \A sn : Count(sn) = 0 =>
               Early(d, sn) \/ \E q : Midway(d, sn, q)
      PROVE  Follows(decoder', seen', call')
  <2>1. decoder' = d /\ seen' = Append(seen, e) /\ call' = "idle"
    BY <1>2, <1>5, Returned
  <2>2. /\ IsList(Append(seen, e)) /\ Shown(Append(seen, e))
        /\ Count(Append(seen, e)) = 0
    BY <1>3, <1>5, ShowsOther DEF Early
  <2>3. Tracks(d, Append(seen, e))
    BY <1>5, <2>2 DEF Tracks
  <2> QED BY <2>1, <2>2, <2>3 DEF Follows
<1>6. CASE Tag(c.item) = "dir"
  <2>1. PICK d, e, q :
           /\ ReadNextEntry(decoder) = {Outcome(d, e)}
           /\ d \in Decoders
           /\ e.path = <<>> /\ e.kind = "Directory"
           /\ \A sn : Count(sn) = 0 => Midway(d, sn, q)
    BY <1>1, <1>3, <1>4, <1>6, RootEntered
  <2>2. FollowState(decoder.state, Outcome(d, e)) = d.state
    BY <2>1, OutcomeParts DEF FollowState
  <2>3. Enter(d, d.state) = d
    BY <2>1 DEF Enter, Decoders
  <2>4. FirstEntries = {Outcome(d, e)}
    BY <2>1, <2>2, <2>3, FirstEntriesIs
  <2> QED BY <1>5, <2>1, <2>4 DEF IsNamed
<1>7. CASE Tag(c.item) \in {"FORMAT_VERSION", "PRELUDE"}
  <2> DEFINE d == ReadItem(Enter(decoder, "Default"), c.item)
             version == Tag(c.item) = "FORMAT_VERSION"
             kind == IF version THEN "Version" ELSE "Prelude"
             s == IF version THEN "Prelude" ELSE "Root"
             e == EntryAt(Enter(decoder, "Default"), kind)
  <2>1. /\ c.item.htype = Tag(c.item) /\ c.item.htype # "DATA"
        /\ version => decoder.state = "Begin"
        /\ ~version => decoder.state = "Prelude"
    BY <1>2, <1>4, <1>7, CellFacts, TagTells DEF FileKinds, StartTags
  <2>2. /\ Enter(decoder, "Default").pos = decoder.pos
    BY <1>1, EnterFields
  <2>3. ReadNextEntry(decoder) = {Outcome(d, e)}
    <3>1. CASE version
      BY <1>4, <2>1, <2>2, <3>1, ReadsEntry
    <3>2. CASE ~version
      <4>1. c.item.htype = "PRELUDE" /\ decoder.state = "Prelude"
        BY <1>7, <2>1, <3>2
      <4> QED BY <1>4, <2>1, <2>2, <3>2, <4>1, ReadsEntry
    <3> QED BY <3>1, <3>2
  <2>4. e.kind = kind
    <3> HIDE DEF kind
    <3> QED BY EntryFields
  <2>5. FollowState(decoder.state, Outcome(d, e)) = s
    BY <2>1, <2>4, OutcomeParts DEF FollowState
  <2>6. /\ After(Tag(c.item)) \subseteq StartTags(s)
        /\ s \in {"Prelude", "Root"}
    BY <1>7, Afters DEF StartTags
  <2>7. \A sn : Count(sn) = 0 => Early(Enter(d, s), sn)
    BY <1>1, <1>3, <1>4, <1>7, <2>6, EarlyPasses
  <2> HIDE DEF d, s, e
  <2>8. FirstEntries = {Outcome(Enter(d, s), e)}
    <3>1. decoder.state = "Prelude" => e.kind \in {"Prelude", "Directory"}
      BY <2>1, <2>4
    <3> QED BY <2>3, <2>5, <3>1, FirstEntriesIs
  <2>9. ~IsNamed(e)
    BY <2>4 DEF IsNamed
  <2> QED BY <1>5, <2>7, <2>8, <2>9
<1> QED BY <1>2, <1>4, <1>6, <1>7 DEF StartTags

-----------------------------------------------------------------------------
(***************************************************************************)
(* On from one item that lists an entry or ends a directory to the next.     *)
(***************************************************************************)
LEMMA MidwayStays ==
  ASSUME Intact, NEW d \in Decoders, NEW sn, NEW q, Midway(d, sn, q),
         NEW t \in Decoders, t.path = d.path, t.path_lengths = d.path_lengths,
         t.state # "InPayload", Stands(t, q),
         PayloadInput => Used(t) <= Used(d)
  PROVE  Midway(t, sn, q)
<1>1. PICK hs : InOrder(hs, Within(q)) /\ PathTo(d, hs)
  BY DEF Midway
<1>2. PathTo(t, hs)
  BY <1>1 DEF PathTo
<1>3. Ahead(t, q)
  <2> SUFFICES ASSUME PayloadInput, NEW r \in CellsOf(archive, "PAYLOAD_REF"),
                      q <= r.at
               PROVE  Used(t) <= r.item.offset
    BY DEF Ahead
  <2>1. Used(d) <= r.item.offset
    BY DEF Midway, Ahead
  <2>2. r.item.offset \in Nat
    BY CellFacts DEF CellsOf, ItemOK
  <2>3. Used(t) \in Nat /\ Used(d) \in Nat
    BY DEF Used, Decoders, ContentsFields, HeaderSize
  <2> QED BY <2>1, <2>2, <2>3
<1> QED BY <1>1, <1>2, <1>3 DEF Midway

LEMMA ContentsAreLeft ==
  ASSUME Intact, ReadingOK, NEW sn, NEW q, Midway(decoder, sn, q),
         decoder.state = "InPayload"
  PROVE  \E d \in Decoders :
           /\ LeaveContents(decoder) = {d} /\ d.pos = q
           /\ d.path = decoder.path /\ d.path_lengths = decoder.path_lengths
           /\ PayloadInput => d.payload_consumed <= Used(decoder)
<1>1. /\ decoder \in Decoders
      /\ decoder.contents.offset \in Nat /\ decoder.contents.size \in Nat
      /\ decoder.contents.offset <= decoder.contents.size
      /\ decoder.payload_consumed \in Nat /\ decoder.pos \in Nat
  BY DEF ReadingOK, DecoderTypeOK, DecoderOK, Decoders, ContentsFields
<1>2. InContents(decoder, q) /\ q \in Nat
  BY DEF Midway, Stands
<1>3. CASE PayloadInput
  <2> DEFINE n == decoder.payload_consumed + decoder.contents.offset
             d == [decoder EXCEPT !.payload_consumed = n]
  <2>1. LeaveContents(decoder) = {d}
    BY <1>3 DEF LeaveContents
  <2>2. n \in Nat
    BY <1>1
  <2>3. n <= Used(decoder)
    BY <1>1 DEF Used, HeaderSize
  <2> HIDE DEF n
  <2>4. /\ d \in Decoders /\ d.pos = q /\ d.payload_consumed = n
        /\ d.path = decoder.path /\ d.path_lengths = decoder.path_lengths
    BY <1>1, <1>2, <1>3, <2>2 DEF Decoders, InContents
  <2> QED BY <2>1, <2>3, <2>4
<1>4. CASE ~PayloadInput
  <2> DEFINE n == ContentSize(decoder.header) - decoder.contents.offset
             d == [decoder EXCEPT !.pos = @ + n]
  <2>1. ContentSize(decoder.header) = decoder.contents.size
    BY <1>2, <1>4 DEF InContents, ContentSize
  <2>2. decoder.pos + n = q
    BY <1>1, <1>2, <1>4, <2>1 DEF InContents
  <2>3. q <= input.len
    <3>1. PICK x \in archive.cells : x.at = q
      BY DEF Midway, Landing
    <3>2. q <= archive.len
      BY <3>1, CellFacts
    <3> QED BY <3>2 DEF Intact, Whole
  <2>4. LeaveContents(decoder) = {d}
    BY <1>1, <1>4, <2>1, <2>2, <2>3 DEF LeaveContents, Skip
  <2>5. d = [decoder EXCEPT !.pos = q]
    BY <2>2
  <2> HIDE DEF d
  <2>6. /\ d \in Decoders /\ d.pos = q
        /\ d.path = decoder.path /\ d.path_lengths = decoder.path_lengths
    BY <1>1, <1>2, <2>5 DEF Decoders
  <2> QED BY <1>4, <2>4, <2>6
<1> QED BY <1>3, <1>4

LEMMA ItemAhead ==
  ASSUME Intact, NEW d, NEW sn, NEW q, Midway(d, sn, q)
  PROVE  \E x \in archive.cells : x.at = q /\ x.item.htype \in Rest
<1>1. PICK x \in archive.cells : x.at = q /\ Tag(x.item) \in Rest
  BY DEF Midway, Landing
<1>2. x.item.htype \in Rest
  BY <1>1, CellFacts, TagTells DEF FileKinds, Rest
<1> QED BY <1>1, <1>2

LEMMA HeaderIsRead ==
  ASSUME Intact, NEW d \in Decoders, NEW x \in archive.cells, x.at = d.pos,
         x.item.htype \in Rest
  PROVE  \E t \in Decoders :
           /\ ReadNextHeader(d) = {t}
           /\ t.state = "InDirectory" /\ AtItem(t, d.pos, Rest)
           /\ t.path = d.path /\ t.path_lengths = d.path_lengths
           /\ t.payload_consumed = d.payload_consumed
<1> DEFINE l == Load(d, x.item)
           t == Enter(l, "InDirectory")
<1>1. Headers(d, {"FILENAME", "GOODBYE"}) = {x.item}
  BY ReadsCell DEF Rest
<1>2. ReadNextHeader(d) = {t}
  BY <1>1 DEF ReadNextHeader
<1>3. /\ l.pos = d.pos + HeaderSize /\ l.header = x.item
      /\ l.path = d.path /\ l.path_lengths = d.path_lengths
      /\ l.payload_consumed = d.payload_consumed
  BY LoadFields
<1>4. l \in Decoders
  <2>1. x.item \in CurrentHeaders
    BY DEF CurrentHeaders, Intact, Whole, Rest
  <2>2. d.pos + HeaderSize \in Nat
    BY DEF Decoders, HeaderSize
  <2> QED BY <2>1, <2>2 DEF Load, Decoders
<1> HIDE DEF l
<1>5. /\ t.pos = d.pos + HeaderSize /\ t.header = x.item
      /\ t.state = "InDirectory"
      /\ t.path = d.path /\ t.path_lengths = d.path_lengths
      /\ t.payload_consumed = d.payload_consumed
  BY <1>3, <1>4, EnterFields
<1>6. t \in Decoders
  <2>1. "InDirectory" \in States
    BY DEF States
  <2> QED BY <1>4, <2>1 DEF Enter, Decoders
<1> HIDE DEF t
<1>7. AtItem(t, d.pos, Rest)
  BY <1>5 DEF AtItem
<1> QED BY <1>2, <1>5, <1>6, <1>7

LEMMA IsMidway ==
  ASSUME Follows(decoder, seen, call),
         decoder.state \notin {"Begin", "Prelude", "Root", "Eof"}
  PROVE  (\E q : Midway(decoder, seen, q)) /\ IsList(seen) /\ Shown(seen)
  BY DEF Follows, Tracks, Early, Finished

LEMMA ReadHeaderFollows ==
  ASSUME Intact, ReadingOK, Follows(decoder, seen, call), ReadHeader
  PROVE  Follows(decoder', seen', call')
<1>1. /\ decoder.state \in {"Default", "InPayload"} /\ call = "next"
      /\ ContinueOrFail(UNION {ReadNextHeader(d) :
                                 d \in IF decoder.state = "InPayload"
                                         THEN LeaveContents(decoder)
                                         ELSE {decoder}})
  BY DEF ReadHeader, InNext
<1>2. PICK q : Midway(decoder, seen, q)
  BY <1>1, IsMidway
<1>3. decoder \in Decoders /\ decoder.payload_consumed \in Nat
  BY DEF ReadingOK, DecoderTypeOK, DecoderOK, Decoders
<1> DEFINE X == IF decoder.state = "InPayload"
                  THEN LeaveContents(decoder) ELSE {decoder}
<1>4. PICK d \in Decoders :
        /\ X = {d} /\ d.pos = q
        /\ d.path = decoder.path /\ d.path_lengths = decoder.path_lengths
        /\ PayloadInput => d.payload_consumed <= Used(decoder)
  <2>1. CASE decoder.state = "InPayload"
    BY <1>2, <2>1, ContentsAreLeft
  <2>2. CASE decoder.state = "Default"
    <3>1. decoder.pos = q /\ Used(decoder) = decoder.payload_consumed
      BY <1>2, <2>2 DEF Midway, Stands, Used
    <3>2. Used(decoder) <= Used(decoder)
      BY <1>3, <3>1
    <3> QED BY <1>3, <2>2, <3>1, <3>2
  <2> QED BY <1>1, <2>1, <2>2
<1> HIDE DEF X
<1>5. PICK x \in archive.cells : x.at = d.pos /\ x.item.htype \in Rest
  BY <1>2, <1>4, ItemAhead
<1>6. PICK t \in Decoders :
        /\ ReadNextHeader(d) = {t}
        /\ t.state = "InDirectory" /\ AtItem(t, d.pos, Rest)
        /\ t.path = d.path /\ t.path_lengths = d.path_lengths
        /\ t.payload_consumed = d.payload_consumed
  BY <1>5, HeaderIsRead
<1>7. UNION {ReadNextHeader(z) : z \in X} = {t}
  BY <1>4, <1>6
<1>8. decoder' = t /\ seen' = seen /\ call' = call
  BY <1>1, <1>7 DEF X, ContinueOrFail, Continue
<1>9. Midway(t, seen, q)
  BY <1>2, <1>3, <1>4, <1>6, MidwayStays DEF Stands, Used
<1> QED BY <1>1, <1>8, <1>9 DEF Follows, Tracks

LEMMA MeetGoodbyeFollows ==
  ASSUME Intact, ReadingOK, Follows(decoder, seen, call), MeetGoodbye
  PROVE  Follows(decoder', seen', call')
<1> DEFINE d == Enter(decoder, "InGoodbyeTable")
           e == GoodbyeTableEntry
<1>1. /\ decoder.state \in {"InDirectory", "InSpecialFile"}
      /\ call = "next" /\ decoder.header.htype = "GOODBYE"
      /\ \/ Return(d, e)
         \/ Continue(d)
  BY DEF MeetGoodbye, InNext
<1>2. PICK q : Midway(decoder, seen, q)
  BY <1>1, IsMidway
<1>3. decoder \in Decoders /\ decoder.payload_consumed \in Nat
  BY DEF ReadingOK, DecoderTypeOK, DecoderOK, Decoders
<1>4. AtItem(decoder, q, Rest)
  BY <1>1, <1>2 DEF Midway, Stands
<1>5. /\ d.pos = decoder.pos /\ d.header = decoder.header
      /\ d.state = "InGoodbyeTable"
      /\ d.path = decoder.path /\ d.path_lengths = decoder.path_lengths
      /\ d.payload_consumed = decoder.payload_consumed
  BY <1>3, EnterFields
<1>6. d \in Decoders
  <2>1. "InGoodbyeTable" \in States
    BY DEF States
  <2> QED BY <1>3, <2>1 DEF Enter, Decoders
<1>7. ~IsNamed(e)
  BY DEF IsNamed, GoodbyeTableEntry, EntryAt
<1> HIDE DEF d, e
<1>8. Stands(d, q)
  BY <1>1, <1>4, <1>5 DEF AtItem, Stands
<1>9. Used(d) <= Used(decoder)
  BY <1>1, <1>3, <1>5 DEF Used
<1>10. \A sn : Midway(decoder, sn, q) => Midway(d, sn, q)
  BY <1>3, <1>5, <1>6, <1>8, <1>9, MidwayStays
<1>11. CASE Return(d, e)
  <2>1. decoder' = d /\ seen' = Append(seen, e) /\ call' = "idle"
    BY <1>11 DEF Return
  <2>2. /\ IsList(Append(seen, e)) /\ Shown(Append(seen, e))
        /\ Count(Append(seen, e)) = Count(seen)
    BY <1>1, <1>7, IsMidway, ShowsOther
  <2>3. Midway(decoder, Append(seen, e), q)
    BY <1>1, <1>2, <2>2 DEF Midway
  <2> QED BY <1>10, <2>1, <2>2, <2>3 DEF Follows, Tracks
<1>12. CASE Continue(d)
  BY <1>1, <1>2, <1>10, <1>12 DEF Continue, Follows, Tracks
<1> QED BY <1>1, <1>11, <1>12

(* The rest of a FILENAME is read and its name put on the path.              *)
LEMMA NameIsSet ==
  ASSUME Intact, ReadingOK, Ready(decoder), NEW sn, NEW q, NEW hs,
         InOrder(hs, Within(q)), PathTo(decoder, hs),
         decoder.pos = q + HeaderSize, NEW x \in Filenames, x.at = q,
         decoder.header = x.item
  PROVE  \E t \in Decoders :
           /\ Ready(t)
           /\ UNION {SetPath(z, decoder.header.name) :
                       z \in Skip(decoder, ContentSize(decoder.header))}
                = {t}
           /\ t.pos = EndOf(x) /\ t.state = decoder.state
           /\ t.payload_consumed = decoder.payload_consumed
           /\ t.path_lengths = decoder.path_lengths
           /\ Len(t.path) = Len(hs) + 1
           /\ \A k \in 1..Len(hs) : t.path[k] = hs[k].item.name
           /\ t.path[Len(hs) + 1] = x.item.name
<1> DEFINE n == ContentSize(decoder.header)
           z == [decoder EXCEPT !.pos = @ + n]
           name == x.item.name
           lengths == decoder.path_lengths
           path == Append(SubSeq(decoder.path, 1, Len(hs)), name)
           t == [z EXCEPT !.path = path]
<1>1. decoder \in Decoders /\ decoder.path \in Seq(Names)
      /\ lengths \in Seq(Nat)
  BY DEF Ready, DecoderOK, Decoders
<1>2. /\ x \in archive.cells /\ x.item.htype = "FILENAME" /\ name \in Names
      /\ x.at \in Nat /\ EndOf(x) \in Nat /\ x.at + 16 <= EndOf(x)
      /\ EndOf(x) = x.at + x.item.size /\ x.item.size \in Nat
      /\ EndOf(x) <= archive.len /\ archive.len \in Nat
  BY NameFacts, CellFacts
<1>3. n = x.item.size - HeaderSize /\ n \in Nat
  BY <1>2 DEF ContentSize, HeaderSize
<1>4. decoder.pos + n = EndOf(x)
  BY <1>2, <1>3 DEF HeaderSize
<1>5. Skip(decoder, n) = {z}
  <2>1. EndOf(x) <= input.len
    BY <1>2 DEF Intact, Whole
  <2> QED BY <1>4, <2>1 DEF Skip
<1>6. z = [decoder EXCEPT !.pos = EndOf(x)]
  BY <1>4
<1> HIDE DEF n, z
<1>7. /\ z \in Decoders /\ z.pos = EndOf(x) /\ z.state = decoder.state
      /\ z.path = decoder.path /\ z.path_lengths = lengths
      /\ z.payload_consumed = decoder.payload_consumed
  BY <1>1, <1>2, <1>6 DEF Decoders
<1>8. Ready(z)
  BY <1>3, <1>5, SkipOK
<1>9. /\ Len(hs) \in Nat /\ Len(lengths) = Len(hs) + 1
      /\ lengths[Len(lengths)] = Len(hs) /\ Len(hs) <= Len(decoder.path)
      /\ lengths # <<>>
      /\ \A k \in 1..Len(hs) : decoder.path[k] = hs[k].item.name
  <2> DEFINE m == Len(hs)
  <2>1. /\ m \in Nat /\ Len(lengths) = m + 1 /\ m <= Len(decoder.path)
        /\ \A i \in 1..m + 1 : lengths[i] = i - 1
        /\ \A k \in 1..m : decoder.path[k] = hs[k].item.name
    BY DEF PathTo, InOrder
  <2> HIDE DEF m
  <2>2. lengths[Len(lengths)] = m
    BY <2>1
  <2>3. lengths # <<>>
    BY <2>1
  <2> QED BY <2>1, <2>2, <2>3 DEF m
<1>10. SetPath(z, name) = {t}
  BY <1>7, <1>9 DEF SetPath
<1>11. /\ path \in Seq(Names) /\ Len(path) = Len(hs) + 1
       /\ \A k \in 1..Len(hs) : path[k] = hs[k].item.name
       /\ path[Len(hs) + 1] = name
  <2> DEFINE prefix == SubSeq(decoder.path, 1, Len(hs))
  <2>1. /\ prefix \in Seq(Names) /\ Len(prefix) = Len(hs)
        /\ \A k \in 1..Len(hs) : prefix[k] = decoder.path[k]
    BY <1>1, <1>9
  <2>2. path = Append(prefix, name)
    OBVIOUS
  <2>3. /\ Len(hs) \in Nat /\ name \in Names
        /\ \A k \in 1..Len(hs) : prefix[k] = hs[k].item.name
    BY <1>2, <1>9, <2>1
  <2> HIDE DEF prefix, path, name
  <2>4. /\ path \in Seq(Names) /\ Len(path) = Len(hs) + 1
        /\ path[Len(hs) + 1] = name
        /\ \A k \in 1..Len(hs) : path[k] = prefix[k]
    BY <2>1, <2>2, <2>3
  <2> QED BY <2>3, <2>4
<1> HIDE DEF path
<1>12. /\ t \in Decoders /\ t.pos = z.pos /\ t.state = z.state
       /\ t.path = path /\ t.path_lengths = z.path_lengths
       /\ t.payload_consumed = z.payload_consumed
  BY <1>7, <1>11 DEF Decoders
<1>13. Ready(t)
  BY <1>2, <1>8, <1>10, SetPathOK
<1>14. UNION {SetPath(y, decoder.header.name) :
               y \in Skip(decoder, ContentSize(decoder.header))} = {t}
  BY <1>5, <1>10 DEF n, name
<1> HIDE DEF t
<1> QED BY <1>7, <1>11, <1>12, <1>13, <1>14

LEMMA PathGrows ==
  ASSUME NEW S, NEW d, NEW hs \in Seq(S), NEW x, NEW t,
         d.path_lengths \in Seq(Nat), t.path \in Seq(Names),
         Len(d.path_lengths) = Len(hs) + 1,
         \A i \in 1..Len(hs) + 1 : d.path_lengths[i] = i - 1,
         Len(t.path) = Len(hs) + 1,
         \A k \in 1..Len(hs) : t.path[k] = hs[k].item.name,
         t.path[Len(hs) + 1] = x.item.name
  PROVE  /\ t.path_lengths = d.path_lengths => PathTo(t, hs)
         /\ t.path_lengths = Append(d.path_lengths, Len(hs) + 1) =>
              PathTo(t, Append(hs, x))
<1>1. t.path_lengths = d.path_lengths => PathTo(t, hs)
  BY DEF PathTo
<1>2. ASSUME t.path_lengths = Append(d.path_lengths, Len(hs) + 1)
      PROVE  PathTo(t, Append(hs, x))
  <2> DEFINE m == Len(hs)
             hx == Append(hs, x)
  <2>1. hs \in Seq(S \cup {x})
    OBVIOUS
  <2>2. /\ m \in Nat /\ Len(hx) = m + 1 /\ hx[m + 1] = x
        /\ \A k \in 1..m : hx[k] = hs[k]
    BY <2>1
  <2>3. /\ t.path_lengths \in Seq(Nat) /\ Len(t.path_lengths) = m + 2
        /\ t.path_lengths[m + 2] = m + 1
        /\ \A i \in 1..m + 1 : t.path_lengths[i] = d.path_lengths[i]
    BY <1>2, <2>2
  <2> HIDE DEF hx, m
  <2>4. \A i \in 1..Len(hx) + 1 : t.path_lengths[i] = i - 1
    <3>1. \A i \in 1..m + 1 : t.path_lengths[i] = i - 1
      BY <2>3 DEF m
    <3> QED BY <2>2, <2>3, <3>1
  <2>5. \A k \in 1..Len(hx) : t.path[k] = hx[k].item.name
    <3>1. \A k \in 1..m : t.path[k] = hx[k].item.name
      BY <2>2 DEF m
    <3>2. t.path[m + 1] = hx[m + 1].item.name
      BY <2>2 DEF m
    <3> QED BY <2>2, <3>1, <3>2
  <2>6. Len(t.path_lengths) = Len(hx) + 1 /\ Len(hx) <= Len(t.path)
    BY <2>2, <2>3 DEF m
  <2> QED BY <2>3, <2>4, <2>5, <2>6 DEF PathTo, hx
<1> QED BY <1>1, <1>2

(* What an entry opens is the first contents behind its name.                *)
LEMMA OpenedFrom ==
  ASSUME Intact, NEW x \in Filenames, NEW b \in archive.cells,
         b.at = EndOf(x), Tag(b.item) \in EntryTags,
         NEW d, NEW entry, Opened(d, entry, b.at)
  PROVE  Opened(d, entry, x.at)
<1>1. /\ x \in archive.cells /\ x.item.htype = "FILENAME" /\ x.at < b.at
      /\ x.at \in Nat /\ b.at \in Nat
  BY NameFacts, CellFacts
<1>2. b.item.htype # "PAYLOAD"
  BY CellFacts, KindNames
<1>3. ASSUME NEW z \in CellsOf(archive, "PAYLOAD"), x.at < z.at
      PROVE  b.at < z.at
  <2>1. z \in archive.cells /\ z.item.htype = "PAYLOAD" /\ z.at \in Nat
    BY CellFacts DEF CellsOf
  <2>2. EndOf(x) <= z.at /\ b # z
    BY <1>1, <1>2, <1>3, <2>1, OneAt
  <2>3. b.at # z.at
    BY <2>1, <2>2, OneAt
  <2> QED BY <1>1, <2>1, <2>2, <2>3
<1>4. CASE PayloadInput
  BY <1>4 DEF Opened
<1>5. CASE ~PayloadInput
  <2> SUFFICES ASSUME d.state = "InPayload"
               PROVE  \E c \in CellsOf(archive, "PAYLOAD") :
                        /\ x.at < c.at
                        /\ \A z \in CellsOf(archive, "PAYLOAD") :
                             x.at < z.at => c.at <= z.at
                        /\ c.item.content = d.contents.size
                        /\ d.pos = c.at + HeaderSize + d.contents.offset
    BY <1>5 DEF Opened
  <2>1. PICK c \in CellsOf(archive, "PAYLOAD") :
          /\ b.at < c.at
          /\ \A z \in CellsOf(archive, "PAYLOAD") : b.at < z.at => c.at <= z.at
          /\ c.item.content = d.contents.size
          /\ d.pos = c.at + HeaderSize + d.contents.offset
    BY <1>5 DEF Opened
  <2>2. x.at < c.at
    BY <1>1, <2>1, CellFacts DEF CellsOf
  <2> QED BY <1>3, <2>1, <2>2
<1> QED BY <1>4, <1>5

LEMMA HandleFileEntryFollows ==
  ASSUME Intact, ReadingOK, Follows(decoder, seen, call), HandleFileEntry
  PROVE  Follows(decoder', seen', call')
<1> DEFINE X == UNION {SetPath(z, decoder.header.name) :
                         z \in Skip(decoder, ContentSize(decoder.header))}
<1>1. /\ decoder.state \in {"InDirectory", "InSpecialFile"}
      /\ call = "next" /\ decoder.header.htype = "FILENAME"
      /\ ReturnOrFail(UNION {ReadNextEntry(d) : d \in X})
  BY DEF HandleFileEntry, InNext
<1>2. PICK q : Midway(decoder, seen, q)
  BY <1>1, IsMidway
<1>3. IsList(seen) /\ Shown(seen)
  BY <1>1, IsMidway
<1>4. Ready(decoder) /\ InputsOK /\ decoder \in Decoders
  BY InNextIsReady DEF HandleFileEntry, ReadingOK, Ready, DecoderOK
<1>5. PICK x \in archive.cells :
        x.at = q /\ decoder.header = x.item /\ decoder.pos = q + HeaderSize
  BY <1>1, <1>2 DEF Midway, Stands, AtItem
<1>6. x \in Filenames /\ ~IsRootTable(x) /\ Tag(x.item) = "FILENAME"
  BY <1>1, <1>5, NameFacts DEF Filenames, CellsOf, IsRootTable
<1>7. PICK hs : InOrder(hs, Within(q)) /\ PathTo(decoder, hs)
  BY <1>2 DEF Midway
<1>8. PICK t \in Decoders :
        /\ Ready(t) /\ X = {t}
        /\ t.pos = EndOf(x) /\ t.state = decoder.state
        /\ t.payload_consumed = decoder.payload_consumed
        /\ t.path_lengths = decoder.path_lengths
        /\ Len(t.path) = Len(hs) + 1
        /\ \A k \in 1..Len(hs) : t.path[k] = hs[k].item.name
        /\ t.path[Len(hs) + 1] = x.item.name
  BY <1>4, <1>5, <1>6, <1>7, NameIsSet
<1> HIDE DEF X
<1>9. PICK b \in archive.cells : MayFollow(b, x)
  BY <1>6, Follower
<1>10. b.at = EndOf(x) /\ Tag(b.item) \in EntryTags
  BY <1>6, <1>9, Afters DEF MayFollow, EntryTags
<1>11. /\ x.at \in Nat /\ b.at \in Nat /\ x.at < b.at /\ ItemOK(b.item)
       /\ b.item.htype \notin Rest
  <2>1. x.at \in Nat /\ x.at < EndOf(x)
    BY <1>6, NameFacts
  <2>2. b.item.htype \in {"HARDLINK", "ENTRY"}
    BY <1>10, CellFacts, KindNames
  <2> QED BY <1>10, <2>1, <2>2, CellFacts DEF Rest
<1>12. Ahead(t, b.at)
  <2> SUFFICES ASSUME PayloadInput, NEW r \in CellsOf(archive, "PAYLOAD_REF"),
                      b.at <= r.at
               PROVE  Used(t) <= r.item.offset
    BY DEF Ahead
  <2>1. q <= r.at
    BY <1>5, <1>11, CellFacts DEF CellsOf
  <2>2. Used(decoder) <= r.item.offset
    BY <1>2, <2>1 DEF Midway, Ahead
  <2> QED BY <1>1, <1>8, <2>2 DEF Used
<1>13. PICK o : \E p \in Nat :
        /\ ReadNextEntry(t) = {o} /\ FreshOutcome(o)
        /\ b.at < p /\ Landing(p) /\ Clear(b.at, p)
        /\ Arrived(o, t, ItemKind(b.item), LengthsAfter(t, b), b.at, p)
  <2>1. t.state # "InPayload" /\ t.pos = b.at
    BY <1>1, <1>8, <1>10
  <2> QED BY <1>4, <1>8, <1>10, <1>12, <2>1, EntryTour
<1>14. PICK p \in Nat :
        /\ ReadNextEntry(t) = {o} /\ FreshOutcome(o)
        /\ b.at < p /\ Landing(p) /\ Clear(b.at, p)
        /\ Arrived(o, t, ItemKind(b.item), LengthsAfter(t, b), b.at, p)
  BY <1>13
<1> DEFINE d == o.decoder
           e == o.entry
           sn == Append(seen, e)
<1>15. /\ o = Outcome(d, e) /\ e.path = t.path
       /\ e.kind = ItemKind(b.item) /\ d.path = t.path
       /\ d.path_lengths = LengthsAfter(t, b)
       /\ Opened(d, e, b.at) /\ Stands(d, p) /\ Ahead(d, p)
  BY <1>14 DEF Arrived
<1>16. d \in Decoders
  BY <1>14 DEF FreshOutcome, Fresh, Ready, DecoderOK
<1>17. decoder' = d /\ seen' = sn /\ call' = "idle"
  <2>1. UNION {ReadNextEntry(z) : z \in X} = {Outcome(d, e)}
    BY <1>8, <1>14, <1>15
  <2>2. ReturnOrFail({Outcome(d, e)})
    BY <1>1, <2>1
  <2> QED BY <2>2, Returned
<1>18. Opened(d, e, x.at)
  BY <1>6, <1>10, <1>15, OpenedFrom
<1> HIDE DEF d, e
<1>19. /\ x \notin NamesBefore(x.at)
       /\ NamesBefore(p) = NamesBefore(x.at) \cup {x}
       /\ ~IsDirEntry(b) => Within(p) = Within(x.at)
       /\ IsDirEntry(b) => Within(p) = Within(x.at) \cup {x}
       /\ \A y \in Within(x.at) : y.at < x.at
  BY <1>6, <1>10, <1>11, <1>14, PassesEntry
<1>20. /\ Count(seen) = Cardinality(NamesBefore(x.at))
       /\ Cardinality(NamesBefore(p)) = Count(seen) + 1
       /\ Count(seen) \in Nat
  <2>1. IsFiniteSet(NamesBefore(x.at)) /\ Cardinality(NamesBefore(x.at)) \in Nat
    BY NamesAreFinite
  <2>2. Cardinality(NamesBefore(x.at) \cup {x})
          = Cardinality(NamesBefore(x.at)) + 1
    BY <1>19, <2>1, FS_AddElement
  <2> QED BY <1>2, <1>5, <1>19, <2>1, <2>2 DEF Midway
<1>21. IsNamed(e)
  <2>1. e.path # <<>>
    <3>1. Len(hs) \in Nat
      BY <1>7 DEF InOrder
    <3>2. Len(e.path) # 0
      BY <1>8, <1>15, <3>1
    <3> QED BY <3>2
  <2>2. e.kind \notin {"Version", "Prelude", "GoodbyeTable"}
    BY <1>10, <1>11, <1>15, KindNames
  <2> QED BY <2>1, <2>2 DEF IsNamed
<1>22. t.path \in Seq(Names) /\ hs \in Seq(Within(q)) /\ Len(hs) \in Nat
  BY <1>7, <1>8 DEF Decoders, InOrder
<1>23. Shown(sn)
  <2>1. NthName(Count(seen) + 1) = x
    BY <1>6, <1>20, NthNameIs
  <2>2. PathOf(x) = t.path
    BY <1>5, <1>6, <1>7, <1>8, <1>22, PathOfIs
  <2>3. KindOf(x) = ItemKind(b.item)
    BY <1>6, <1>10, KindOfIs
  <2> QED BY <1>3, <1>15, <2>1, <2>2, <2>3, ShowsMore
<1>24. /\ IsList(sn) /\ Count(sn) = Count(seen) + 1
       /\ Len(sn) > 0 /\ sn[Len(sn)] = e
  BY <1>3, <1>21, ListMore, NamedMore
<1>25. \E gs : InOrder(gs, Within(p)) /\ PathTo(d, gs)
  <2>1. /\ decoder.path_lengths \in Seq(Nat)
        /\ Len(decoder.path_lengths) = Len(hs) + 1
        /\ \A i \in 1..Len(hs) + 1 : decoder.path_lengths[i] = i - 1
    BY <1>7 DEF PathTo
  <2>2. /\ d.path_lengths = decoder.path_lengths => PathTo(d, hs)
        /\ d.path_lengths = Append(decoder.path_lengths, Len(hs) + 1) =>
             PathTo(d, Append(hs, x))
    BY <1>8, <1>15, <1>22, <2>1, PathGrows
  <2>3. CASE IsDirEntry(b)
    <3>1. d.path_lengths = Append(decoder.path_lengths, Len(hs) + 1)
      BY <1>8, <1>15, <2>3 DEF LengthsAfter
    <3>2. InOrder(Append(hs, x), Within(p))
      BY <1>5, <1>7, <1>19, <2>3, InOrderMore
    <3> QED BY <2>2, <3>1, <3>2
  <2>4. CASE ~IsDirEntry(b)
    <3>1. d.path_lengths = decoder.path_lengths
      BY <1>8, <1>15, <2>4 DEF LengthsAfter
    <3> QED BY <1>5, <1>7, <1>19, <2>2, <2>4, <3>1
  <2> QED BY <2>3, <2>4
<1>26. Midway(d, sn, p)
  <2> HIDE DEF sn
  <2>1. Cardinality(NamesBefore(x.at)) + 1 = Count(sn)
    BY <1>20, <1>24
  <2> QED BY <1>6, <1>14, <1>15, <1>18, <1>20, <1>24, <1>25, <2>1 DEF Midway
<1> QED BY <1>17, <1>23, <1>24, <1>26 DEF Follows, Tracks

(* The root's table ends the archive; any other leads back to the parent.    *)
LEMMA SkipGoodbyeTableFollows ==
  ASSUME Intact, ReadingOK, Follows(decoder, seen, call), SkipGoodbyeTable
  PROVE  Follows(decoder', seen', call')
<1> DEFINE left == {LeaveDirectory(d) :
                      d \in Skip(decoder, ContentSize(decoder.header))}
<1>1. /\ decoder.state = "InGoodbyeTable" /\ call = "next"
      /\ IF left = {} \/ decoder.path_lengths = <<>>
           THEN ReturnError
           ELSE \E d \in left :
                  /\ decoder' = d
                  /\ call' = IF d.state = "Eof" THEN "ended" ELSE call
                  /\ UNCHANGED seen
  BY DEF SkipGoodbyeTable, InNext
<1>2. PICK q : Midway(decoder, seen, q)
  BY <1>1, IsMidway
<1>3. IsList(seen) /\ Shown(seen)
  BY <1>1, IsMidway
<1>4. decoder \in Decoders /\ decoder.payload_consumed \in Nat
      /\ decoder.path_lengths \in Seq(Nat)
  BY DEF ReadingOK, DecoderTypeOK, DecoderOK, Decoders
<1>5. PICK g \in archive.cells :
        /\ g.at = q /\ g.item.htype = "GOODBYE" /\ decoder.header = g.item
        /\ decoder.pos = q + HeaderSize
  BY <1>1, <1>2 DEF Midway, Stands, AtItem
<1>6. /\ g.at \in Nat /\ EndOf(g) \in Nat /\ g.item.size >= 16
      /\ EndOf(g) = g.at + g.item.size /\ g.item.size \in Nat
      /\ EndOf(g) <= archive.len /\ archive.len \in Nat
  BY <1>5, CellFacts
<1> DEFINE n == ContentSize(decoder.header)
           z == [decoder EXCEPT !.pos = @ + n]
           lengths == decoder.path_lengths
           m == Len(lengths) - 1
           fewer == SubSeq(lengths, 1, m)
           s == IF fewer = <<>> THEN "Eof" ELSE "Default"
           t == [z EXCEPT !.path_lengths = fewer, !.state = s]
<1>7. decoder.pos + n = EndOf(g)
  BY <1>5, <1>6 DEF ContentSize, HeaderSize
<1>8. Skip(decoder, n) = {z}
  <2>1. EndOf(g) <= input.len
    BY <1>6 DEF Intact, Whole
  <2> QED BY <1>7, <2>1 DEF Skip
<1>9. z = [decoder EXCEPT !.pos = EndOf(g)]
  BY <1>7
<1> HIDE DEF n, z
<1>10. /\ z \in Decoders /\ z.pos = EndOf(g)
       /\ z.path = decoder.path /\ z.path_lengths = lengths
       /\ z.payload_consumed = decoder.payload_consumed
  BY <1>4, <1>6, <1>9 DEF Decoders
<1>11. left = {t}
  <2>1. LeaveDirectory(z) = t
    BY <1>10 DEF LeaveDirectory
  <2> QED BY <1>8, <2>1 DEF n
<1>12. PICK hs : InOrder(hs, Within(q)) /\ PathTo(decoder, hs)
  BY <1>2 DEF Midway
<1>13. /\ Len(hs) \in Nat /\ m = Len(hs) /\ Len(lengths) = Len(hs) + 1
       /\ \A i \in 1..Len(hs) + 1 : lengths[i] = i - 1
       /\ Len(hs) <= Len(decoder.path) /\ decoder.path \in Seq(Names)
       /\ \A k \in 1..Len(hs) : decoder.path[k] = hs[k].item.name
  <2> DEFINE h == Len(hs)
  <2>1. /\ h \in Nat /\ Len(lengths) = h + 1
        /\ \A i \in 1..h + 1 : lengths[i] = i - 1
        /\ h <= Len(decoder.path) /\ decoder.path \in Seq(Names)
        /\ \A k \in 1..h : decoder.path[k] = hs[k].item.name
    BY <1>12 DEF PathTo, InOrder
  <2> HIDE DEF h
  <2>2. m = h
    BY <2>1
  <2> HIDE DEF m
  <2> QED BY <2>1, <2>2 DEF h
<1>14. fewer \in Seq(Nat) /\ Len(fewer) = Len(hs)
       /\ \A i \in 1..Len(hs) : fewer[i] = i - 1
  <2>1. /\ m \in Nat /\ m <= Len(lengths) /\ lengths \in Seq(Nat)
    BY <1>4, <1>13
  <2> HIDE DEF m, lengths
  <2>2. /\ fewer \in Seq(Nat) /\ Len(fewer) = m
        /\ \A i \in 1..m : fewer[i] = lengths[i]
    BY <2>1
  <2> QED BY <1>13, <2>2
<1>15. s \in States
  BY DEF States
<1> HIDE DEF fewer, s, m, lengths
<1>16. /\ t \in Decoders /\ t.pos = EndOf(g) /\ t.path = decoder.path
       /\ t.path_lengths = fewer /\ t.state = s
       /\ t.payload_consumed = decoder.payload_consumed
  BY <1>10, <1>14, <1>15 DEF Decoders
<1>17. /\ fewer = <<>> <=> Len(hs) = 0
  BY <1>13, <1>14
<1> HIDE DEF t, left
<1>18. /\ decoder' = t /\ seen' = seen
       /\ call' = IF t.state = "Eof" THEN "ended" ELSE call
  <2>1. decoder.path_lengths # <<>>
    BY <1>13 DEF lengths
  <2> QED BY <1>1, <1>11, <2>1
<1>19. CASE IsRootTable(g)
  <2>1. Within(q) = {} /\ NamesBefore(q) = Filenames
    BY <1>5, <1>19, LeavesRoot
  <2>2. Len(hs) = 0
    <3>1. hs \in Seq({})
      BY <1>12, <2>1 DEF InOrder
    <3> QED BY <3>1
  <2>3. t.state = "Eof"
    BY <1>16, <1>17, <2>2 DEF s
  <2>4. Finished(t, seen)
    BY <1>2, <2>1, <2>3 DEF Midway, Finished
  <2> QED BY <1>1, <1>3, <1>18, <2>3, <2>4 DEF Follows, Tracks
<1>20. CASE ~IsRootTable(g)
  <2> DEFINE p == EndOf(g)
             gs == SubSeq(hs, 1, Len(hs) - 1)
  <2>1. NamesBefore(p) = NamesBefore(q)
    BY <1>5, <1>20, LeavesTable
  <2>2. PICK x \in Within(q) :
          /\ Within(p) = Within(q) \ {x}
          /\ \A y \in Within(q) : y # x => y.at < x.at
    BY <1>5, <1>20, LeavesTable
  <2>3. \A y \in Within(q) : y.at \in Nat
    BY NameFacts DEF Within
  <2>4. Len(hs) > 0 /\ InOrder(gs, Within(p))
    BY <1>12, <2>2, <2>3, InOrderFewer
  <2>5. t.state = "Default"
    BY <1>16, <1>17, <2>4 DEF s
  <2>6. /\ Len(gs) = Len(hs) - 1
        /\ \A k \in 1..Len(hs) - 1 : gs[k] = hs[k]
    <3>1. hs \in Seq(Within(q))
      BY <1>12 DEF InOrder
    <3>2. Len(hs) - 1 \in Nat /\ Len(hs) - 1 <= Len(hs)
      BY <1>13, <2>4
    <3> DEFINE h == Len(hs) - 1
    <3> HIDE DEF h
    <3>3. h \in Nat /\ h <= Len(hs)
      BY <3>2 DEF h
    <3>4. gs = SubSeq(hs, 1, h)
      BY DEF h
    <3> HIDE DEF gs
    <3>5. Len(gs) = h /\ \A k \in 1..h : gs[k] = hs[k]
      BY <3>1, <3>3, <3>4
    <3> QED BY <3>5 DEF h
  <2> HIDE DEF gs
  <2>7. PathTo(t, gs)
    BY <1>13, <1>14, <1>16, <2>4, <2>6 DEF PathTo
  <2>8. Landing(p)
    <3>1. Tag(g.item) = "GOODBYE"
      BY <1>5 DEF Tag
    <3>2. After(Tag(g.item)) = Rest
      BY <3>1, Afters
    <3> QED BY <1>5, <1>20, <3>2, FollowedByRest
  <2>9. Ahead(t, p)
    <3> SUFFICES ASSUME PayloadInput,
                        NEW r \in CellsOf(archive, "PAYLOAD_REF"), p <= r.at
                 PROVE  Used(t) <= r.item.offset
      BY DEF Ahead
    <3>1. q <= r.at
      BY <1>5, <1>6, CellFacts DEF CellsOf
    <3>2. Used(decoder) <= r.item.offset
      BY <1>2, <3>1 DEF Midway, Ahead
    <3> QED BY <1>1, <1>16, <2>5, <3>2 DEF Used
  <2>10. Stands(t, p)
    BY <1>16, <2>5 DEF Stands
  <2>11. Midway(t, seen, p)
    BY <1>2, <1>6, <2>1, <2>4, <2>5, <2>7, <2>8, <2>9, <2>10 DEF Midway
  <2> QED BY <1>1, <1>3, <1>18, <2>5, <2>11 DEF Follows, Tracks
<1> QED BY <1>19, <1>20

-----------------------------------------------------------------------------
(***************************************************************************)
(* What the caller does between two calls of next().                        *)
(***************************************************************************)
LEMMA SettingIsNoMove ==
  ASSUME NEW d, NEW sn, Tracks(d, sn), NEW t,
         t.pos = d.pos, t.header = d.header, t.state = d.state,
         t.contents = d.contents, t.path = d.path,
         t.path_lengths = d.path_lengths,
         t.payload_consumed = d.payload_consumed
  PROVE  Tracks(t, sn)
<1>1. Used(t) = Used(d)
  BY DEF Used
<1>2. \A q : Ahead(t, q) <=> Ahead(d, q)
  BY <1>1 DEF Ahead
<1>3. \A q : Stands(t, q) <=> Stands(d, q)
  BY DEF Stands, AtItem, InContents
<1>4. \A e, p : Opened(t, e, p) <=> Opened(d, e, p)
  BY DEF Opened
<1>5. \A hs : PathTo(t, hs) <=> PathTo(d, hs)
  BY DEF PathTo
<1>6. Early(d, sn) => Early(t, sn)
  BY <1>2 DEF Early
<1>7. \A q : Midway(d, sn, q) => Midway(t, sn, q)
  BY <1>2, <1>3, <1>4, <1>5 DEF Midway
<1>8. Finished(d, sn) => Finished(t, sn)
  BY DEF Finished
<1> QED BY <1>6, <1>7, <1>8 DEF Tracks

LEMMA StillInContents ==
  ASSUME NEW d, NEW sn, NEW q, Midway(d, sn, q), d.state = "InPayload",
         NEW t, t.state = "InPayload", t.path = d.path,
         t.path_lengths = d.path_lengths, InContents(t, q),
         PayloadInput => Used(t) = Used(d),
         \A e, p : Opened(d, e, p) => Opened(t, e, p)
  PROVE  Midway(t, sn, q)
<1>1. Ahead(t, q)
  BY DEF Midway, Ahead
<1>2. Stands(t, q)
  BY DEF Stands
<1>3. \A hs : PathTo(d, hs) => PathTo(t, hs)
  BY DEF PathTo
<1> QED BY <1>1, <1>2, <1>3 DEF Midway

LEMMA ContentsState ==
  ASSUME ReadingOK, Follows(decoder, seen, call), decoder.state = "InPayload"
  PROVE  /\ decoder \in Decoders
         /\ decoder.contents \in ContentsFields
         /\ decoder.contents.offset <= decoder.contents.size
         /\ \E q : Midway(decoder, seen, q) /\ InContents(decoder, q)
         /\ PayloadInput =>
              decoder.payload_pos
                = decoder.payload_consumed + decoder.contents.offset
<1>1. /\ decoder \in Decoders /\ decoder.contents \in ContentsFields
      /\ decoder.contents.offset <= decoder.contents.size
  BY DEF ReadingOK, DecoderTypeOK, DecoderOK, Decoders
<1>2. \E q : Midway(decoder, seen, q) /\ InContents(decoder, q)
  <2>1. PICK q : Midway(decoder, seen, q)
    BY IsMidway
  <2>2. InContents(decoder, q)
    BY <2>1 DEF Midway, Stands
  <2> QED BY <2>1, <2>2
<1>3. PayloadInput =>
        decoder.payload_pos
          = decoder.payload_consumed + decoder.contents.offset
  BY DEF ReadingOK, Balanced
<1> QED BY <1>1, <1>2, <1>3

LEMMA PayloadRoom ==
  ASSUME Intact, NEW y \in CellsOf(payload, "PAYLOAD")
  PROVE  /\ y \in payload_input.cells /\ y.item.htype = "PAYLOAD"
         /\ y.at \in Nat /\ y.at + HeaderSize <= payload_input.len
<1>1. y \in payload.cells /\ y.item.htype = "PAYLOAD"
  BY DEF CellsOf
<1>2. /\ payload_input = payload /\ payload.len \in Nat
      /\ y.at \in Nat /\ ItemOK(y.item)
      /\ y.at + y.item.size <= payload.len
  BY <1>1 DEF Intact, Whole, Stream
<1>3. y.item.size \in Nat /\ y.item.size >= HeaderSize
  BY <1>1, <1>2 DEF ItemOK
<1> QED BY <1>1, <1>2, <1>3 DEF HeaderSize

LEMMA ContentReaderFollows ==
  ASSUME Intact, ReadingOK, Follows(decoder, seen, call), ContentReader
  PROVE  Follows(decoder', seen', call')
<1>1. /\ call = "idle" /\ decoder.state = "InPayload" /\ PayloadInput
      /\ ~decoder.contents.header_checked
      /\ IF PayloadHeaderFits THEN Continue(CheckHeader(decoder))
                              ELSE ReturnError
  BY DEF ContentReader
<1>2. /\ decoder \in Decoders /\ decoder.contents \in ContentsFields
      /\ decoder.payload_pos
           = decoder.payload_consumed + decoder.contents.offset
      /\ decoder.payload_consumed \in Nat /\ decoder.payload_pos \in Nat
      /\ decoder.contents.size \in Nat
  BY <1>1, ContentsState DEF Decoders, ContentsFields
<1>3. PICK q : Midway(decoder, seen, q) /\ InContents(decoder, q)
  BY <1>1, ContentsState
<1>4. IsList(seen) /\ Shown(seen)
  BY DEF Follows
<1>5. PayloadHeaderFits
  <2>1. PICK x \in Filenames : Opened(decoder, seen[Len(seen)], x.at)
    BY <1>1, <1>3 DEF Midway
  <2>2. PICK y \in CellsOf(payload, "PAYLOAD") :
          /\ y.item.content = decoder.contents.size
          /\ decoder.payload_consumed = y.at
                + (IF decoder.contents.header_checked THEN HeaderSize ELSE 0)
          /\ ~decoder.contents.header_checked => decoder.contents.offset = 0
    BY <1>1, <2>1 DEF Opened
  <2>3. /\ y \in payload_input.cells /\ y.item.htype = "PAYLOAD"
        /\ y.at \in Nat /\ y.at + HeaderSize <= payload_input.len
    BY PayloadRoom
  <2>4. y.at = decoder.payload_pos
    BY <1>1, <1>2, <2>2, <2>3
  <2> QED BY <2>2, <2>3, <2>4 DEF PayloadHeaderFits
<1> DEFINE c == [decoder.contents EXCEPT !.header_checked = TRUE]
           a == decoder.payload_pos + HeaderSize
           b == decoder.payload_consumed + HeaderSize
           t == CheckHeader(decoder)
<1>6. t = [decoder EXCEPT !.payload_pos = a, !.payload_consumed = b,
                          !.contents = c]
  BY <1>2 DEF CheckHeader, Decoders
<1>7. /\ c.offset = decoder.contents.offset /\ c.size = decoder.contents.size
      /\ c.header_checked = TRUE
  BY <1>2 DEF ContentsFields
<1> HIDE DEF c, a, t
<1>8. /\ t.state = "InPayload" /\ t.pos = decoder.pos
      /\ t.path = decoder.path /\ t.path_lengths = decoder.path_lengths
      /\ t.contents = c /\ t.payload_consumed = b
  <2> HIDE DEF b
  <2> QED BY <1>1, <1>2, <1>6 DEF Decoders
<1> HIDE DEF b
<1>9. InContents(t, q)
  BY <1>1, <1>3, <1>8 DEF InContents
<1>10. Used(t) = Used(decoder)
  <2>1. Used(t) = b + 0 + c.size
    BY <1>7, <1>8 DEF Used
  <2>2. Used(decoder)
          = decoder.payload_consumed + HeaderSize + decoder.contents.size
    BY <1>1 DEF Used
  <2> QED BY <1>2, <1>7, <2>1, <2>2 DEF b, HeaderSize
<1>11. ASSUME NEW e, NEW p, Opened(decoder, e, p)
       PROVE  Opened(t, e, p)
  <2>1. PICK y \in CellsOf(payload, "PAYLOAD") :
          /\ e.payload_offset = <<y.at>>
          /\ y.item.content = decoder.contents.size
          /\ decoder.payload_consumed = y.at
               + (IF decoder.contents.header_checked THEN HeaderSize ELSE 0)
    BY <1>1, <1>11 DEF Opened
  <2>2. y.at \in Nat
    BY PayloadRoom
  <2>3. b = y.at + HeaderSize
    BY <1>1, <2>1, <2>2 DEF b, HeaderSize
  <2>4. /\ y.item.content = t.contents.size /\ t.contents.header_checked = TRUE
        /\ t.payload_consumed
             = y.at + (IF t.contents.header_checked THEN HeaderSize ELSE 0)
    BY <1>7, <1>8, <2>1, <2>3
  <2> QED BY <1>1, <2>1, <2>4 DEF Opened
<1>12. Midway(t, seen, q)
  BY <1>1, <1>3, <1>8, <1>9, <1>10, <1>11, StillInContents
<1>13. decoder' = t /\ seen' = seen /\ call' = call
  BY <1>1, <1>5 DEF Continue, t
<1> QED BY <1>1, <1>4, <1>12, <1>13 DEF Follows, Tracks

LEMMA ReadContentsFollows ==
  ASSUME Intact, ReadingOK, Follows(decoder, seen, call),
         NEW k \in ReadSizes, ReadContents(k)
  PROVE  Follows(decoder', seen', call')
<1> DEFINE c == [decoder.contents EXCEPT !.offset = @ + k]
           a == decoder.payload_pos + k
           p == decoder.pos + k
           t == IF PayloadInput
                  THEN [decoder EXCEPT !.contents = c, !.payload_pos = a]
                  ELSE [decoder EXCEPT !.contents = c, !.pos = p]
<1>1. /\ call = "idle" /\ decoder.state = "InPayload"
      /\ PayloadInput => decoder.contents.header_checked
      /\ call' = call /\ seen' = seen
  BY DEF ReadContents
<1>2. /\ decoder \in Decoders /\ decoder.contents \in ContentsFields
      /\ decoder.contents.offset \in Nat /\ decoder.contents.size \in Nat
      /\ decoder.pos \in Nat /\ k \in Nat
  BY <1>1, ContentsState, DecoderAssumption DEF Decoders, ContentsFields
<1>3. PICK q : Midway(decoder, seen, q) /\ InContents(decoder, q)
  BY <1>1, ContentsState
<1>4. IsList(seen) /\ Shown(seen)
  BY DEF Follows
<1>5. decoder' = t
  BY <1>2 DEF ReadContents, Decoders
<1>6. /\ c.offset = decoder.contents.offset + k
      /\ c.size = decoder.contents.size
      /\ c.header_checked = decoder.contents.header_checked
  BY <1>2 DEF ContentsFields
<1> HIDE DEF c, a, p
<1>7. /\ t.state = "InPayload" /\ t.contents = c
      /\ t.path = decoder.path /\ t.path_lengths = decoder.path_lengths
      /\ t.header = decoder.header
      /\ t.payload_consumed = decoder.payload_consumed
      /\ t.pos = IF PayloadInput THEN decoder.pos ELSE p
  <2>1. CASE PayloadInput
    BY <1>1, <1>2, <2>1 DEF Decoders
  <2>2. CASE ~PayloadInput
    BY <1>1, <1>2, <2>2 DEF Decoders
  <2> QED BY <2>1, <2>2
<1> HIDE DEF t
<1>8. InContents(t, q)
  <2>1. CASE PayloadInput
    BY <1>3, <1>7, <2>1 DEF InContents
  <2>2. CASE ~PayloadInput
    <3>1. p + (c.size - c.offset)
            = decoder.pos
                + (decoder.contents.size - decoder.contents.offset)
      BY <1>2, <1>6 DEF p
    <3> QED BY <1>3, <1>6, <1>7, <2>2, <3>1 DEF InContents
  <2> QED BY <2>1, <2>2
<1>9. Used(t) = Used(decoder)
  BY <1>1, <1>6, <1>7 DEF Used
<1>10. ASSUME NEW e, NEW b, Opened(decoder, e, b)
       PROVE  Opened(t, e, b)
  <2>1. CASE PayloadInput
    BY <1>1, <1>6, <1>7, <1>10, <2>1 DEF Opened
  <2>2. CASE ~PayloadInput
    <3>1. PICK z \in CellsOf(archive, "PAYLOAD") :
             /\ b < z.at
             /\ \A y \in CellsOf(archive, "PAYLOAD") : b < y.at => z.at <= y.at
             /\ z.item.content = decoder.contents.size
             /\ decoder.pos = z.at + HeaderSize + decoder.contents.offset
      BY <1>1, <1>10, <2>2 DEF Opened
    <3>2. z.at \in Nat
      BY CellFacts DEF CellsOf
    <3>3. t.pos = z.at + HeaderSize + t.contents.offset
      BY <1>2, <1>6, <1>7, <2>2, <3>1, <3>2 DEF p, HeaderSize
    <3> QED BY <1>6, <1>7, <2>2, <3>1, <3>3 DEF Opened
  <2> QED BY <2>1, <2>2
<1>11. Midway(t, seen, q)
  BY <1>1, <1>3, <1>7, <1>8, <1>9, <1>10, StillInContents
<1> QED BY <1>1, <1>4, <1>5, <1>11 DEF Follows, Tracks

LEMMA DecoderNextFollows ==
  ASSUME Intact, ReadingOK, DecoderNext, call = "new" => seen = <<>>,
         call # "new" => Follows(decoder, seen, call)
  PROVE  Follows(decoder', seen', call')
<1>1. CASE Create
  BY <1>1, CreateFollows DEF Create
<1>2. CASE CallNext
  <2>1. /\ Follows(decoder, seen, call) /\ call' = "next"
        /\ decoder' = decoder /\ seen' = seen
    BY <1>2 DEF CallNext
  <2> QED BY <2>1 DEF Follows
<1>3. CASE AtEnd
  <2>1. /\ Follows(decoder, seen, call) /\ call' = "ended"
        /\ decoder' = decoder /\ seen' = seen /\ decoder.state = "Eof"
    BY <1>3 DEF AtEnd, InNext
  <2> QED BY <2>1 DEF Follows
<1>4. ASSUME NEW on \in GoodbyeModes, EnableGoodbyeEntries(on)
      PROVE  Follows(decoder', seen', call')
  <2>1. /\ Follows(decoder, seen, call) /\ call = "idle" /\ call' = call
        /\ decoder' = [decoder EXCEPT !.with_goodbye_tables = on]
        /\ seen' = seen
    BY <1>4 DEF EnableGoodbyeEntries
  <2>2. decoder \in Decoders
    BY DEF ReadingOK, DecoderTypeOK, DecoderOK
  <2>3. /\ decoder'.pos = decoder.pos /\ decoder'.header = decoder.header
        /\ decoder'.state = decoder.state
        /\ decoder'.contents = decoder.contents
        /\ decoder'.path = decoder.path
        /\ decoder'.path_lengths = decoder.path_lengths
        /\ decoder'.payload_consumed = decoder.payload_consumed
    BY <2>1, <2>2 DEF Decoders
  <2>4. Tracks(decoder', seen)
    BY <2>1, <2>3, SettingIsNoMove DEF Follows
  <2> QED BY <2>1, <2>4 DEF Follows
<1>5. CASE ReadFirstEntry
  BY <1>5, ReadFirstEntryFollows DEF ReadFirstEntry, InNext
<1>6. CASE ReadHeader
  BY <1>6, ReadHeaderFollows DEF ReadHeader, InNext
<1>7. CASE HandleFileEntry
  BY <1>7, HandleFileEntryFollows DEF HandleFileEntry, InNext
<1>8. CASE MeetGoodbye
  BY <1>8, MeetGoodbyeFollows DEF MeetGoodbye, InNext
<1>9. CASE SkipGoodbyeTable
  BY <1>9, SkipGoodbyeTableFollows DEF SkipGoodbyeTable, InNext
<1>10. CASE ContentReader
  BY <1>10, ContentReaderFollows DEF ContentReader
<1>11. ASSUME NEW k \in ReadSizes, ReadContents(k)
       PROVE  Follows(decoder', seen', call')
  BY <1>11, ReadContentsFollows DEF ReadContents
<1> QED BY <1>1, <1>2, <1>3, <1>4, <1>5, <1>6, <1>7, <1>8, <1>9, <1>10, <1>11
        DEF DecoderNext, Turn, Calls

(* It is about archives that do not change.                                  *)
LEMMA FollowsPrimed ==
  ASSUME archive' = archive, payload' = payload,
         Follows(decoder', seen', call')
  PROVE  Follows(decoder, seen, call)'
<1>1. \A h : /\ CellsOf(archive, h)' = CellsOf(archive, h)
             /\ CellsOf(payload, h)' = CellsOf(payload, h)
  BY DEF CellsOf
<1>2. /\ Filenames' = Filenames
      /\ TablesOf(archive.cells)' = TablesOf(archive.cells)
  BY DEF Filenames, CellsOf, TablesOf
<1>3. \A n : NthName(n)' = NthName(n)
  BY <1>2 DEF NthName
<1>4. ASSUME NEW c
      PROVE  PathOf(c)' = PathOf(c)
  <2> DEFINE P(dirs) ==
        [k \in 1..Cardinality(dirs) + 1 |->
           IF k > Cardinality(dirs)
             THEN c.item.name
             ELSE (CHOOSE x \in dirs :
                     Cardinality({y \in dirs : y.at < x.at}) = k - 1).item.name]
  <2>1. Holding(c)' = Holding(c)
    BY <1>2 DEF Holding, CellsOf
  <2>2. PathOf(c) = P(Holding(c)) /\ PathOf(c)' = P(Holding(c)')
    BY DEF PathOf
  <2> HIDE DEF P
  <2> QED BY <2>1, <2>2
<1>5. ASSUME NEW c
      PROVE  KindOf(c)' = KindOf(c)
  <2> DEFINE Name(kind) == CASE kind = "dir" -> "Directory"
                             [] kind = "file" -> "File"
                             [] kind = "symlink" -> "Symlink"
                             [] kind = "device" -> "Device"
                             [] kind = "fifo" -> "Fifo"
                             [] kind = "socket" -> "Socket"
             K(items) == IF \E item \in items : item.htype = "HARDLINK"
                           THEN "Hardlink"
                           ELSE Name((CHOOSE item \in items : TRUE).kind)
  <2>1. Behind(c)' = Behind(c)
    BY DEF Behind
  <2>2. KindOf(c) = K(Behind(c)) /\ KindOf(c)' = K(Behind(c)')
    BY DEF KindOf
  <2> HIDE DEF K
  <2> QED BY <2>1, <2>2
<1>6. /\ \A q : Within(q)' = Within(q)
      /\ \A q : NamesBefore(q)' = NamesBefore(q)
      /\ \A q : Landing(q)' <=> Landing(q)
  BY <1>2 DEF Within, NamesBefore, Landing
<1>7. Shown(seen') => Shown(seen)'
  <2>1. \A n : /\ PathOf(NthName(n))' = PathOf(NthName(n))
              /\ KindOf(NthName(n))' = KindOf(NthName(n))
    BY <1>3, <1>4, <1>5
  <2> QED BY <2>1 DEF Shown
<1>8. /\ \A q : Stands(decoder', q) => Stands(decoder, q)'
      /\ \A q : Ahead(decoder', q) => Ahead(decoder, q)'
  BY <1>1 DEF Stands, AtItem, InContents, Ahead, Used
<1>9. ASSUME NEW x, Opened(decoder', seen'[Len(seen')], x.at)
      PROVE  Opened(decoder, seen[Len(seen)], x.at)'
  BY <1>1, <1>9 DEF Opened
<1>10. \A hs : PathTo(decoder', hs) => PathTo(decoder, hs)'
  BY DEF PathTo
<1>11. Early(decoder', seen') => Early(decoder, seen)'
  BY <1>8 DEF Early, Count
<1>12. ASSUME NEW q, Midway(decoder', seen', q)
       PROVE  Midway(decoder, seen, q)'
  BY <1>2, <1>6, <1>8, <1>9, <1>10, <1>12 DEF Midway, Count
<1>13. Finished(decoder', seen') => Finished(decoder, seen)'
  BY <1>2 DEF Finished, Count
<1>14. Tracks(decoder, seen)'
  BY <1>11, <1>12, <1>13 DEF Follows, Tracks
<1> QED BY <1>7, <1>14 DEF Follows, IsList

-----------------------------------------------------------------------------
(***************************************************************************)
(* From the theorems about the encoder to an intact archive.                 *)
(***************************************************************************)
LEMMA ClosedIsFinal ==
  ASSUME TypeOK, phase = "closed", Next
  PROVE  UNCHANGED vars
<1>1. ~Usable /\ ~file.open /\ state = <<>>
  BY DEF TypeOK, Usable
<1>2. ~Check
  BY <1>1 DEF Check
<1>3. \A meta, prelude : ~New(meta, prelude)
  BY DEF New
<1>4. ~FileCalls
  BY <1>1, <1>2
     DEF FileCalls, CreateFile, CreateFileFails, AddFile, CanCreateFile
<1>5. ~WriteCalls
  BY <1>1 DEF WriteCalls, Write, WriteAllFails, PollWrite, DropFile
<1>6. ~RefCalls
  BY <1>1 DEF RefCalls, Advance
<1>7. ~EntryCalls
  BY <1>1, <1>2
     DEF EntryCalls, AddDevice, AddFifo, AddSocket, CreateDirectory,
         AddSymlink, AddHardlink, AddFileEntry
<1>8. ~Finish /\ ~FinishFails
  BY <1>1 DEF Finish, FinishFails
<1>9. ~Close
  BY DEF Close
<1> QED BY <1>3, <1>4, <1>5, <1>6, <1>7, <1>8, <1>9 DEF Next, Terminated

EncoderInv ==
  GInv /\ FinishedOkIsComplete /\ PayloadRefsResolve /\ PayloadRefsAscend

LEMMA SoundIsIntact ==
  ASSUME TypeOK, EncoderInv, Sound, phase = "closed", PayloadInput = Split
  PROVE  Intact
<1>1. state = <<>> /\ ~file.open
  BY DEF TypeOK
<1>2. Coming = Rest
  BY <1>1 DEF Coming
<1>3. WellFormed
  BY DEF EncoderInv, GInv, Sound
<1>4. /\ Grammatical(archive, Rest) /\ IsFiniteSet(archive.cells)
      /\ Nests(archive.cells, <<>>) /\ StartsRight(archive.cells)
      /\ RootIsClosed(archive)
      /\ Split => Marked(payload)
  BY <1>1, <1>2, <1>3 DEF WellFormed
<1>5. Stream(archive) /\ Stream(payload)
  BY DEF TypeOK
<1>6. Apart(archive.cells)
  BY DEF EncoderInv, GInv, NInv, LaidOut, Sound
<1>7. ContentsComplete(archive)
  BY DEF EncoderInv, FinishedOkIsComplete, Sound
<1>8. RefsLead
  <2>1. promised = <<>> /\ "finish" \notin faults
    BY DEF Sound
  <2> QED BY <2>1
          DEF EncoderInv, PayloadRefsResolve, PayloadRefsAscend, RefsLead
<1>9. Whole
  BY DEF Sound
<1> QED BY <1>4, <1>5, <1>6, <1>7, <1>8, <1>9 DEF Intact

-----------------------------------------------------------------------------
(***************************************************************************)
(* The inductive invariant of the composition.                              *)
(***************************************************************************)
DecodesInv ==
  /\ input # EmptyStream => phase = "closed"
  /\ call = "new" => seen = <<>>
  /\ Sound /\ call # "new" => Follows(decoder, seen, call)

LEMMA DecodesInit == RoundTripInit => DecodesInv
  BY DEF RoundTripInit, DecoderInit, DecodesInv

LEMMA DecodesStays ==
  ASSUME DecodesInv, UNCHANGED roundTripVars
  PROVE  DecodesInv'
<1>1. /\ archive' = archive /\ payload' = payload
      /\ Follows(decoder, seen, call) => Follows(decoder', seen', call')
  BY DEF roundTripVars
<1>2. Follows(decoder, seen, call) => Follows(decoder, seen, call)'
  BY <1>1, FollowsPrimed
<1>3. /\ input' = input /\ phase' = phase /\ call' = call /\ seen' = seen
      /\ Sound' => Sound
  BY DEF roundTripVars, Sound, Whole
<1> QED BY <1>2, <1>3 DEF DecodesInv

LEMMA DecodesNext ==
  ASSUME PayloadInput = Split, RoundTripInv, EncoderInv, DecodesInv,
         [RoundTripNext]_roundTripVars
  PROVE  DecodesInv'
<1>1. TypeOK /\ ReadingOK /\ (input = EmptyStream => NotBegun)
  BY DEF RoundTripInv, IInv
<1>2. CASE Encode
  <2>1. /\ Next /\ input' = input /\ payload_input' = payload_input
        /\ decoder' = decoder /\ call' = call /\ seen' = seen
    BY <1>2 DEF Encode, decoderVars
  <2>2. CASE input = EmptyStream
    BY <1>1, <2>1, <2>2 DEF NotBegun, DecodesInv
  <2>3. CASE input # EmptyStream
    <3>1. UNCHANGED vars
      BY <1>1, <2>1, <2>3, ClosedIsFinal DEF DecodesInv
    <3> QED BY <2>1, <3>1, DecodesStays DEF vars, roundTripVars
  <2> QED BY <2>2, <2>3
<1>3. CASE HandOver
  BY <1>1, <1>3 DEF HandOver, NotBegun, DecodesInv, vars
<1>4. CASE Decode
  <2>1. /\ input # EmptyStream /\ DecoderNext /\ UNCHANGED vars
        /\ phase = "closed"
    BY <1>4 DEF Decode, DecodesInv
  <2>2. Inputs
    BY <1>1, <2>1, DecoderNextKeeps
  <2>3. /\ input' = input /\ phase' = phase /\ archive' = archive
        /\ payload' = payload /\ (Sound' => Sound)
    BY <2>1, <2>2 DEF vars, Inputs, Sound, Whole
  <2>4. call' # "new"
    BY <2>1 DEF DecoderNext, Turn, Calls, AtEnd, ReadFirstEntry, ReadHeader,
                HandleFileEntry, MeetGoodbye, SkipGoodbyeTable, Create,
                CallNext, ContentReader, EnableGoodbyeEntries, ReadContents,
                ReturnOrFail, ContinueOrFail, Return, Continue, ReturnError,
                InNext
  <2>5. ASSUME Sound
        PROVE  Follows(decoder, seen, call)'
    <3>1. Intact
      BY <1>1, <2>1, <2>5, SoundIsIntact
    <3>2. Follows(decoder', seen', call')
      BY <1>1, <2>1, <2>5, <3>1, DecoderNextFollows DEF DecodesInv
    <3> QED BY <2>3, <3>2, FollowsPrimed
  <2> QED BY <2>1, <2>3, <2>4, <2>5 DEF DecodesInv
<1>5. CASE UNCHANGED roundTripVars
  BY <1>5, DecodesStays
<1> QED BY <1>2, <1>3, <1>4, <1>5 DEF RoundTripNext

(* The encoder does not notice that there is a reader.                       *)
LEMMA EncoderAlone ==
  ASSUME ~(Split /\ TokioIo)
  PROVE  RoundTripSpec => []EncoderInv
<1>1. RoundTripInit => Init
  BY DEF RoundTripInit
<1>2. [RoundTripNext]_roundTripVars => [Next]_vars
  BY DEF RoundTripNext, roundTripVars, Encode, HandOver, Decode, vars
<1>3. RoundTripSpec => Spec
  BY <1>1, <1>2, PTL DEF RoundTripSpec, Spec
<1>4. Spec => []GInv
  BY ArchivesAreWellFormed
<1>5. Spec => []FinishedOkIsComplete
  BY OkIsComplete
<1>6. Spec => []PayloadRefsResolve
  BY RefsResolve
<1>7. Spec => []PayloadRefsAscend
  BY RefsAscend
<1>8. GInv /\ FinishedOkIsComplete /\ PayloadRefsResolve /\ PayloadRefsAscend
        => EncoderInv
  BY DEF EncoderInv
<1> QED BY <1>3, <1>4, <1>5, <1>6, <1>7, <1>8, PTL

LEMMA DecodesThroughout ==
  ASSUME ~(Split /\ TokioIo), PayloadInput = Split
  PROVE  RoundTripSpec => [](RoundTripInv /\ EncoderInv /\ DecodesInv)
<1>1. RoundTripSpec => []EncoderInv
  BY EncoderAlone
<1>2. RoundTripSpec => []RoundTripInv
  BY RoundTripInitEstablishes, RoundTripNextKeeps, PTL DEF RoundTripSpec
<1>3. RoundTripInv /\ EncoderInv /\ DecodesInv
        /\ [RoundTripNext]_roundTripVars => DecodesInv'
  BY DecodesNext
<1> QED BY <1>1, <1>2, <1>3, DecodesInit, PTL DEF RoundTripSpec

-----------------------------------------------------------------------------
(***************************************************************************)
(* What a sound archive is decoded to.                                      *)
(***************************************************************************)
LEMMA SoundIsFollowed ==
  ASSUME PayloadInput = Split, RoundTripInv, EncoderInv, DecodesInv, Sound,
         call # "new"
  PROVE  Intact /\ ReadingOK /\ Follows(decoder, seen, call)
<1>1. TypeOK /\ ReadingOK /\ input # EmptyStream
  BY DEF RoundTripInv, IInv, NotBegun
<1>2. Intact
  BY <1>1, SoundIsIntact DEF DecodesInv
<1> QED BY <1>1, <1>2 DEF DecodesInv

LEMMA FollowsIsAsListed ==
  ASSUME Intact, Follows(decoder, seen, call)
  PROVE  /\ Cardinality(SeenNamed) <= Cardinality(Filenames)
         /\ call = "ended" => Cardinality(SeenNamed) = Cardinality(Filenames)
         /\ Shown(seen)
<1>1. Cardinality(SeenNamed) = Count(seen)
  BY DEF SeenNamed, Count
<1>2. /\ Cardinality(Filenames) \in Nat
      /\ \A q : Cardinality(NamesBefore(q)) <= Cardinality(Filenames)
  BY NamesAreFinite
<1>3. CASE Early(decoder, seen)
  BY <1>1, <1>2, <1>3 DEF Early, Follows
<1>4. ASSUME NEW q, Midway(decoder, seen, q)
      PROVE  /\ Cardinality(SeenNamed) <= Cardinality(Filenames)
             /\ call # "ended"
  BY <1>1, <1>2, <1>4 DEF Midway, Stands, Follows
<1>5. CASE Finished(decoder, seen)
  BY <1>1, <1>2, <1>5 DEF Finished, Follows
<1> QED BY <1>3, <1>4, <1>5 DEF Follows, Tracks

LEMMA NothingIsListedYet ==
  ASSUME EncoderInv, Sound, seen = <<>>
  PROVE  /\ Cardinality(SeenNamed) <= Cardinality(Filenames)
         /\ Shown(seen)
<1>1. IsFiniteSet(archive.cells)
  BY DEF EncoderInv, GInv, Sound, WellFormed
<1>2. Cardinality(Filenames) \in Nat
  BY <1>1, FS_Subset, FS_CardinalityType DEF Filenames, CellsOf
<1>3. NamedIn(seen, Len(seen)) = {}
  BY DEF NamedIn
<1>4. Cardinality(SeenNamed) = 0
  BY <1>3, FS_EmptySet DEF SeenNamed
<1>5. Shown(seen)
  BY <1>3 DEF Shown
<1> QED BY <1>2, <1>4, <1>5

LEMMA ListedHere ==
  ASSUME PayloadInput = Split, RoundTripInv, EncoderInv, DecodesInv
  PROVE  SeenAsListed
<1> SUFFICES ASSUME Sound
             PROVE  /\ Cardinality(SeenNamed) <= Cardinality(Filenames)
                    /\ call = "ended" =>
                         Cardinality(SeenNamed) = Cardinality(Filenames)
                    /\ Shown(seen)
  BY DEF SeenAsListed, Shown, SeenNamed
<1>1. CASE call = "new"
  BY <1>1, NothingIsListedYet DEF DecodesInv
<1>2. CASE call # "new"
  BY <1>2, SoundIsFollowed, FollowsIsAsListed
<1> QED BY <1>1, <1>2

LEMMA ContentsHere ==
  ASSUME PayloadInput = Split, RoundTripInv, EncoderInv, DecodesInv
  PROVE  ContentsAreTheFiles
<1> SUFFICES ASSUME Sound, call = "idle", decoder.state = "InPayload",
                    PayloadInput => decoder.contents.header_checked
             PROVE  \E c \in CurrentPayload :
                      /\ c.item.content = decoder.contents.size
                      /\ (IF PayloadInput THEN decoder.payload_pos
                                          ELSE decoder.pos)
                           = c.at + HeaderSize + decoder.contents.offset
  BY DEF ContentsAreTheFiles
<1>1. Intact /\ ReadingOK /\ Follows(decoder, seen, call)
  BY SoundIsFollowed
<1>2. PICK q : Midway(decoder, seen, q)
  BY <1>1, IsMidway
<1>3. PICK x \in Filenames :
        /\ Cardinality(NamesBefore(x.at)) + 1 = Count(seen)
        /\ Opened(decoder, seen[Len(seen)], x.at)
  BY <1>2 DEF Midway
<1>4. CurrentName = x
  BY <1>1, <1>3, NthNameIs DEF CurrentName, SeenNamed, Count
<1>5. CASE PayloadInput
  <2>1. PICK y \in CellsOf(payload, "PAYLOAD") :
          /\ seen[Len(seen)].payload_offset = <<y.at>>
          /\ y.item.content = decoder.contents.size
          /\ decoder.payload_consumed = y.at + HeaderSize
    BY <1>3, <1>5 DEF Opened
  <2>2. decoder.payload_pos
          = decoder.payload_consumed + decoder.contents.offset
    BY <1>1, <1>5, ContentsState
  <2>3. y \in CurrentPayload
    BY <1>5, <2>1 DEF CurrentPayload
  <2> QED BY <1>5, <2>1, <2>2, <2>3
<1>6. CASE ~PayloadInput
  <2>1. PICK c \in CellsOf(archive, "PAYLOAD") :
          /\ x.at < c.at
          /\ \A z \in CellsOf(archive, "PAYLOAD") : x.at < z.at => c.at <= z.at
          /\ c.item.content = decoder.contents.size
          /\ decoder.pos = c.at + HeaderSize + decoder.contents.offset
    BY <1>3, <1>6 DEF Opened
  <2>2. x.at \in Nat /\ \A z \in CellsOf(archive, "PAYLOAD") : z.at \in Nat
    BY <1>1, NameFacts, CellFacts DEF CellsOf
  <2>3. c \in CurrentPayload
    BY <1>4, <1>6, <2>1, <2>2 DEF CurrentPayload
  <2> QED BY <1>6, <2>1, <2>3
<1> QED BY <1>5, <1>6

(* An archive whose finish() said Ok, and no call for which failed, is      *)
(* decoded without an error, if the reader passes as many inputs as the     *)
(* encoder had outputs: whatever the tree, the sizes, and the parts of the  *)
(* contents the caller reads, every header the state machine meets is one it*)
(* expects there and every skip ends inside the inputs.                     *)
THEOREM SoundArchivesAreDecoded ==
  ASSUME ~(Split /\ TokioIo), PayloadInput = Split
  PROVE  RoundTripSpec => []SoundArchivesDecode
<1>1. RoundTripInv /\ EncoderInv /\ DecodesInv => SoundArchivesDecode
  <2>1. ASSUME RoundTripInv, EncoderInv, DecodesInv, Sound
        PROVE  call # "failed"
    BY <2>1, SoundIsFollowed DEF Follows
  <2> QED BY <2>1 DEF SoundArchivesDecode
<1> QED BY <1>1, DecodesThroughout, PTL

(* next() returns the entries in the order they were added, each with the    *)
(* path and the kind the goodbye tables give it, and has returned all of     *)
(* them when it says that there are no more.                                *)
THEOREM EntriesAreAsListed ==
  ASSUME ~(Split /\ TokioIo), PayloadInput = Split
  PROVE  RoundTripSpec => []SeenAsListed
<1>1. RoundTripInv /\ EncoderInv /\ DecodesInv => SeenAsListed
  BY ListedHere
<1> QED BY <1>1, DecodesThroughout, PTL

(* The contents the caller reads are those of the file next() returned last. *)
THEOREM ContentsAreRight ==
  ASSUME ~(Split /\ TokioIo), PayloadInput = Split
  PROVE  RoundTripSpec => []ContentsAreTheFiles
<1>1. RoundTripInv /\ EncoderInv /\ DecodesInv => ContentsAreTheFiles
  BY ContentsHere
<1> QED BY <1>1, DecodesThroughout, PTL
=============================================================================
