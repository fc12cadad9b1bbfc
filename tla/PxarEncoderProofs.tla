------------------------- MODULE PxarEncoderProofs --------------------------
(***************************************************************************)
(* Theorems about the encoder for every choice of names, hashes, metadata,  *)
(* sizes, bounds and failures.                                             *)
(***************************************************************************)
EXTENDS PxarEncoderProperties, SequenceTheorems, TLAPS

-----------------------------------------------------------------------------
(***************************************************************************)
(* Writers.                                                                *)
(***************************************************************************)
IsWriter(w) == Stream(w.out) /\ w.position \in Nat

(* v is w after some bytes more: what was there is still there, what is new  *)
(* lies behind it, and the position tracked has advanced by as much as the   *)
(* stream has grown.                                                        *)
Extends(w, v) ==
  /\ IsWriter(v)
  /\ w.out.cells \subseteq v.out.cells
  /\ \A c \in v.out.cells \ w.out.cells : w.out.len <= c.at
  /\ w.position <= v.position
  /\ v.position - w.position = v.out.len - w.out.len

LEMMA Append1Stream ==
  ASSUME NEW s, Stream(s), NEW item, ItemOK(item)
  PROVE  /\ Stream(Append1(s, item))
         /\ Append1(s, item).len = s.len + item.size
         /\ s.cells \subseteq Append1(s, item).cells
         /\ [at |-> s.len, item |-> item] \in Append1(s, item).cells
<1> DEFINE new == [at |-> s.len, item |-> item]
           t == Append1(s, item)
<1>1. t.len = s.len + item.size /\ t.cells = s.cells \cup {new}
  BY DEF Append1
<1>2. s.len \in Nat /\ item.size \in Nat /\ t.len \in Nat
  BY <1>1 DEF Stream, ItemOK
<1>3. new.at = s.len /\ new.item = item
  OBVIOUS
<1>4. ASSUME NEW c \in t.cells
      PROVE  c.at \in Nat /\ ItemOK(c.item) /\ c.at + c.item.size <= t.len
  <2>1. CASE c = new
    BY <1>1, <1>2, <1>3, <2>1
  <2>2. CASE c \in s.cells
    <3>1. c.at \in Nat /\ ItemOK(c.item) /\ c.at + c.item.size <= s.len
      BY <2>2 DEF Stream
    <3> QED BY <1>1, <1>2, <3>1 DEF ItemOK
  <2> QED BY <1>1, <2>1, <2>2
<1>5. Stream(t)
  BY <1>2, <1>4 DEF Stream
<1> QED BY <1>1, <1>5

(* seq_write and everything built on it writes behind what was written.     *)
LEMMA SeqWriteExtends ==
  ASSUME NEW w, IsWriter(w), NEW item, ItemOK(item)
  PROVE  /\ Extends(w, SeqWrite(w, item))
         /\ SeqWrite(w, item).position = w.position + item.size
         /\ [at |-> w.out.len, item |-> item] \in SeqWrite(w, item).out.cells
<1>1. /\ SeqWrite(w, item).out = Append1(w.out, item)
      /\ SeqWrite(w, item).position = w.position + item.size
  BY DEF SeqWrite
<1>2. Stream(w.out) /\ w.position \in Nat /\ w.out.len \in Nat
  BY DEF IsWriter, Stream
<1>3. item.size \in Nat
  BY DEF ItemOK
<1>4. ASSUME NEW c \in SeqWrite(w, item).out.cells \ w.out.cells
      PROVE  w.out.len <= c.at
  <2>1. c = [at |-> w.out.len, item |-> item]
    BY <1>1 DEF Append1
  <2> QED BY <1>2, <2>1
<1> QED BY <1>1, <1>2, <1>3, <1>4, Append1Stream DEF Extends, IsWriter

LEMMA SeqWriteDataExtends ==
  ASSUME NEW w, IsWriter(w), NEW k \in Nat
  PROVE  Extends(w, SeqWriteData(w, k))
<1>1. CASE k = 0
  <2>1. SeqWriteData(w, k) = w
    BY <1>1 DEF SeqWriteData
  <2>2. w.position \in Nat /\ w.out.len \in Nat
    BY DEF IsWriter, Stream
  <2> QED BY <2>1, <2>2 DEF Extends
<1>2. CASE k # 0
  <2>1. SeqWriteData(w, k) = SeqWrite(w, Data(k)) /\ ItemOK(Data(k))
    BY <1>2 DEF SeqWriteData, Data, ItemOK, ItemTypes
  <2> QED BY <2>1, SeqWriteExtends
<1> QED BY <1>1, <1>2

LEMMA ExtendsTransitive ==
  ASSUME NEW u, NEW v, NEW w, IsWriter(u), IsWriter(v),
         Extends(u, v), Extends(v, w)
  PROVE  Extends(u, w)
<1>1. u.out.len \in Nat /\ v.out.len \in Nat /\ u.out.len <= v.out.len
  BY DEF Extends, IsWriter, Stream
<1>2. ASSUME NEW c \in w.out.cells \ u.out.cells
      PROVE  u.out.len <= c.at
  <2>1. CASE c \in v.out.cells
    BY <2>1 DEF Extends
  <2>2. CASE c \notin v.out.cells
    <3>1. c.at \in Nat /\ v.out.len <= c.at
      BY <2>2 DEF Extends, IsWriter, Stream
    <3> QED BY <1>1, <3>1
  <2> QED BY <2>1, <2>2
<1> QED BY <1>2 DEF Extends, IsWriter, Stream

(* A call cut short leaves a writer of the same kind: the items completed    *)
(* before it are intact.                                                    *)
LEMMA InterruptedExtends ==
  ASSUME NEW w, NEW full, IsWriter(w), Extends(w, full),
         NEW cut \in Interrupted(w, full)
  PROVE  Extends(w, cut)
<1>1. PICK n \in CutPoints(w, full) :
        cut = [out |-> Prefix(full.out, n),
               position |-> w.position + (n - w.out.len)]
  BY DEF Interrupted
<1>2. n \in w.out.len .. full.out.len - 1 /\ n \in Nat
  BY DEF CutPoints, IsWriter, Extends, Stream
<1>3. /\ cut.out.len = n
      /\ cut.out.cells = {c \in full.out.cells : c.at + c.item.size <= n}
      /\ cut.position = w.position + (n - w.out.len)
  BY <1>1 DEF Prefix
<1>4. /\ w.out.len \in Nat /\ w.position \in Nat
      /\ w.out.len <= n
      /\ \A c \in w.out.cells : c.at \in Nat /\ c.item.size \in Nat
                                 /\ c.at + c.item.size <= w.out.len
      /\ \A c \in full.out.cells : c.at \in Nat /\ ItemOK(c.item)
      /\ w.out.cells \subseteq full.out.cells
  BY <1>2 DEF IsWriter, Extends, Stream, ItemOK
<1>5. w.out.cells \subseteq cut.out.cells
  <2> SUFFICES ASSUME NEW c \in w.out.cells PROVE c \in cut.out.cells
    OBVIOUS
  <2>1. c.at + c.item.size <= n
    BY <1>2, <1>4
  <2> QED BY <1>3, <1>4, <2>1
<1>6. Stream(cut.out)
  BY <1>2, <1>3, <1>4 DEF Stream
<1>7. \A c \in cut.out.cells \ w.out.cells : w.out.len <= c.at
  BY <1>3 DEF Extends
<1> QED BY <1>2, <1>3, <1>4, <1>5, <1>6, <1>7 DEF Extends, IsWriter

-----------------------------------------------------------------------------
(***************************************************************************)
(* The stack of directories.                                               *)
(***************************************************************************)
DirOK(st) == st \in EncoderStates /\ BehindPosition(st)

StackOK(s) ==
  /\ s \in Seq(EncoderStates)
  /\ \A d \in 1..Len(s) : DirOK(s[d])
  /\ \A d \in 1..Len(s) - 1 : s[d].write_position <= s[d + 1].write_position

(* Whatever a call does to the current directory, the stack stays in order   *)
(* if its position does not go back.                                        *)
LEMMA SetTopKeepsStackOK ==
  ASSUME NEW s, StackOK(s), s # <<>>, NEW t, DirOK(t),
         s[Len(s)].write_position <= t.write_position
  PROVE  StackOK([s EXCEPT ![Len(s)] = t])
<1> DEFINE u == [s EXCEPT ![Len(s)] = t]
<1>1. s \in Seq(EncoderStates) /\ Len(s) \in Nat \ {0} /\ t \in EncoderStates
  BY DEF StackOK, DirOK
<1>2. u \in Seq(EncoderStates) /\ Len(u) = Len(s)
  BY <1>1
<1>3. \A d \in 1..Len(s) : u[d] = IF d = Len(s) THEN t ELSE s[d]
  BY <1>1
<1> HIDE DEF u
<1>4. \A d \in 1..Len(u) : DirOK(u[d])
  BY <1>2, <1>3 DEF StackOK
<1>5. ASSUME NEW d \in 1..Len(u) - 1
      PROVE  u[d].write_position <= u[d + 1].write_position
  <2>1. /\ d \in 1..Len(s) - 1
        /\ d # Len(s) /\ d \in 1..Len(s) /\ d + 1 \in 1..Len(s)
    BY <1>1, <1>2
  <2>2. s[d].write_position <= s[d + 1].write_position
    BY <2>1 DEF StackOK
  <2>3. s[d] \in EncoderStates /\ s[d + 1] \in EncoderStates
    BY <1>1, <2>1
  <2>4. CASE d + 1 = Len(s)
    <3>1. u[d] = s[d] /\ u[d + 1] = t
      BY <1>3, <2>1, <2>4
    <3>2. /\ s[d].write_position \in Nat
          /\ s[d + 1].write_position \in Nat
          /\ t.write_position \in Nat
      BY <1>1, <2>3 DEF EncoderStates
    <3>3. s[d + 1].write_position <= t.write_position
      BY <2>4
    <3> QED BY <2>2, <3>1, <3>2, <3>3
  <2>5. CASE d + 1 # Len(s)
    BY <1>3, <2>1, <2>2, <2>5
  <2> QED BY <2>4, <2>5
<1> QED BY <1>2, <1>4, <1>5 DEF StackOK, u

LEMMA PushKeepsStackOK ==
  ASSUME NEW s, StackOK(s), s # <<>>, NEW t, DirOK(t),
         s[Len(s)].write_position <= t.write_position
  PROVE  StackOK(Append(s, t))
<1> DEFINE u == Append(s, t)
<1>1. s \in Seq(EncoderStates) /\ Len(s) \in Nat \ {0} /\ t \in EncoderStates
  BY DEF StackOK, DirOK
<1>2. /\ u \in Seq(EncoderStates)
      /\ Len(u) = Len(s) + 1
      /\ \A d \in 1..Len(s) : u[d] = s[d]
      /\ u[Len(s) + 1] = t
  BY <1>1
<1> HIDE DEF u
<1>3. ASSUME NEW d \in 1..Len(u)
      PROVE  DirOK(u[d])
  <2>1. CASE d \in 1..Len(s)
    BY <1>2, <2>1 DEF StackOK
  <2>2. CASE d = Len(s) + 1
    BY <1>2, <2>2
  <2> QED BY <1>1, <1>2, <2>1, <2>2
<1>4. ASSUME NEW d \in 1..Len(u) - 1
      PROVE  u[d].write_position <= u[d + 1].write_position
  <2>1. d \in 1..Len(s)
    BY <1>1, <1>2
  <2>2. CASE d = Len(s)
    BY <1>2, <2>1, <2>2
  <2>3. CASE d # Len(s)
    <3>1. d \in 1..Len(s) - 1 /\ d + 1 \in 1..Len(s)
      BY <1>1, <2>1, <2>3
    <3>2. s[d].write_position <= s[d + 1].write_position
      BY <3>1 DEF StackOK
    <3> QED BY <1>2, <2>1, <3>1, <3>2
  <2> QED BY <2>2, <2>3
<1>5. StackOK(u)
  BY <1>2, <1>3, <1>4 DEF StackOK
<1> QED BY <1>5 DEF u

LEMMA FrontOfSeq ==
  ASSUME NEW S, NEW s \in Seq(S), NEW n \in Nat, n <= Len(s)
  PROVE  /\ SubSeq(s, 1, n) \in Seq(S)
         /\ Len(SubSeq(s, 1, n)) = n
         /\ \A d \in 1..n : SubSeq(s, 1, n)[d] = s[d]
  OBVIOUS

LEMMA PopKeepsStackOK ==
  ASSUME NEW s, StackOK(s), s # <<>>
  PROVE  /\ StackOK(SubSeq(s, 1, Len(s) - 1))
         /\ Len(SubSeq(s, 1, Len(s) - 1)) = Len(s) - 1
         /\ \A d \in 1..Len(s) - 1 : SubSeq(s, 1, Len(s) - 1)[d] = s[d]
<1> DEFINE n == Len(s) - 1
           r == SubSeq(s, 1, n)
<1>1. s \in Seq(EncoderStates) /\ Len(s) \in Nat \ {0}
  BY DEF StackOK
<1>2. n \in Nat /\ n <= Len(s) /\ n = Len(s) - 1
  BY <1>1
<1> HIDE DEF n
<1>3. /\ r \in Seq(EncoderStates)
      /\ Len(r) = n
      /\ \A d \in 1..n : r[d] = s[d]
  BY <1>1, <1>2, FrontOfSeq
<1> HIDE DEF r
<1>4. \A d \in 1..Len(r) : DirOK(r[d])
  BY <1>1, <1>2, <1>3 DEF StackOK
<1>5. ASSUME NEW d \in 1..Len(r) - 1
      PROVE  r[d].write_position <= r[d + 1].write_position
  <2>1. /\ d \in 1..Len(s) - 1
        /\ d \in 1..n /\ d + 1 \in 1..n
    BY <1>1, <1>2, <1>3
  <2>2. s[d].write_position <= s[d + 1].write_position
    BY <2>1 DEF StackOK
  <2> QED BY <1>3, <2>1, <2>2
<1>6. StackOK(r)
  BY <1>3, <1>4, <1>5 DEF StackOK
<1> QED BY <1>2, <1>3, <1>6 DEF r

-----------------------------------------------------------------------------
(***************************************************************************)
(* Changes to one directory.                                               *)
(***************************************************************************)
LEMMA AtOK ==
  ASSUME NEW st, DirOK(st), NEW wp \in Nat, st.write_position <= wp
  PROVE  /\ DirOK(At(st, wp))
         /\ At(st, wp).write_position = wp
         /\ At(st, wp).payload_write_position = st.payload_write_position
<1> DEFINE t == At(st, wp)
<1>1. /\ st \in EncoderStates
      /\ st.write_position \in Nat /\ st.file_offset \in Nat
      /\ st.entry_offset \in Nat
      /\ st.items \in Seq(GoodbyeItem)
  BY DEF DirOK, EncoderStates
<1>2. /\ t \in EncoderStates
      /\ t.write_position = wp
      /\ t.items = st.items
      /\ t.file_offset = st.file_offset
      /\ t.entry_offset = st.entry_offset
      /\ t.payload_write_position = st.payload_write_position
  BY DEF DirOK, At, EncoderStates
<1> HIDE DEF t
<1>3. t.file_offset <= wp /\ t.entry_offset <= wp
  BY <1>1, <1>2 DEF DirOK, BehindPosition
<1>4. ASSUME NEW i \in 1..Len(st.items)
      PROVE  st.items[i].offset <= wp
  <2>1. st.items[i].offset \in Nat
    <3>1. st.items[i] \in GoodbyeItem
      BY <1>1
    <3> QED BY <3>1 DEF GoodbyeItem
  <2>2. st.items[i].offset <= st.write_position
    BY DEF DirOK, BehindPosition
  <2> QED BY <1>1, <2>1, <2>2
<1>5. DirOK(t)
  BY <1>2, <1>3, <1>4 DEF DirOK, BehindPosition
<1> QED BY <1>2, <1>5 DEF t

LEMMA PayloadAtOK ==
  ASSUME NEW st, DirOK(st), NEW pp \in Nat
  PROVE  /\ DirOK(PayloadAt(st, pp))
         /\ PayloadAt(st, pp).write_position = st.write_position
         /\ PayloadAt(st, pp).payload_write_position = pp
  BY DEF DirOK, BehindPosition, PayloadAt, EncoderStates

LEMMA ListingOK ==
  ASSUME NEW st, DirOK(st), NEW item \in GoodbyeItem,
         item.offset <= st.write_position
  PROVE  /\ DirOK(Listing(st, item))
         /\ Listing(st, item).write_position = st.write_position
         /\ Listing(st, item).payload_write_position
              = st.payload_write_position
<1> DEFINE t == Listing(st, item)
<1>1. st \in EncoderStates /\ st.items \in Seq(GoodbyeItem)
  BY DEF DirOK, EncoderStates
<1>2. /\ Append(st.items, item) \in Seq(GoodbyeItem)
      /\ Len(Append(st.items, item)) = Len(st.items) + 1
      /\ \A i \in 1..Len(st.items) : Append(st.items, item)[i] = st.items[i]
      /\ Append(st.items, item)[Len(st.items) + 1] = item
      /\ Len(st.items) \in Nat
  BY <1>1
<1>3. /\ t \in EncoderStates
      /\ t.items = Append(st.items, item)
      /\ t.write_position = st.write_position
      /\ t.file_offset = st.file_offset
      /\ t.entry_offset = st.entry_offset
      /\ t.payload_write_position = st.payload_write_position
  BY <1>1, <1>2 DEF Listing, EncoderStates
<1> HIDE DEF t
<1>4. ASSUME NEW i \in 1..Len(t.items)
      PROVE  t.items[i].offset <= t.write_position
  <2>1. CASE i \in 1..Len(st.items)
    BY <1>2, <1>3, <2>1 DEF DirOK, BehindPosition
  <2>2. CASE i = Len(st.items) + 1
    BY <1>2, <1>3, <2>2
  <2> QED BY <1>2, <1>3, <2>1, <2>2
<1>5. DirOK(t)
  BY <1>3, <1>4 DEF DirOK, BehindPosition
<1> QED BY <1>3, <1>5 DEF t

LEMMA MergeErrorOK ==
  ASSUME NEW st, DirOK(st), NEW error \in EncodeErrors
  PROVE  /\ DirOK(MergeError(st, error))
         /\ MergeError(st, error).write_position = st.write_position
         /\ MergeError(st, error).payload_write_position
              = st.payload_write_position
  BY DEF DirOK, BehindPosition, MergeError, EncoderStates

LEMMA DropIntoOK ==
  ASSUME NEW st, DirOK(st), NEW item \in GoodbyeItem, NEW remaining,
         item.offset <= st.write_position
  PROVE  /\ DirOK(DropInto(st, item, remaining))
         /\ DropInto(st, item, remaining).write_position = st.write_position
         /\ DropInto(st, item, remaining).payload_write_position
              = st.payload_write_position
<1> DEFINE e == IF remaining # 0 THEN MergeError(st, "IncompleteFile") ELSE st
<1>1. "IncompleteFile" \in EncodeErrors
  BY DEF EncodeErrors
<1>2. /\ DirOK(e)
      /\ e.write_position = st.write_position
      /\ e.payload_write_position = st.payload_write_position
  BY <1>1, MergeErrorOK
<1>3. DropInto(st, item, remaining) = Listing(e, item)
  BY DEF DropInto
<1> HIDE DEF e
<1> QED BY <1>2, <1>3, ListingOK

-----------------------------------------------------------------------------
(***************************************************************************)
(* The items the calls write.                                              *)
(***************************************************************************)
LEMMA NamedItemsOK ==
  ASSUME NEW n \in Names, NEW meta \in Metas
  PROVE  ItemOK(Filename(n)) /\ ItemOK(Entry(meta))
<1>1. NameLen[n] \in Nat
  BY NamesAssumption
<1>2. meta.attrs \in Nat /\ meta.kind \in FileKinds
  BY EncoderAssumption DEF Metadata
<1> QED BY <1>1, <1>2
        DEF ItemOK, ItemTypes, Filename, Entry, HeaderSize, StatSize

LEMMA FixedItemsOK ==
  /\ ItemOK(Device)
  /\ ItemOK(Version)
  /\ ItemOK(Marker("PAYLOAD_START_MARKER"))
  /\ ItemOK(Marker("PAYLOAD_TAIL_MARKER"))
  BY DEF ItemOK, ItemTypes, Device, Version, Marker, HeaderSize, DeviceSize,
         VersionSize

LEMMA SizedItemsOK ==
  ASSUME NEW k \in Nat
  PROVE  /\ ItemOK(Symlink(k))
         /\ \A offset, target : ItemOK(Hardlink(offset, target, k))
         /\ ItemOK(PreludeItem(k))
         /\ k \in FileSizes =>
              /\ ItemOK(Payload(k))
              /\ \A offset \in Nat : ItemOK(PayloadRef(offset, k))
  BY DEF ItemOK, ItemTypes, Symlink, Hardlink, PreludeItem, PayloadRef, Payload,
         HeaderSize, HardlinkOffsetSize, PayloadRefSize

(* A function on 1..n is a sequence of length n.                            *)
LEMMA LenOfFunction ==
  ASSUME NEW n \in Nat, NEW f, f = [i \in 1..n |-> f[i]]
  PROVE  Len(f) = n
<1> DEFINE S == {f[i] : i \in 1..n}
<1>1. f \in [1..n -> S]
  OBVIOUS
<1>2. f \in Seq(S)
  BY <1>1, SeqDef
<1>3. Len(f) \in Nat /\ DOMAIN f = 1..Len(f) /\ DOMAIN f = 1..n
  BY <1>1, <1>2
<1> QED BY <1>3

LEMMA GoodbyeTableOK ==
  ASSUME NEW st, DirOK(st), NEW p
  PROVE  ItemOK(GoodbyeTable(st, p))
<1> DEFINE rows == GoodbyeRows(st, p)
           n == Len(st.items)
<1>1. n \in Nat
  BY DEF DirOK, EncoderStates
<1>2. rows = [i \in 1..n |-> rows[i]]
  BY DEF GoodbyeRows
<1> HIDE DEF rows
<1>3. Len(rows) = n
  BY <1>1, <1>2, LenOfFunction
<1>4. /\ GoodbyeSize(Len(rows)) \in Nat
      /\ GoodbyeSize(Len(rows)) >= HeaderSize
  BY <1>1, <1>3 DEF GoodbyeSize, HeaderSize, GoodbyeItemSize
<1>5. /\ GoodbyeTable(st, p).htype = "GOODBYE"
      /\ GoodbyeTable(st, p).size = GoodbyeSize(Len(rows))
  BY DEF GoodbyeTable, Goodbye, rows
<1> QED BY <1>4, <1>5 DEF ItemOK, ItemTypes

-----------------------------------------------------------------------------
(***************************************************************************)
(* Steps.                                                                  *)
(***************************************************************************)
IInv == TypeOK /\ NothingUnderflows

FileImpls == [open : BOOLEAN, remaining_size : Nat, item : GoodbyeItem]

LEMMA StackOKInIInv ==
  IInv => StackOK(state)
<1> SUFFICES ASSUME IInv PROVE StackOK(state)
  OBVIOUS
<1>1. state \in Seq(EncoderStates) /\ Depth = Len(state)
  BY DEF IInv, TypeOK, Depth
<1>2. \A d \in 1..Len(state) : state[d] \in EncoderStates
  BY <1>1
<1>3. \A d \in 1..Len(state) : BehindPosition(state[d])
  BY <1>1 DEF IInv, NothingUnderflows
<1>4. \A d \in 1..Len(state) - 1 :
        state[d].write_position <= state[d + 1].write_position
  BY <1>1 DEF IInv, NothingUnderflows
<1> QED BY <1>1, <1>2, <1>3, <1>4 DEF StackOK, DirOK

(* What is true of the current directory whenever there is one.             *)
LEMMA TopOK ==
  ASSUME IInv, state # <<>>
  PROVE  /\ Depth \in Nat \ {0} /\ Depth = Len(state)
         /\ DirOK(Top)
         /\ Top.write_position \in Nat
         /\ Top.payload_write_position \in Nat
         /\ Top.file_hash \in Nat
         /\ Top.file_offset \in Nat
         /\ Top.encode_error \in EncodeErrors
         /\ IsWriter(ArchiveWriter)
         /\ IsWriter(PayloadWriter)
<1>1. StackOK(state)
  BY StackOKInIInv
<1>2. Depth \in Nat \ {0} /\ Depth = Len(state)
  BY <1>1 DEF StackOK, Depth
<1>3. DirOK(Top)
  BY <1>1, <1>2 DEF StackOK, Top
<1>4. /\ Top.write_position \in Nat
      /\ Top.payload_write_position \in Nat
      /\ Top.file_hash \in Nat
      /\ Top.file_offset \in Nat
      /\ Top.encode_error \in EncodeErrors
  BY <1>3 DEF DirOK, EncoderStates
<1>5. Stream(archive) /\ Stream(payload)
  BY DEF IInv, TypeOK
<1> QED BY <1>2, <1>3, <1>4, <1>5 DEF IsWriter, ArchiveWriter, PayloadWriter

(* A step within one directory: the directory becomes t, the streams become *)
(* those of the writers a and p, and t's positions are the writers'.        *)
OrdinaryStep(t, a, p) ==
  /\ state # <<>>
  /\ SetTop(t)
  /\ DirOK(t)
  /\ archive' = a.out /\ payload' = p.out
  /\ Extends(ArchiveWriter, a) /\ t.write_position = a.position
  /\ Extends(PayloadWriter, p) /\ t.payload_write_position = p.position
  /\ faults \subseteq faults'

LEMMA OrdinaryStepKeeps ==
  ASSUME IInv, NEW t, NEW a, NEW p, OrdinaryStep(t, a, p),
         file' \in FileImpls,
         file'.open => file'.item.offset <= t.write_position,
         phase' = phase, result' = result,
         links' \subseteq Nat, promised' \in Seq(PayloadRefs),
         faults' \subseteq FaultKinds
  PROVE  IInv' /\ (PositionsTrackStreams => PositionsTrackStreams')
<1>1. /\ Depth \in Nat \ {0} /\ Depth = Len(state)
      /\ Top.write_position \in Nat
      /\ Top.payload_write_position \in Nat
  BY TopOK DEF OrdinaryStep
<1>2. /\ state # <<>> /\ state \in Seq(EncoderStates)
      /\ state' = [state EXCEPT ![Len(state)] = t]
  BY <1>1 DEF OrdinaryStep, SetTop, IInv, TypeOK
<1>3. /\ Top.write_position <= t.write_position
      /\ t.write_position - Top.write_position = archive'.len - archive.len
      /\ t.payload_write_position - Top.payload_write_position
           = payload'.len - payload.len
  BY DEF OrdinaryStep, Extends, ArchiveWriter, PayloadWriter
<1>4. StackOK(state')
  <2>1. state[Len(state)].write_position <= t.write_position
    BY <1>1, <1>3 DEF Top
  <2>2. DirOK(t) /\ StackOK(state)
    BY StackOKInIInv DEF OrdinaryStep
  <2> QED BY <1>2, <2>1, <2>2, SetTopKeepsStackOK
<1>5. Len(state') = Len(state) /\ state'[Len(state)] = t
  <2>1. t \in EncoderStates
    BY DEF OrdinaryStep, DirOK
  <2> QED BY <1>1, <1>2, <2>1
<1>6. state' # <<>> /\ Depth' = Depth /\ Top' = t
  BY <1>1, <1>5 DEF Depth, Top
<1>7. /\ Stream(archive') /\ Stream(payload')
      /\ archive.len \in Nat /\ archive'.len \in Nat
      /\ payload.len \in Nat /\ payload'.len \in Nat
  BY DEF OrdinaryStep, Extends, IsWriter, IInv, TypeOK, Stream
<1>8. TypeOK'
  <2>1. phase = "open"
    BY <1>2 DEF IInv, TypeOK
  <2>2. result \in {"none", "ok", "incomplete", "io_error"}
    BY DEF IInv, TypeOK
  <2> QED BY <1>4, <1>6, <1>7, <2>1, <2>2 DEF TypeOK, StackOK, FileImpls
<1>9. NothingUnderflows'
  <2>1. Depth' = Len(state')
    BY DEF Depth
  <2> QED BY <1>4, <1>6, <2>1 DEF NothingUnderflows, StackOK, DirOK
<1>10. ASSUME PositionsTrackStreams
       PROVE  PositionsTrackStreams'
  <2> SUFFICES ASSUME "finish" \notin faults'
               PROVE  /\ t.write_position = archive'.len
                      /\ t.payload_write_position = payload'.len
    BY <1>6 DEF PositionsTrackStreams
  <2>1. "finish" \notin faults
    BY DEF OrdinaryStep
  <2>2. /\ Top.write_position = archive.len
        /\ Top.payload_write_position = payload.len
    BY <1>2, <1>10, <2>1 DEF PositionsTrackStreams
  <2>3. t.write_position \in Nat /\ t.payload_write_position \in Nat
    BY DEF OrdinaryStep, DirOK, EncoderStates
  <2> QED BY <1>1, <1>3, <1>7, <2>2, <2>3
<1> QED BY <1>8, <1>9, <1>10 DEF IInv

LEMMA ExtendsReflexive ==
  ASSUME NEW w, IsWriter(w)
  PROVE  Extends(w, w)
<1>1. w.position \in Nat /\ w.out.len \in Nat
  BY DEF IsWriter, Stream
<1> QED BY <1>1 DEF Extends

(* The current directory after a call that moved both streams on.           *)
LEMMA MovedOnOK ==
  ASSUME IInv, state # <<>>, NEW a, NEW p,
         Extends(ArchiveWriter, a), Extends(PayloadWriter, p)
  PROVE  LET t == PayloadAt(At(Top, a.position), p.position) IN
         /\ DirOK(t)
         /\ t.write_position = a.position
         /\ t.payload_write_position = p.position
         /\ Top.write_position <= a.position
<1>1. /\ a.position \in Nat /\ p.position \in Nat
      /\ Top.write_position <= a.position
  BY DEF Extends, IsWriter, ArchiveWriter
<1>2. /\ DirOK(At(Top, a.position))
      /\ At(Top, a.position).write_position = a.position
  BY <1>1, TopOK, AtOK
<1> QED BY <1>1, <1>2, PayloadAtOK

LEMMA StartFileOK ==
  ASSUME IInv, state # <<>>, NEW n \in Names, NEW meta \in Metas
  PROVE  Extends(ArchiveWriter, StartFile(n, meta))
<1> DEFINE named == SeqWrite(ArchiveWriter, Filename(n))
<1>1. IsWriter(ArchiveWriter) /\ ItemOK(Filename(n)) /\ ItemOK(Entry(meta))
  BY TopOK, NamedItemsOK
<1>2. Extends(ArchiveWriter, named) /\ IsWriter(named)
  BY <1>1, SeqWriteExtends DEF Extends
<1>3. Extends(named, SeqWrite(named, Entry(meta)))
  BY <1>1, <1>2, SeqWriteExtends
<1> QED BY <1>1, <1>2, <1>3, ExtendsTransitive DEF StartFile

LEMMA FileWritersOK ==
  ASSUME IInv, state # <<>>,
         NEW n \in Names, NEW meta \in Metas, NEW size \in FileSizes
  PROVE  /\ Extends(StartFile(n, meta), FileArchive(n, meta, size))
         /\ Extends(ArchiveWriter, FileArchive(n, meta, size))
         /\ Extends(PayloadWriter, FilePayload(size))
         /\ FileItem(n, meta, size) \in GoodbyeItem
         /\ FileItem(n, meta, size).offset = Top.write_position
<1> DEFINE start == StartFile(n, meta)
           a == FileArchive(n, meta, size)
<1>1. /\ IsWriter(ArchiveWriter) /\ IsWriter(PayloadWriter)
      /\ Top.write_position \in Nat
      /\ ArchiveWriter.position = Top.write_position
  BY TopOK DEF ArchiveWriter
<1>2. size \in Nat /\ HashOf[n] \in Nat
  BY EncoderAssumption, NamesAssumption
<1>3. /\ ItemOK(Payload(size))
      /\ \A offset \in Nat : ItemOK(PayloadRef(offset, size))
  BY <1>2, SizedItemsOK
<1>4. Extends(ArchiveWriter, start) /\ IsWriter(start)
  BY StartFileOK DEF Extends
<1>5. Extends(start, a)
  <2>1. Top.payload_write_position \in Nat
    BY TopOK
  <2> QED BY <1>3, <1>4, <2>1, SeqWriteExtends DEF FileArchive
<1>6. Extends(ArchiveWriter, a)
  BY <1>1, <1>4, <1>5, ExtendsTransitive
<1>7. Extends(PayloadWriter, FilePayload(size))
  BY <1>1, <1>3, SeqWriteExtends, ExtendsReflexive DEF FilePayload
<1>8. a.position \in Nat /\ Top.write_position <= a.position
  BY <1>1, <1>6 DEF Extends, IsWriter
<1> HIDE DEF start, a
<1>9. /\ FileItem(n, meta, size) =
           [hash |-> HashOf[n], offset |-> Top.write_position,
            size |-> size + (a.position - Top.write_position)]
      /\ size + (a.position - Top.write_position) \in Nat
  BY <1>1, <1>2, <1>8 DEF FileItem, a
<1> QED BY <1>1, <1>2, <1>5, <1>6, <1>7, <1>9 DEF GoodbyeItem, start, a

LEMMA CreateFileKeeps ==
  ASSUME IInv, NEW n \in Names, NEW meta \in Metas, NEW size \in FileSizes,
         CreateFile(n, meta, size)
  PROVE  IInv' /\ (PositionsTrackStreams => PositionsTrackStreams')
<1> DEFINE a == FileArchive(n, meta, size)
           p == FilePayload(size)
           t == PayloadAt(At(Top, a.position), p.position)
<1>1. state # <<>>
  BY DEF CreateFile, CanCreateFile, Check, Usable
<1>2. /\ Extends(ArchiveWriter, a) /\ Extends(PayloadWriter, p)
      /\ FileItem(n, meta, size) \in GoodbyeItem
      /\ FileItem(n, meta, size).offset = Top.write_position
  BY <1>1, FileWritersOK
<1> HIDE DEF a, p
<1>3. /\ DirOK(t) /\ t.write_position = a.position
      /\ t.payload_write_position = p.position
      /\ Top.write_position <= a.position
  BY <1>1, <1>2, MovedOnOK
<1>4. OrdinaryStep(t, a, p)
  BY <1>1, <1>2, <1>3 DEF OrdinaryStep, CreateFile, a, p
<1>5. /\ file' = [open |-> TRUE, remaining_size |-> size,
                  item |-> FileItem(n, meta, size)]
      /\ links' = links \cup {Top.write_position}
      /\ UNCHANGED <<phase, result, promised, faults>>
  BY DEF CreateFile
<1>6. size \in Nat /\ Top.write_position \in Nat
  BY <1>1, EncoderAssumption, TopOK
<1> HIDE DEF t
<1>7. /\ file' \in FileImpls
      /\ file'.open => file'.item.offset <= t.write_position
  BY <1>2, <1>3, <1>5, <1>6 DEF FileImpls
<1>8. /\ links' \subseteq Nat /\ promised' \in Seq(PayloadRefs)
      /\ faults' \subseteq FaultKinds
  BY <1>5, <1>6 DEF IInv, TypeOK
<1> QED BY <1>4, <1>5, <1>7, <1>8, OrdinaryStepKeeps

LEMMA CreateFileFailsKeeps ==
  ASSUME IInv, NEW n \in Names, NEW meta \in Metas, NEW size \in FileSizes,
         CreateFileFails(n, meta, size)
  PROVE  IInv' /\ (PositionsTrackStreams => PositionsTrackStreams')
<1> DEFINE named == StartFile(n, meta)
           a == FileArchive(n, meta, size)
           p == FilePayload(size)
<1>1. state # <<>> /\ ~file.open
  BY DEF CreateFileFails, CanCreateFile, Check, Usable
<1>2. /\ Extends(ArchiveWriter, named) /\ Extends(named, a)
      /\ Extends(PayloadWriter, p)
      /\ IsWriter(ArchiveWriter) /\ IsWriter(PayloadWriter)
      /\ IsWriter(named) /\ IsWriter(p)
  BY <1>1, StartFileOK, FileWritersOK, TopOK DEF Extends
<1> HIDE DEF named, a, p
<1>3. PICK x \in (Interrupted(ArchiveWriter, named) \X {PayloadWriter})
                   \cup ({named} \X Interrupted(PayloadWriter, p))
                   \cup (Interrupted(named, a) \X {p}) :
        /\ archive' = x[1].out
        /\ payload' = x[2].out
        /\ SetTop(PayloadAt(At(Top, x[1].position), x[2].position))
  BY DEF CreateFileFails, named, a, p
<1>4. Extends(ArchiveWriter, x[1]) /\ Extends(PayloadWriter, x[2])
  <2>1. CASE x \in Interrupted(ArchiveWriter, named) \X {PayloadWriter}
    BY <1>2, <2>1, InterruptedExtends, ExtendsReflexive
  <2>2. CASE x \in {named} \X Interrupted(PayloadWriter, p)
    BY <1>2, <2>2, InterruptedExtends
  <2>3. CASE x \in Interrupted(named, a) \X {p}
    <3>1. Extends(named, x[1]) /\ x[2] = p
      BY <1>2, <2>3, InterruptedExtends
    <3> QED BY <1>2, <3>1, ExtendsTransitive
  <2> QED BY <2>1, <2>2, <2>3
<1> DEFINE t == PayloadAt(At(Top, x[1].position), x[2].position)
<1>5. /\ DirOK(t) /\ t.write_position = x[1].position
      /\ t.payload_write_position = x[2].position
  BY <1>1, <1>4, MovedOnOK
<1>6. /\ faults' = faults \cup {"call"} /\ "call" \in FaultKinds
      /\ UNCHANGED <<file, phase, result, links, promised>>
  BY DEF CreateFileFails, Fail, MayFail
<1>7. OrdinaryStep(t, x[1], x[2])
  BY <1>1, <1>3, <1>4, <1>5, <1>6 DEF OrdinaryStep
<1> HIDE DEF t
<1>8. /\ file' \in FileImpls /\ ~file'.open
      /\ links' \subseteq Nat /\ promised' \in Seq(PayloadRefs)
      /\ faults' \subseteq FaultKinds
  BY <1>1, <1>6 DEF IInv, TypeOK, FileImpls
<1> QED BY <1>6, <1>7, <1>8, OrdinaryStepKeeps

(* Content goes to one of the two streams.                                  *)
LEMMA PutKeeps ==
  ASSUME IInv, file.open, NEW k \in Nat, PutToArchive(k) \/ PutToPayload(k),
         file' \in FileImpls, file'.item = file.item,
         UNCHANGED <<phase, result, links, promised>>,
         faults \subseteq faults', faults' \subseteq FaultKinds
  PROVE  IInv' /\ (PositionsTrackStreams => PositionsTrackStreams')
<1>1. state # <<>> /\ file.item.offset \in Nat
  BY DEF IInv, TypeOK, GoodbyeItem
<1>2. /\ IsWriter(ArchiveWriter) /\ IsWriter(PayloadWriter)
      /\ Extends(ArchiveWriter, ArchiveWriter)
      /\ Extends(PayloadWriter, PayloadWriter)
      /\ Extends(ArchiveWriter, SeqWriteData(ArchiveWriter, k))
      /\ Extends(PayloadWriter, SeqWriteData(PayloadWriter, k))
      /\ DirOK(Top) /\ Top.write_position \in Nat
  BY <1>1, TopOK, ExtendsReflexive, SeqWriteDataExtends
<1>3. PICK t, a, p : OrdinaryStep(t, a, p)
  <2>1. CASE PutToArchive(k)
    <3> DEFINE a == SeqWriteData(ArchiveWriter, k)
               t == At(Top, a.position)
    <3>1. a.position \in Nat /\ Top.write_position <= a.position
      BY <1>2 DEF Extends, IsWriter, ArchiveWriter
    <3>2. /\ DirOK(t) /\ t.write_position = a.position
          /\ t.payload_write_position = Top.payload_write_position
      BY <1>2, <3>1, AtOK
    <3>3. /\ SetTop(t) /\ archive' = a.out /\ payload' = payload
      BY <2>1 DEF PutToArchive
    <3> HIDE DEF t
    <3> QED BY <1>1, <1>2, <3>2, <3>3 DEF OrdinaryStep, PayloadWriter
  <2>2. CASE PutToPayload(k)
    <3> DEFINE p == SeqWriteData(PayloadWriter, k)
               t == PayloadAt(Top, p.position)
    <3>1. p.position \in Nat
      BY <1>2 DEF Extends, IsWriter
    <3>2. /\ DirOK(t) /\ t.payload_write_position = p.position
          /\ t.write_position = Top.write_position
      BY <1>2, <3>1, PayloadAtOK
    <3>3. /\ SetTop(t) /\ payload' = p.out /\ archive' = archive
      BY <2>2 DEF PutToPayload
    <3> HIDE DEF t
    <3> QED BY <1>1, <1>2, <3>2, <3>3 DEF OrdinaryStep, ArchiveWriter
  <2> QED BY <2>1, <2>2
<1>4. Top.write_position <= t.write_position /\ t.write_position \in Nat
  BY <1>3 DEF OrdinaryStep, Extends, ArchiveWriter, DirOK, EncoderStates
<1>5. file'.open => file'.item.offset <= t.write_position
  <2>1. file.item.offset <= Top.write_position
    BY DEF IInv, NothingUnderflows
  <2> QED BY <1>1, <1>2, <1>4, <2>1
<1>6. links' \subseteq Nat /\ promised' \in Seq(PayloadRefs)
  BY DEF IInv, TypeOK
<1> QED BY <1>3, <1>5, <1>6, OrdinaryStepKeeps

LEMMA WriteKeeps ==
  ASSUME IInv, NEW k \in WriteSizes,
         Write(k) \/ WriteAllFails(k) \/ PollWrite(k)
  PROVE  IInv' /\ (PositionsTrackStreams => PositionsTrackStreams')
<1>1. k \in Nat
  BY EncoderAssumption
<1>2. /\ file.open /\ file \in FileImpls /\ file.remaining_size \in Nat
      /\ faults \subseteq FaultKinds
  BY DEF Write, WriteAllFails, PollWrite, IInv, TypeOK, FileImpls
<1>3. PutToArchive(k) \/ PutToPayload(k)
  BY DEF Write, WriteAllFails, PollWrite, PutContent
<1>4. UNCHANGED <<phase, result, links, promised>>
  BY DEF Write, WriteAllFails, PollWrite
<1>5. CASE Write(k) \/ PollWrite(k)
  <2>1. /\ k <= file.remaining_size
        /\ file' = [file EXCEPT !.remaining_size = @ - k]
        /\ faults' = faults
    BY <1>5 DEF Write, PollWrite
  <2>2. file.remaining_size - k \in Nat
    BY <1>1, <1>2, <2>1
  <2>3. file' \in FileImpls /\ file'.item = file.item
    BY <1>2, <2>1, <2>2 DEF FileImpls
  <2> QED BY <1>1, <1>2, <1>3, <1>4, <2>1, <2>3, PutKeeps
<1>6. CASE WriteAllFails(k)
  <2>1. file' = file /\ faults' = faults \cup {"write"} /\ "write" \in FaultKinds
    BY <1>6 DEF WriteAllFails, Fail, MayFail
  <2> QED BY <1>1, <1>2, <1>3, <1>4, <2>1, PutKeeps
<1> QED BY <1>5, <1>6

LEMMA DropFileKeeps ==
  ASSUME IInv, DropFile
  PROVE  IInv' /\ (PositionsTrackStreams => PositionsTrackStreams')
<1> DEFINE t == DropInto(Top, file.item, file.remaining_size)
<1>1. /\ state # <<>> /\ file.item \in GoodbyeItem
      /\ file.item.offset <= Top.write_position
  BY DEF DropFile, IInv, TypeOK, NothingUnderflows
<1>2. /\ IsWriter(ArchiveWriter) /\ IsWriter(PayloadWriter) /\ DirOK(Top)
  BY <1>1, TopOK
<1>3. /\ Extends(ArchiveWriter, ArchiveWriter)
      /\ Extends(PayloadWriter, PayloadWriter)
  BY <1>2, ExtendsReflexive
<1>4. /\ DirOK(t)
      /\ t.write_position = Top.write_position
      /\ t.payload_write_position = Top.payload_write_position
  BY <1>1, <1>2, DropIntoOK
<1>5. /\ SetTop(t) /\ file' = NoFile
      /\ UNCHANGED <<archive, payload, phase, result, links, promised, faults>>
  BY DEF DropFile
<1> HIDE DEF t
<1>6. OrdinaryStep(t, ArchiveWriter, PayloadWriter)
  BY <1>1, <1>3, <1>4, <1>5 DEF OrdinaryStep, ArchiveWriter, PayloadWriter
<1>7. /\ file' \in FileImpls /\ ~file'.open
      /\ links' \subseteq Nat /\ promised' \in Seq(PayloadRefs)
      /\ faults' \subseteq FaultKinds
  BY <1>5 DEF IInv, TypeOK, NoFile, FileImpls, GoodbyeItem
<1> QED BY <1>5, <1>6, <1>7, OrdinaryStepKeeps

LEMMA AddFileKeeps ==
  ASSUME IInv, NEW n \in Names, NEW meta \in Metas, NEW size \in FileSizes,
         NEW got \in 0..size, NEW returned \in BOOLEAN,
         AddFile(n, meta, size, got, returned)
  PROVE  IInv' /\ (PositionsTrackStreams => PositionsTrackStreams')
<1> DEFINE a == FileArchive(n, meta, size)
           p == FilePayload(size)
           a2 == IF Split THEN a ELSE SeqWriteData(a, got)
           p2 == IF Split THEN SeqWriteData(p, got) ELSE p
           written == PayloadAt(At(Top, a2.position), p2.position)
           item == FileItem(n, meta, size)
           t == DropInto(written, item, size - got)
<1>1. state # <<>> /\ ~file.open
  BY DEF AddFile, CanCreateFile, Check, Usable
<1>2. got \in Nat /\ Top.write_position \in Nat
  BY <1>1, TopOK, EncoderAssumption
<1>3. /\ Extends(ArchiveWriter, a) /\ Extends(PayloadWriter, p)
      /\ item \in GoodbyeItem
      /\ item.offset = Top.write_position
      /\ IsWriter(ArchiveWriter) /\ IsWriter(PayloadWriter)
      /\ IsWriter(a) /\ IsWriter(p)
  BY <1>1, FileWritersOK, TopOK DEF Extends
<1>4. /\ archive' = a2.out /\ payload' = p2.out /\ SetTop(t)
      /\ links' = IF returned THEN links \cup {Top.write_position} ELSE links
      /\ UNCHANGED <<file, phase, result, promised, faults>>
  BY DEF AddFile
<1> HIDE DEF a, p, item
<1>5. Extends(ArchiveWriter, a2) /\ Extends(PayloadWriter, p2)
  <2>1. Extends(a, SeqWriteData(a, got)) /\ Extends(p, SeqWriteData(p, got))
    BY <1>2, <1>3, SeqWriteDataExtends
  <2> QED BY <1>3, <2>1, ExtendsTransitive
<1> HIDE DEF a2, p2
<1>6. /\ DirOK(written)
      /\ written.write_position = a2.position
      /\ written.payload_write_position = p2.position
      /\ Top.write_position <= a2.position
  BY <1>1, <1>5, MovedOnOK
<1> HIDE DEF written
<1>7. /\ DirOK(t)
      /\ t.write_position = a2.position
      /\ t.payload_write_position = p2.position
  BY <1>3, <1>6, DropIntoOK
<1> HIDE DEF t
<1>8. OrdinaryStep(t, a2, p2)
  BY <1>1, <1>4, <1>5, <1>7 DEF OrdinaryStep
<1>9. /\ file' \in FileImpls /\ ~file'.open
      /\ links' \subseteq Nat /\ promised' \in Seq(PayloadRefs)
      /\ faults' \subseteq FaultKinds
  BY <1>1, <1>2, <1>4 DEF IInv, TypeOK, FileImpls
<1> QED BY <1>4, <1>8, <1>9, OrdinaryStepKeeps

(* add_file_entry, whether it succeeds or stops in the middle.              *)
LEMMA EntryKeeps ==
  ASSUME IInv, Check, NEW n \in Names, NEW full,
         Extends(ArchiveWriter, full),
         EntryAdded(n, full) \/ CallFails(full),
         UNCHANGED <<payload, file, phase, result>>,
         links' \subseteq Nat, promised' \in Seq(PayloadRefs)
  PROVE  IInv' /\ (PositionsTrackStreams => PositionsTrackStreams')
<1>1. state # <<>> /\ ~file.open
  BY DEF Check, Usable
<1>2. /\ IsWriter(ArchiveWriter) /\ IsWriter(PayloadWriter)
      /\ DirOK(Top) /\ Top.write_position \in Nat
      /\ Extends(PayloadWriter, PayloadWriter)
      /\ ArchiveWriter.position = Top.write_position
      /\ PayloadWriter.position = Top.payload_write_position
      /\ PayloadWriter.out = payload
  BY <1>1, TopOK, ExtendsReflexive DEF ArchiveWriter, PayloadWriter
<1>3. ASSUME NEW a, Extends(ArchiveWriter, a)
      PROVE  LET u == At(Top, a.position) IN
             /\ a.position \in Nat
             /\ Top.write_position <= a.position
             /\ DirOK(u)
             /\ u.write_position = a.position
             /\ u.payload_write_position = Top.payload_write_position
  <2>1. a.position \in Nat /\ Top.write_position <= a.position
    BY <1>2, <1>3 DEF Extends, IsWriter
  <2> QED BY <1>2, <2>1, AtOK
<1>4. PICK t, a : OrdinaryStep(t, a, PayloadWriter) /\ faults' \subseteq FaultKinds
  <2>1. CASE EntryAdded(n, full)
    <3> DEFINE u == At(Top, full.position)
               item == [hash   |-> HashOf[n],
                        offset |-> Top.write_position,
                        size   |-> full.position - Top.write_position]
    <3>1. /\ full.position \in Nat
          /\ Top.write_position <= full.position
          /\ DirOK(u)
          /\ u.write_position = full.position
          /\ u.payload_write_position = Top.payload_write_position
      BY <1>3
    <3>2. HashOf[n] \in Nat
      BY NamesAssumption
    <3>3. item \in GoodbyeItem /\ item.offset <= full.position
      BY <1>2, <3>1, <3>2 DEF GoodbyeItem
    <3>4. /\ SetTop(Listing(u, item)) /\ archive' = full.out
          /\ faults' = faults
      BY <2>1 DEF EntryAdded
    <3> HIDE DEF u, item
    <3>5. /\ DirOK(Listing(u, item))
          /\ Listing(u, item).write_position = full.position
          /\ Listing(u, item).payload_write_position
               = Top.payload_write_position
      BY <3>1, <3>3, ListingOK
    <3>6. OrdinaryStep(Listing(u, item), full, PayloadWriter)
      BY <1>1, <1>2, <3>4, <3>5 DEF OrdinaryStep
    <3>7. faults' \subseteq FaultKinds
      BY <3>4 DEF IInv, TypeOK
    <3> QED BY <3>6, <3>7
  <2>2. CASE CallFails(full)
    <3>1. PICK cut \in Interrupted(ArchiveWriter, full) :
            archive' = cut.out /\ SetTop(At(Top, cut.position))
      BY <2>2 DEF CallFails
    <3>2. Extends(ArchiveWriter, cut)
      BY <1>2, <3>1, InterruptedExtends
    <3>3. /\ DirOK(At(Top, cut.position))
          /\ At(Top, cut.position).write_position = cut.position
          /\ At(Top, cut.position).payload_write_position
               = Top.payload_write_position
      BY <1>3, <3>2
    <3>4. faults \subseteq faults' /\ faults' \subseteq FaultKinds
      BY <2>2 DEF CallFails, Fail, MayFail, IInv, TypeOK
    <3>5. OrdinaryStep(At(Top, cut.position), cut, PayloadWriter)
      BY <1>1, <1>2, <3>1, <3>2, <3>3, <3>4 DEF OrdinaryStep
    <3> QED BY <3>4, <3>5
  <2> QED BY <2>1, <2>2
<1>5. file' \in FileImpls /\ ~file'.open
  BY <1>1 DEF IInv, TypeOK, FileImpls
<1> QED BY <1>4, <1>5, OrdinaryStepKeeps

LEMMA AddFileEntryKeeps ==
  ASSUME IInv, NEW n \in Names, NEW full, AddFileEntry(n, full),
         Extends(ArchiveWriter, full), UNCHANGED <<links, promised>>
  PROVE  IInv' /\ (PositionsTrackStreams => PositionsTrackStreams')
<1>1. /\ Check
      /\ EntryAdded(n, full) \/ CallFails(full)
      /\ UNCHANGED <<payload, file, phase, result>>
  BY DEF AddFileEntry
<1>2. links' \subseteq Nat /\ promised' \in Seq(PayloadRefs)
  BY DEF IInv, TypeOK
<1> QED BY <1>1, <1>2, EntryKeeps

LEMMA AddEntryKeeps ==
  ASSUME IInv, NEW n \in Names, NEW meta \in Metas,
         \/ \E len \in TargetLens : AddSymlink(n, meta, len)
         \/ AddDevice(n, meta)
         \/ AddFifo(n, meta)
         \/ AddSocket(n, meta)
  PROVE  IInv' /\ (PositionsTrackStreams => PositionsTrackStreams')
<1> DEFINE start == StartFile(n, meta)
<1>1. state # <<>>
  BY DEF AddSymlink, AddDevice, AddFifo, AddSocket, AddFileEntry, Check, Usable
<1>2. /\ Extends(ArchiveWriter, start) /\ IsWriter(start)
      /\ IsWriter(ArchiveWriter)
  BY <1>1, StartFileOK, TopOK DEF Extends
<1>3. ASSUME NEW item, ItemOK(item)
      PROVE  Extends(ArchiveWriter, SeqWrite(start, item))
  <2> HIDE DEF start
  <2>1. Extends(start, SeqWrite(start, item))
    BY <1>2, <1>3, SeqWriteExtends
  <2> QED BY <1>2, <2>1, ExtendsTransitive
<1>4. ASSUME NEW len \in TargetLens, AddSymlink(n, meta, len)
      PROVE  IInv' /\ (PositionsTrackStreams => PositionsTrackStreams')
  <2>1. ItemOK(Symlink(len))
    BY EncoderAssumption, SizedItemsOK
  <2>2. Extends(ArchiveWriter, SeqWrite(start, Symlink(len)))
    BY <1>3, <2>1
  <2> QED BY <1>4, <2>2, AddFileEntryKeeps DEF AddSymlink
<1>5. CASE AddDevice(n, meta)
  <2>1. Extends(ArchiveWriter, SeqWrite(start, Device))
    BY <1>3, FixedItemsOK
  <2> QED BY <1>5, <2>1, AddFileEntryKeeps DEF AddDevice
<1>6. CASE AddFifo(n, meta)
  BY <1>2, <1>6, AddFileEntryKeeps DEF AddFifo
<1>7. CASE AddSocket(n, meta)
  BY <1>2, <1>7, AddFileEntryKeeps DEF AddSocket
<1> QED BY <1>4, <1>5, <1>6, <1>7

LEMMA AddHardlinkKeeps ==
  ASSUME IInv, NEW n \in Names, NEW len \in TargetLens, NEW target,
         AddHardlink(n, len, target)
  PROVE  IInv' /\ (PositionsTrackStreams => PositionsTrackStreams')
<1> DEFINE named == SeqWrite(ArchiveWriter, Filename(n))
           link == Hardlink(Top.write_position - target, target, len)
<1>1. state # <<>>
  BY DEF AddHardlink, Usable
<1>2. ItemOK(Filename(n))
  <2>1. NameLen[n] \in Nat
    BY NamesAssumption
  <2> QED BY <2>1 DEF ItemOK, ItemTypes, Filename, HeaderSize
<1>3. ItemOK(link)
  BY EncoderAssumption, SizedItemsOK
<1>4. IsWriter(ArchiveWriter)
  BY <1>1, TopOK
<1>5. Extends(ArchiveWriter, named) /\ IsWriter(named)
  BY <1>2, <1>4, SeqWriteExtends DEF Extends
<1>6. /\ AddFileEntry(n, SeqWrite(named, link))
      /\ UNCHANGED <<links, promised>>
  BY DEF AddHardlink
<1> HIDE DEF named, link
<1>7. Extends(named, SeqWrite(named, link))
  BY <1>3, <1>5, SeqWriteExtends
<1>8. Extends(ArchiveWriter, SeqWrite(named, link))
  BY <1>4, <1>5, <1>7, ExtendsTransitive
<1> QED BY <1>6, <1>8, AddFileEntryKeeps

LEMMA AddPayloadRefKeeps ==
  ASSUME IInv, NEW n \in Names, NEW meta \in Metas,
         NEW ref \in KnownPayloads \cup NextPayloads,
         AddPayloadRef(n, meta, ref)
  PROVE  IInv' /\ (PositionsTrackStreams => PositionsTrackStreams')
<1> DEFINE start == StartFile(n, meta)
           item == PayloadRef(ref.offset, ref.content)
           full == SeqWrite(start, item)
<1>1. Check /\ state # <<>>
  BY DEF AddPayloadRef, Check, Usable
<1>2. Top.write_position \in Nat /\ Top.payload_write_position \in Nat
  BY <1>1, TopOK
<1>3. ref \in PayloadRefs
  <2>1. CASE ref \in KnownPayloads
    <3>1. PICK c \in payload.cells :
            /\ c.item.htype = "PAYLOAD"
            /\ ref = [offset |-> c.at, content |-> c.item.content]
      BY <2>1 DEF KnownPayloads, CellsOf
    <3>2. c.at \in Nat /\ c.item.content \in FileSizes
      BY <3>1 DEF IInv, TypeOK, Stream, ItemOK
    <3> QED BY <3>1, <3>2 DEF PayloadRefs
  <2>2. CASE ref \in NextPayloads
    BY <1>2, <2>2 DEF NextPayloads, PayloadRefs
  <2> QED BY <2>1, <2>2
<1>4. ItemOK(item)
  <2>1. ref.content \in FileSizes \cap Nat /\ ref.offset \in Nat
    BY <1>3, EncoderAssumption DEF PayloadRefs
  <2> QED BY <2>1, SizedItemsOK
<1>5. /\ Extends(ArchiveWriter, start) /\ IsWriter(start)
      /\ IsWriter(ArchiveWriter)
  BY <1>1, StartFileOK, TopOK DEF Extends
<1>6. /\ UNCHANGED <<payload, file, phase, result>>
      /\ \/ /\ EntryAdded(n, full)
            /\ links' = links \cup {Top.write_position}
            /\ promised' = <<ref>>
         \/ /\ CallFails(full)
            /\ UNCHANGED <<links, promised>>
  BY DEF AddPayloadRef
<1>7. links' \subseteq Nat
  BY <1>2, <1>6 DEF IInv, TypeOK
<1>8. promised' \in Seq(PayloadRefs)
  <2>1. <<ref>> \in Seq(PayloadRefs)
    BY <1>3
  <2>2. promised' = <<ref>> \/ promised' = promised
    BY <1>6
  <2> QED BY <2>1, <2>2 DEF IInv, TypeOK
<1> HIDE DEF start, item
<1>9. Extends(start, full)
  BY <1>4, <1>5, SeqWriteExtends
<1>10. Extends(ArchiveWriter, full)
  BY <1>5, <1>9, ExtendsTransitive
<1> HIDE DEF full
<1>11. EntryAdded(n, full) \/ CallFails(full)
  BY <1>6
<1> QED BY <1>1, <1>6, <1>7, <1>8, <1>10, <1>11, EntryKeeps

LEMMA AdvanceKeeps ==
  ASSUME IInv, Advance
  PROVE  IInv' /\ (PositionsTrackStreams => PositionsTrackStreams')
<1> DEFINE k == promised[1].content
           h == SeqWrite(PayloadWriter, Payload(k))
           p == SeqWriteData(h, k)
           t == PayloadAt(Top, p.position)
<1>1. state # <<>> /\ ~file.open
  BY DEF Advance, Usable
<1>2. k \in FileSizes /\ k \in Nat
  <2>1. promised \in Seq(PayloadRefs) /\ promised # <<>>
    BY DEF Advance, IInv, TypeOK
  <2>2. promised[1] \in PayloadRefs
    BY <2>1
  <2> QED BY <2>2, EncoderAssumption DEF PayloadRefs
<1>3. /\ SetTop(t) /\ payload' = p.out /\ archive' = archive
      /\ promised' = <<>>
      /\ UNCHANGED <<file, phase, result, links, faults>>
  BY DEF Advance
<1> HIDE DEF k
<1>4. ItemOK(Payload(k))
  BY <1>2, SizedItemsOK
<1>5. /\ IsWriter(PayloadWriter) /\ IsWriter(ArchiveWriter)
      /\ Extends(ArchiveWriter, ArchiveWriter)
      /\ DirOK(Top)
  BY <1>1, TopOK, ExtendsReflexive
<1>6. Extends(PayloadWriter, h) /\ IsWriter(h)
  BY <1>4, <1>5, SeqWriteExtends DEF Extends
<1> HIDE DEF h
<1>7. Extends(PayloadWriter, p) /\ p.position \in Nat
  <2>1. Extends(h, p)
    BY <1>2, <1>6, SeqWriteDataExtends
  <2> HIDE DEF p
  <2>2. Extends(PayloadWriter, p)
    BY <1>5, <1>6, <2>1, ExtendsTransitive
  <2> QED BY <2>2 DEF Extends, IsWriter
<1>8. /\ DirOK(t)
      /\ t.write_position = Top.write_position
      /\ t.payload_write_position = p.position
  BY <1>5, <1>7, PayloadAtOK
<1> HIDE DEF t, p
<1>9. OrdinaryStep(t, ArchiveWriter, p)
  BY <1>1, <1>3, <1>5, <1>7, <1>8 DEF OrdinaryStep, ArchiveWriter
<1>10. /\ file' \in FileImpls /\ ~file'.open
       /\ links' \subseteq Nat /\ promised' \in Seq(PayloadRefs)
       /\ faults' \subseteq FaultKinds
  BY <1>1, <1>3 DEF IInv, TypeOK, FileImpls
<1> QED BY <1>3, <1>9, <1>10, OrdinaryStepKeeps

(* What a step that changes the stack owes.                                 *)
LEMMA StackStepKeeps ==
  ASSUME IInv, StackOK(state'), Stream(archive'), Stream(payload'),
         ~file'.open, file' \in FileImpls, phase' \in {"new", "open", "closed"},
         state' # <<>> => phase' = "open",
         result' \in {"none", "ok", "incomplete", "io_error"},
         links' \subseteq Nat, promised' \in Seq(PayloadRefs),
         faults' \subseteq FaultKinds
  PROVE  IInv'
<1>1. TypeOK'
  BY DEF TypeOK, StackOK, FileImpls
<1>2. NothingUnderflows'
  BY DEF NothingUnderflows, StackOK, DirOK, Depth
<1> QED BY <1>1, <1>2 DEF IInv

LEMMA CreateDirectoryKeeps ==
  ASSUME IInv, NEW n \in Names, NEW meta \in Metas, CreateDirectory(n, meta)
  PROVE  IInv' /\ (PositionsTrackStreams => PositionsTrackStreams')
<1> DEFINE named == SeqWrite(ArchiveWriter, Filename(n))
           full == SeqWrite(named, Entry(meta))
           outer == At(Top, full.position)
           moved == [state EXCEPT ![Depth] = outer]
           inner == Subdirectory(n, named, full)
<1>1. state # <<>> /\ ~file.open /\ Check
  BY DEF CreateDirectory, Check, Usable
<1>2. /\ IsWriter(ArchiveWriter) /\ ItemOK(Filename(n)) /\ ItemOK(Entry(meta))
      /\ Depth \in Nat \ {0} /\ Depth = Len(state)
      /\ DirOK(Top)
      /\ Top.write_position \in Nat /\ Top.payload_write_position \in Nat
      /\ HashOf[n] \in Nat
  BY <1>1, TopOK, NamedItemsOK, NamesAssumption
<1>3. Extends(ArchiveWriter, named) /\ IsWriter(named)
  BY <1>2, SeqWriteExtends DEF Extends
<1>4. Extends(named, full) /\ Extends(ArchiveWriter, full)
  BY <1>2, <1>3, SeqWriteExtends, ExtendsTransitive
<1>5. /\ \/ /\ archive' = full.out
            /\ state' = Append(moved, inner)
            /\ faults' = faults
         \/ CallFails(full)
      /\ UNCHANGED <<payload, file, phase, result, links, promised>>
  BY DEF CreateDirectory
<1>6. inner = EncoderState(named.position, full.position, Top.write_position,
                           HashOf[n], full.position,
                           Top.payload_write_position)
  BY DEF Subdirectory
<1> HIDE DEF named, full, inner
<1>7. /\ named.position \in Nat /\ full.position \in Nat
      /\ Top.write_position <= named.position
      /\ named.position <= full.position
      /\ Top.write_position <= full.position
      /\ full.position - Top.write_position = full.out.len - archive.len
      /\ Stream(full.out) /\ full.out.len \in Nat /\ archive.len \in Nat
  BY <1>2, <1>3, <1>4 DEF Extends, IsWriter, Stream, ArchiveWriter
<1>8. CASE CallFails(full)
  <2>1. \E cut \in Interrupted(ArchiveWriter, full) :
          archive' = cut.out /\ SetTop(At(Top, cut.position))
    BY <1>8 DEF CallFails
  <2>2. links' \subseteq Nat /\ promised' \in Seq(PayloadRefs)
    BY <1>5 DEF IInv, TypeOK
  <2> QED BY <1>1, <1>4, <1>5, <1>8, <2>2, EntryKeeps
<1>9. CASE /\ archive' = full.out
           /\ state' = Append(moved, inner)
           /\ faults' = faults
  <2>1. DirOK(outer) /\ outer.write_position = full.position
    BY <1>2, <1>7, AtOK
  <2>2. state \in Seq(EncoderStates) /\ outer \in EncoderStates
    BY <2>1 DEF IInv, TypeOK, DirOK
  <2> HIDE DEF outer
  <2>3. /\ moved \in Seq(EncoderStates) /\ moved # <<>>
        /\ Len(moved) = Len(state) /\ moved[Len(moved)] = outer
    BY <1>2, <2>2
  <2>4. StackOK(moved)
    <3>1. state[Len(state)].write_position <= outer.write_position
      BY <1>2, <1>7, <2>1 DEF Top
    <3> QED BY <1>1, <1>2, <2>1, <3>1, StackOKInIInv, SetTopKeepsStackOK
  <2>5. /\ inner \in EncoderStates
        /\ inner.write_position = full.position
        /\ inner.payload_write_position = Top.payload_write_position
        /\ inner.entry_offset = named.position
        /\ inner.file_offset = Top.write_position
        /\ inner.items = <<>>
    BY <1>2, <1>6, <1>7 DEF EncoderState, EncoderStates, EncodeErrors
  <2>6. DirOK(inner)
    BY <1>7, <2>5 DEF DirOK, BehindPosition
  <2> HIDE DEF moved
  <2>7. StackOK(Append(moved, inner))
    <3>1. moved[Len(moved)].write_position <= inner.write_position
      BY <1>7, <2>1, <2>3, <2>5
    <3> QED BY <2>3, <2>4, <2>6, <3>1, PushKeepsStackOK
  <2>8. IInv'
    <3>1. /\ ~file'.open /\ file' \in FileImpls /\ phase' = phase
          /\ phase = "open" /\ Stream(payload')
          /\ result' \in {"none", "ok", "incomplete", "io_error"}
          /\ links' \subseteq Nat /\ promised' \in Seq(PayloadRefs)
          /\ faults' \subseteq FaultKinds
      BY <1>1, <1>5, <1>9 DEF IInv, TypeOK, FileImpls
    <3> QED BY <1>7, <1>9, <2>7, <3>1, StackStepKeeps
  <2>9. Top' = inner
    <3>1. /\ Len(state') = Len(moved) + 1
          /\ state'[Len(moved) + 1] = inner
      BY <1>9, <2>3, <2>5
    <3> QED BY <3>1 DEF Top, Depth
  <2>10. ASSUME PositionsTrackStreams
         PROVE  PositionsTrackStreams'
    <3> SUFFICES ASSUME "finish" \notin faults'
                 PROVE  /\ inner.write_position = archive'.len
                        /\ inner.payload_write_position = payload'.len
      BY <2>9 DEF PositionsTrackStreams
    <3>1. /\ Top.write_position = archive.len
          /\ Top.payload_write_position = payload.len
      BY <1>1, <1>9, <2>10 DEF PositionsTrackStreams
    <3> QED BY <1>2, <1>5, <1>7, <1>9, <2>5, <3>1
  <2> QED BY <2>8, <2>10
<1> QED BY <1>5, <1>8, <1>9

LEMMA FinishKeeps ==
  ASSUME IInv, Finish
  PROVE  IInv' /\ (PositionsTrackStreams => PositionsTrackStreams')
<1>1. state # <<>> /\ ~file.open
  BY DEF Finish, Usable
<1>2. PICK p \in SortedOrders(Top.items) :
        LET w == SeqWrite(ArchiveWriter, GoodbyeTable(Top, p)) IN
        /\ archive' = w.out
        /\ state' = IF Depth = 1
                      THEN <<>>
                      ELSE [Parents EXCEPT
                              ![Depth - 1] = PopInto(state[Depth - 1], Top,
                                                     w.position)]
  BY DEF Finish
<1> DEFINE w == SeqWrite(ArchiveWriter, GoodbyeTable(Top, p))
           parent == state[Depth - 1]
           t == PopInto(parent, Top, w.position)
<1>3. /\ DirOK(Top) /\ IsWriter(ArchiveWriter)
      /\ Depth \in Nat \ {0} /\ Depth = Len(state)
      /\ Top.write_position \in Nat
      /\ Top.payload_write_position \in Nat
      /\ Top.file_hash \in Nat
      /\ Top.file_offset \in Nat
      /\ Top.encode_error \in EncodeErrors
  BY <1>1, TopOK
<1>4. ItemOK(GoodbyeTable(Top, p))
  BY <1>3, GoodbyeTableOK
<1>5. Extends(ArchiveWriter, w)
  BY <1>3, <1>4, SeqWriteExtends
<1> HIDE DEF w
<1>6. /\ w.position \in Nat /\ Top.write_position <= w.position
      /\ w.position - Top.write_position = w.out.len - archive.len
      /\ Stream(w.out) /\ w.out.len \in Nat /\ archive.len \in Nat
  BY <1>3, <1>5 DEF Extends, IsWriter, Stream, ArchiveWriter
<1>7. /\ archive' = w.out
      /\ state' = IF Depth = 1 THEN <<>>
                  ELSE [Parents EXCEPT ![Depth - 1] = t]
  BY <1>2 DEF w
<1>8. /\ ~file'.open /\ file' \in FileImpls /\ phase' = phase
      /\ phase = "open" /\ payload' = payload /\ Stream(payload')
      /\ result' \in {"none", "ok", "incomplete", "io_error"}
      /\ links' \subseteq Nat /\ promised' \in Seq(PayloadRefs)
      /\ faults' = faults /\ faults' \subseteq FaultKinds
  BY <1>1 DEF Finish, Usable, IInv, TypeOK, FileImpls
<1>9. CASE Depth = 1
  <2>1. state' = <<>>
    BY <1>7, <1>9
  <2>2. StackOK(state')
    BY <2>1 DEF StackOK
  <2>3. IInv'
    BY <1>6, <1>7, <1>8, <2>2, StackStepKeeps
  <2> QED BY <2>1, <2>3 DEF PositionsTrackStreams
<1>10. CASE Depth # 1
  <2>1. /\ Depth - 1 \in 1..Len(state) - 1
        /\ Depth - 1 \in 1..Len(state)
        /\ Depth - 1 + 1 = Depth
    BY <1>3, <1>10
  <2>2. /\ DirOK(parent)
        /\ parent.write_position <= Top.write_position
        /\ parent.write_position \in Nat
    <3>1. DirOK(parent) /\ parent.write_position <= Top.write_position
      BY <2>1, StackOKInIInv DEF StackOK, Top
    <3> QED BY <3>1 DEF DirOK, EncoderStates
  <2>3. /\ DirOK(t)
        /\ t.write_position = w.position
        /\ t.payload_write_position = Top.payload_write_position
    <3> DEFINE moved == PayloadAt(At(parent, w.position),
                                  Top.payload_write_position)
               item == DirectoryItem(Top, w.position)
    <3>1. parent.write_position <= w.position
      BY <1>3, <1>6, <2>2
    <3>2. /\ DirOK(At(parent, w.position))
          /\ At(parent, w.position).write_position = w.position
      BY <1>6, <2>2, <3>1, AtOK
    <3>3. /\ DirOK(moved)
          /\ moved.write_position = w.position
          /\ moved.payload_write_position = Top.payload_write_position
      BY <1>3, <3>2, PayloadAtOK
    <3>4. Top.file_offset <= w.position
      BY <1>3, <1>6 DEF DirOK, BehindPosition
    <3>5. item \in GoodbyeItem /\ item.offset <= moved.write_position
      BY <1>3, <1>6, <3>3, <3>4 DEF DirectoryItem, GoodbyeItem
    <3>6. t = MergeError(Listing(moved, item), Top.encode_error)
      BY DEF PopInto
    <3> HIDE DEF moved, item, t
    <3>7. /\ DirOK(Listing(moved, item))
          /\ Listing(moved, item).write_position = w.position
          /\ Listing(moved, item).payload_write_position
               = Top.payload_write_position
      BY <3>3, <3>5, ListingOK
    <3> QED BY <1>3, <3>6, <3>7, MergeErrorOK
  <2> HIDE DEF t
  <2>4. /\ StackOK(Parents)
        /\ Len(Parents) = Depth - 1
        /\ Parents[Depth - 1] = parent
        /\ Parents # <<>>
    <3>1. Parents = SubSeq(state, 1, Len(state) - 1)
      BY <1>3 DEF Parents
    <3>2. /\ StackOK(Parents)
          /\ Len(Parents) = Depth - 1
          /\ Parents[Depth - 1] = parent
      BY <1>1, <1>3, <2>1, <3>1, StackOKInIInv, PopKeepsStackOK
    <3> QED BY <1>3, <1>10, <3>2
  <2>5. state' = [Parents EXCEPT ![Len(Parents)] = t]
    BY <1>7, <1>10, <2>4
  <2>6. StackOK(state')
    <3>1. Parents[Len(Parents)].write_position <= t.write_position
      BY <1>3, <1>6, <2>2, <2>3, <2>4
    <3> QED BY <2>3, <2>4, <2>5, <3>1, SetTopKeepsStackOK
  <2>7. IInv'
    BY <1>6, <1>7, <1>8, <2>6, StackStepKeeps
  <2>8. Top' = t
    <3>1. Parents \in Seq(EncoderStates) /\ t \in EncoderStates
      BY <2>3, <2>4 DEF StackOK, DirOK
    <3>2. Len(state') = Len(Parents) /\ state'[Len(Parents)] = t
      BY <1>3, <1>10, <2>4, <2>5, <3>1
    <3> QED BY <3>2 DEF Top, Depth
  <2>9. ASSUME PositionsTrackStreams
        PROVE  PositionsTrackStreams'
    <3> SUFFICES ASSUME "finish" \notin faults'
                 PROVE  /\ t.write_position = archive'.len
                        /\ t.payload_write_position = payload'.len
      BY <2>8 DEF PositionsTrackStreams
    <3>1. /\ Top.write_position = archive.len
          /\ Top.payload_write_position = payload.len
      BY <1>1, <1>8, <2>9 DEF PositionsTrackStreams
    <3> QED BY <1>3, <1>6, <1>7, <1>8, <2>3, <3>1
  <2> QED BY <2>7, <2>9
<1> QED BY <1>9, <1>10

LEMMA FinishFailsKeeps ==
  ASSUME IInv, FinishFails
  PROVE  IInv' /\ (PositionsTrackStreams => PositionsTrackStreams')
<1>1. state # <<>> /\ ~file.open /\ phase = "open"
  BY DEF FinishFails, Usable
<1>2. PICK p \in SortedOrders(Top.items) :
        \E cut \in Interrupted(ArchiveWriter,
                               SeqWrite(ArchiveWriter, GoodbyeTable(Top, p))) :
          archive' = cut.out
  BY DEF FinishFails
<1> DEFINE w == SeqWrite(ArchiveWriter, GoodbyeTable(Top, p))
<1>3. PICK cut \in Interrupted(ArchiveWriter, w) : archive' = cut.out
  BY <1>2
<1>4. IsWriter(ArchiveWriter) /\ DirOK(Top)
  BY <1>1, TopOK
<1>5. Extends(ArchiveWriter, w)
  BY <1>4, GoodbyeTableOK, SeqWriteExtends
<1> HIDE DEF w
<1>6. Stream(archive')
  BY <1>3, <1>4, <1>5, InterruptedExtends DEF Extends, IsWriter
<1>7. StackOK(state')
  <2>1. state' = SubSeq(state, 1, Len(state) - 1)
    BY DEF FinishFails, Parents, Depth
  <2> QED BY <1>1, <2>1, StackOKInIInv, PopKeepsStackOK
<1>8. /\ ~file'.open /\ file' \in FileImpls /\ phase' = "open"
      /\ Stream(payload')
      /\ result' \in {"none", "ok", "incomplete", "io_error"}
      /\ links' \subseteq Nat /\ promised' \in Seq(PayloadRefs)
      /\ "finish" \in faults' /\ faults' \subseteq FaultKinds
  BY <1>1 DEF FinishFails, Fail, MayFail, IInv, TypeOK, FileImpls
<1>9. IInv'
  BY <1>6, <1>7, <1>8, StackStepKeeps
<1> QED BY <1>8, <1>9 DEF PositionsTrackStreams

LEMMA CloseKeeps ==
  ASSUME IInv, Close
  PROVE  IInv' /\ (PositionsTrackStreams => PositionsTrackStreams')
<1>1. /\ state = <<>> /\ state' = <<>> /\ phase' = "closed"
      /\ UNCHANGED <<archive, file, result, links, promised>>
  BY DEF Close
<1>2. StackOK(state')
  BY <1>1 DEF StackOK
<1>3. ~file'.open /\ file' \in FileImpls
  BY <1>1 DEF IInv, TypeOK, FileImpls
<1>4. Stream(payload)
  BY DEF IInv, TypeOK
<1>5. Stream(payload') /\ faults' \subseteq FaultKinds
  <2>1. CASE /\ payload' = IF Split
                             THEN Append1(payload, Marker("PAYLOAD_TAIL_MARKER"))
                             ELSE payload
             /\ UNCHANGED faults
    <3>1. Stream(payload')
      BY <1>4, <2>1, FixedItemsOK, Append1Stream
    <3> QED BY <2>1, <3>1 DEF IInv, TypeOK
  <2>2. CASE /\ \E b \in TornBytes \cap 0..HeaderSize - 1 :
                  payload' = [len |-> payload.len + b,
                              cells |-> payload.cells]
             /\ MayFail("close")
             /\ Fail("close")
    <3>1. PICK b \in Nat :
            payload' = [len |-> payload.len + b, cells |-> payload.cells]
      BY <2>2, EncoderAssumption
    <3>2. payload.len \in Nat
      BY <1>4 DEF Stream
    <3>3. payload'.cells = payload.cells /\ payload'.len = payload.len + b
      BY <3>1
    <3>4. Stream(payload')
      BY <1>4, <3>1, <3>2, <3>3 DEF Stream, ItemOK
    <3> QED BY <2>2, <3>4 DEF Fail, MayFail, IInv, TypeOK
  <2> QED BY <2>1, <2>2 DEF Close
<1>6. /\ Stream(archive')
      /\ result' \in {"none", "ok", "incomplete", "io_error"}
      /\ links' \subseteq Nat /\ promised' \in Seq(PayloadRefs)
  BY <1>1 DEF IInv, TypeOK
<1>7. IInv'
  BY <1>1, <1>2, <1>3, <1>5, <1>6, StackStepKeeps
<1> QED BY <1>1, <1>7 DEF PositionsTrackStreams

LEMMA NewKeeps ==
  ASSUME IInv, NEW meta \in Metas, NEW prelude \in Preludes, New(meta, prelude)
  PROVE  IInv' /\ (PositionsTrackStreams => PositionsTrackStreams')
<1> DEFINE start == [out |-> EmptyStream, position |-> 0]
           p  == IF Split
                   THEN SeqWrite(start, Marker("PAYLOAD_START_MARKER"))
                   ELSE start
           w1 == IF Split THEN SeqWrite(start, Version) ELSE start
           w2 == IF prelude = <<>>
                   THEN w1
                   ELSE SeqWrite(w1, PreludeItem(prelude[1]))
           w3 == SeqWrite(w2, Entry(meta))
           root == EncoderState(0, w3.position, 0, 0, w3.position, p.position)
<1>1. /\ archive' = w3.out /\ payload' = p.out
      /\ state' = <<root>>
      /\ phase' = "open"
      /\ UNCHANGED <<file, result, links, promised, faults>>
  BY DEF New
<1>2. phase = "new" /\ ~file.open
  BY DEF New, IInv, TypeOK
<1>3. IsWriter(start) /\ start.out.len = 0 /\ start.position = 0
  BY DEF IsWriter, Stream, EmptyStream
<1> HIDE DEF start
<1>4. /\ IsWriter(p) /\ IsWriter(w1)
      /\ p.position = p.out.len /\ w1.position = w1.out.len
  <2>1. ASSUME NEW item, ItemOK(item)
        PROVE  LET w == SeqWrite(start, item) IN
               IsWriter(w) /\ w.position = w.out.len
    <3>1. Extends(start, SeqWrite(start, item))
      BY <1>3, <2>1, SeqWriteExtends
    <3> QED BY <1>3, <3>1 DEF Extends, IsWriter, Stream
  <2>2. /\ ItemOK(Version) /\ ItemOK(Marker("PAYLOAD_START_MARKER"))
    BY FixedItemsOK
  <2> QED BY <1>3, <2>1, <2>2
<1> HIDE DEF p, w1
<1>5. IsWriter(w2) /\ w2.position = w2.out.len
  <2>1. CASE prelude = <<>>
    BY <1>4, <2>1
  <2>2. CASE prelude # <<>>
    <3>1. prelude \in Seq(Nat)
      BY EncoderAssumption
    <3>2. prelude[1] \in Nat
      BY <2>2, <3>1
    <3>3. ItemOK(PreludeItem(prelude[1]))
      BY <3>2, SizedItemsOK
    <3>4. Extends(w1, w2)
      BY <1>4, <2>2, <3>3, SeqWriteExtends
    <3> HIDE DEF w2
    <3> QED BY <1>4, <3>4 DEF Extends, IsWriter, Stream
  <2> QED BY <2>1, <2>2
<1> HIDE DEF w2
<1>6. IsWriter(w3) /\ w3.position = w3.out.len
  <2>1. ItemOK(Entry(meta))
    <3>1. meta.attrs \in Nat /\ meta.kind \in FileKinds
      BY EncoderAssumption DEF Metadata
    <3> QED BY <3>1 DEF ItemOK, ItemTypes, Entry, HeaderSize, StatSize
  <2>2. Extends(w2, w3)
    BY <1>5, <2>1, SeqWriteExtends
  <2> HIDE DEF w3
  <2> QED BY <1>5, <2>2 DEF Extends, IsWriter, Stream
<1> HIDE DEF w3
<1>7. w3.position \in Nat /\ p.position \in Nat
  BY <1>4, <1>6 DEF IsWriter
<1>8. /\ root \in EncoderStates
      /\ root.write_position = w3.position
      /\ root.payload_write_position = p.position
      /\ root.entry_offset = 0 /\ root.file_offset = 0 /\ root.items = <<>>
  BY <1>7 DEF EncoderState, EncoderStates, EncodeErrors
<1> HIDE DEF root
<1>9. DirOK(root)
  BY <1>7, <1>8 DEF DirOK, BehindPosition
<1>10. /\ Len(state') = 1 /\ state'[1] = root /\ state' # <<>>
       /\ state' \in Seq(EncoderStates)
  BY <1>1, <1>8
<1>11. StackOK(state')
  BY <1>9, <1>10 DEF StackOK
<1>12. /\ Stream(archive') /\ Stream(payload')
       /\ file' \in FileImpls /\ ~file'.open
       /\ result' \in {"none", "ok", "incomplete", "io_error"}
       /\ links' \subseteq Nat /\ promised' \in Seq(PayloadRefs)
       /\ faults' \subseteq FaultKinds
  BY <1>1, <1>2, <1>4, <1>6 DEF IInv, TypeOK, FileImpls, IsWriter
<1>13. IInv'
  BY <1>1, <1>11, <1>12, StackStepKeeps
<1>14. Top' = root
  BY <1>10 DEF Top, Depth
<1> QED BY <1>1, <1>4, <1>6, <1>8, <1>13, <1>14 DEF PositionsTrackStreams

LEMMA InitEstablishes ==
  Init => IInv /\ PositionsTrackStreams
  BY DEF Init, IInv, TypeOK, NothingUnderflows, PositionsTrackStreams, Stream,
         EmptyStream, NoFile, GoodbyeItem, Depth

(* Every step keeps the inductive invariant, and with it the positions.     *)
LEMMA NextKeeps ==
  ASSUME IInv, [Next]_vars
  PROVE  IInv' /\ (PositionsTrackStreams => PositionsTrackStreams')
<1> DEFINE Goal == IInv' /\ (PositionsTrackStreams => PositionsTrackStreams')
<1> HIDE DEF Goal
<1> SUFFICES Goal
  BY DEF Goal
<1>1. ASSUME NEW meta \in Metas, NEW prelude \in Preludes, New(meta, prelude)
      PROVE  Goal
  BY <1>1, NewKeeps DEF Goal
<1>2. CASE FileCalls
  <2>1. PICK n \in Names, meta \in MetasOf("file"), size \in FileSizes :
          \/ CreateFile(n, meta, size)
          \/ CreateFileFails(n, meta, size)
          \/ \E got \in 0..size, returned \in BOOLEAN :
               AddFile(n, meta, size, got, returned)
    BY <1>2 DEF FileCalls
  <2>2. meta \in Metas
    BY DEF MetasOf
  <2>3. CASE CreateFile(n, meta, size)
    BY <2>2, <2>3, CreateFileKeeps DEF Goal
  <2>4. CASE CreateFileFails(n, meta, size)
    BY <2>2, <2>4, CreateFileFailsKeeps DEF Goal
  <2>5. ASSUME NEW got \in 0..size, NEW returned \in BOOLEAN,
               AddFile(n, meta, size, got, returned)
        PROVE  Goal
    BY <2>2, <2>5, AddFileKeeps DEF Goal
  <2> QED BY <2>1, <2>3, <2>4, <2>5
<1>3. CASE WriteCalls
  BY <1>3, WriteKeeps, DropFileKeeps DEF WriteCalls, Goal
<1>4. CASE RefCalls
  <2>1. CASE Advance
    BY <2>1, AdvanceKeeps DEF Goal
  <2>2. ASSUME NEW n \in Names, NEW meta \in MetasOf("file"),
               NEW ref \in KnownPayloads \cup NextPayloads,
               AddPayloadRef(n, meta, ref)
        PROVE  Goal
    <3>1. meta \in Metas
      BY DEF MetasOf
    <3> QED BY <2>2, <3>1, AddPayloadRefKeeps DEF Goal
  <2> QED BY <1>4, <2>1, <2>2 DEF RefCalls
<1>5. CASE EntryCalls
  <2>1. PICK n \in Names :
          \/ \E meta \in Metas :
               \/ AddDevice(n, meta)
               \/ AddFifo(n, meta)
               \/ AddSocket(n, meta)
               \/ CreateDirectory(n, meta)
          \/ \E meta \in MetasOf("symlink"), len \in TargetLens :
               AddSymlink(n, meta, len)
          \/ \E len \in TargetLens, target \in links :
               AddHardlink(n, len, target)
    BY <1>5 DEF EntryCalls
  <2>2. ASSUME NEW meta \in Metas,
               \/ AddDevice(n, meta)
               \/ AddFifo(n, meta)
               \/ AddSocket(n, meta)
        PROVE  Goal
    BY <2>2, AddEntryKeeps DEF Goal
  <2>3. ASSUME NEW meta \in Metas, CreateDirectory(n, meta)
        PROVE  Goal
    BY <2>3, CreateDirectoryKeeps DEF Goal
  <2>4. ASSUME NEW meta \in MetasOf("symlink"), NEW len \in TargetLens,
               AddSymlink(n, meta, len)
        PROVE  Goal
    <3>1. meta \in Metas
      BY DEF MetasOf
    <3> QED BY <2>4, <3>1, AddEntryKeeps DEF Goal
  <2>5. ASSUME NEW len \in TargetLens, NEW target \in links,
               AddHardlink(n, len, target)
        PROVE  Goal
    BY <2>5, AddHardlinkKeeps DEF Goal
  <2> QED BY <2>1, <2>2, <2>3, <2>4, <2>5
<1>6. CASE Finish
  BY <1>6, FinishKeeps DEF Goal
<1>7. CASE FinishFails
  BY <1>7, FinishFailsKeeps DEF Goal
<1>8. CASE Close
  BY <1>8, CloseKeeps DEF Goal
<1>9. CASE UNCHANGED vars
  BY <1>9 DEF vars, Goal, IInv, TypeOK, NothingUnderflows,
              PositionsTrackStreams, Top, Depth, Stream
<1> QED BY <1>1, <1>2, <1>3, <1>4, <1>5, <1>6, <1>7, <1>8, <1>9
        DEF Next, Terminated

(* The encoder keeps its types for every choice of constants: in particular  *)
(* none of the offsets and sizes it computes is negative.                    *)
THEOREM TypesAreKept == Spec => []TypeOK
<1>1. Init => IInv
  BY InitEstablishes
<1>2. IInv /\ [Next]_vars => IInv'
  BY NextKeeps
<1>3. IInv => TypeOK
  BY DEF IInv
<1> QED BY <1>1, <1>2, <1>3, PTL DEF Spec

(* No subtraction of finish_goodbye_table or finish underflows: everything a *)
(* directory has recorded lies behind the position it is subtracted from.    *)
THEOREM OffsetsStayBehind == Spec => []NothingUnderflows
<1>1. Init => IInv
  BY InitEstablishes
<1>2. IInv /\ [Next]_vars => IInv'
  BY NextKeeps
<1>3. IInv => NothingUnderflows
  BY DEF IInv
<1> QED BY <1>1, <1>2, <1>3, PTL DEF Spec

(* The positions the encoder tracks are the lengths of its streams at any    *)
(* time, unless writing a goodbye table failed.                             *)
THEOREM PositionsAreTracked == Spec => []PositionsTrackStreams
<1>1. Init => IInv /\ PositionsTrackStreams
  BY InitEstablishes
<1>2. IInv /\ PositionsTrackStreams /\ [Next]_vars
        => IInv' /\ PositionsTrackStreams'
  BY NextKeeps
<1> QED BY <1>1, <1>2, PTL DEF Spec
=============================================================================
