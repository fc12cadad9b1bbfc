------------------------ MODULE EncoderOffsetsProofs ------------------------
(***************************************************************************)
(* Every offset an archive holds leads where it should: the rows and tails  *)
(* of goodbye tables, hardlinks and payload references, for every choice of *)
(* names, hashes, metadata, sizes, bounds and failures.  Rows, tails and    *)
(* hardlinks are written long after what they lead to, from offsets the     *)
(* encoder remembered meanwhile, so the invariant is about those as well.   *)
(***************************************************************************)
EXTENDS PxarEncoderProofs

-----------------------------------------------------------------------------
(***************************************************************************)
(* Where an offset leads, in a set of cells.                               *)
(***************************************************************************)
NameLeads(cells, offset, hash) ==
  \E c \in cells :
    c.at = offset /\ c.item.htype = "FILENAME" /\ HashOf[c.item.name] = hash

EntryLeads(cells, offset) ==
  \E c \in cells : c.at = offset /\ c.item.htype = "ENTRY"

FileLeads(cells, offset) ==
  \E target, entry \in cells :
    /\ target.at = offset /\ target.item.htype = "FILENAME"
    /\ entry.at = target.at + target.item.size
    /\ entry.item.htype = "ENTRY" /\ entry.item.kind = "file"

RowsLead(cells, g) ==
  \A i \in 1..Len(g.item.rows) :
    /\ g.item.rows[i].offset <= g.at
    /\ NameLeads(cells, g.at - g.item.rows[i].offset, g.item.rows[i].hash)

TailLeads(cells, g) ==
  /\ g.item.tail.size = g.item.size
  /\ \/ EntryLeads(cells, g.at - g.item.tail.offset)
     \/ Split /\ g.item.tail.offset = g.at

HardlinkLeads(cells, c) ==
  \E own, target, entry \in cells :
    /\ own.item.htype = "FILENAME" /\ own.at + own.item.size = c.at
    /\ target.item.htype = "FILENAME"
    /\ target.at = c.item.target
    /\ target.at + c.item.offset = own.at
    /\ entry.item.htype = "ENTRY" /\ entry.item.kind = "file"
    /\ entry.at = target.at + target.item.size

CellLeads(cells, c) ==
  /\ c.item.htype = "GOODBYE" => RowsLead(cells, c) /\ TailLeads(cells, c)
  /\ c.item.htype = "HARDLINK" => HardlinkLeads(cells, c)

(* A payload reference leads into the payload stream or is a promise.       *)
PayloadAtOffset(payloads, ref) ==
  \E x \in payloads :
    /\ x.item.htype = "PAYLOAD"
    /\ x.at = ref.offset /\ x.item.content = ref.content

Promise(promises, ref) ==
  /\ promises # <<>>
  /\ promises[1].offset = ref.offset /\ promises[1].content = ref.content

RefLeads(payloads, promises, c) ==
  c.item.htype = "PAYLOAD_REF" =>
    PayloadAtOffset(payloads, c.item) \/ Promise(promises, c.item)

-----------------------------------------------------------------------------
(***************************************************************************)
(* Directories as brackets: the ENTRY of a directory opens it, its goodbye  *)
(* table closes it, and meanwhile it is on the stack.                       *)
(***************************************************************************)
Dirs(cells) == {c \in cells : c.item.htype = "ENTRY" /\ c.item.kind = "dir"}

GoodbyesOf(cells) == {c \in cells : c.item.htype = "GOODBYE"}

FirstEntry(cells, e) ==
  \A x \in cells : x.item.htype = "ENTRY" => e.at <= x.at

EndsDir(cells, g, e) ==
  \/ g.item.tail.offset + e.at = g.at
  \/ Split /\ g.item.tail.offset = g.at /\ FirstEntry(cells, e)

BegunBy(cells, st, e) ==
  \/ st.entry_offset = e.at
  \/ Split /\ st.entry_offset = 0 /\ FirstEntry(cells, e)

(* All that lies between the ENTRY e and offset "at" is closed there.        *)
Nested(cells, e, at) ==
  /\ e.at < at
  /\ \A x \in Dirs(cells) : e.at < x.at /\ x.at < at =>
       \E h \in GoodbyesOf(cells) :
         x.at < h.at /\ h.at < at /\ EndsDir(cells, h, x)
  /\ \A h \in GoodbyesOf(cells) : e.at < h.at /\ h.at < at =>
       \E x \in Dirs(cells) : e.at < x.at /\ EndsDir(cells, h, x)

TablesClose(cells) ==
  \A g \in GoodbyesOf(cells) :
    \E e \in Dirs(cells) : EndsDir(cells, g, e) /\ Nested(cells, e, g.at)

(* e opened the d-th directory of the stack: what began behind it has been   *)
(* closed or is further up, and nothing else is further up.                 *)
HoldsOpen(cells, s, d, e) ==
  /\ BegunBy(cells, s[d], e)
  /\ \A h \in GoodbyesOf(cells) : e.at < h.at =>
       \E x \in Dirs(cells) : e.at < x.at /\ EndsDir(cells, h, x)
  /\ \A x \in Dirs(cells) : e.at < x.at =>
       \/ \E h \in GoodbyesOf(cells) : x.at < h.at /\ EndsDir(cells, h, x)
       \/ \E k \in d + 1..Len(s) : BegunBy(cells, s[k], x)
  /\ \A k \in d + 1..Len(s) :
       \E x \in Dirs(cells) : e.at < x.at /\ BegunBy(cells, s[k], x)

Brackets(cells, s) ==
  /\ TablesClose(cells)
  /\ \A d \in 1..Len(s) : \E e \in Dirs(cells) : HoldsOpen(cells, s, d, e)

-----------------------------------------------------------------------------
(***************************************************************************)
(* The invariant.                                                          *)
(***************************************************************************)
ItemsLead(cells, items) ==
  \A i \in 1..Len(items) : NameLeads(cells, items[i].offset, items[i].hash)

(* What a directory remembers; the root, d = 1, has no FILENAME.            *)
DirLeads(cells, d, st) ==
  /\ ItemsLead(cells, st.items)
  /\ d > 1 => NameLeads(cells, st.file_offset, st.file_hash)
  /\ EntryLeads(cells, st.entry_offset) \/ (Split /\ st.entry_offset = 0)

StackLeads(cells, s) == \A d \in 1..Len(s) : DirLeads(cells, d, s[d])

(* The layout of a table is given up to MaxItems rows: an outer directory    *)
(* has still to list the inner one, a directory its open file.              *)
StackHasRoom(s) ==
  /\ \A d \in 1..Len(s) : Len(s[d].items) <= MaxItems
  /\ \A d \in 1..Len(s) - 1 : Len(s[d].items) < MaxItems

OpenFileLeads ==
  file.open =>
    /\ NameLeads(archive.cells, file.item.offset, file.item.hash)
    /\ Len(Top.items) < MaxItems
    /\ promised = <<>>

(* A promise is about what the payload stream continues with.               *)
PromiseHolds ==
  promised # <<>> /\ state # <<>> =>
    promised[1].offset = Top.payload_write_position

NothingYet == phase = "new" => links = {} /\ promised = <<>>

OffsetsLead ==
  /\ StackLeads(archive.cells, state)
  /\ StackHasRoom(state)
  /\ Brackets(archive.cells, state)
  /\ OpenFileLeads
  /\ PromiseHolds
  /\ NothingYet
  /\ \A l \in links : FileLeads(archive.cells, l)
  /\ \A c \in archive.cells : CellLeads(archive.cells, c)
  /\ \A c \in archive.cells : RefLeads(payload.cells, promised, c)

OInv ==
  /\ IInv
  /\ PositionsTrackStreams
  /\ "finish" \notin faults => OffsetsLead

-----------------------------------------------------------------------------
(***************************************************************************)
(* What leads somewhere still does when the stream has grown.               *)
(***************************************************************************)
LEMMA LeadsMore ==
  ASSUME NEW cells, NEW more, cells \subseteq more
  PROVE  /\ \A offset, hash :
              NameLeads(cells, offset, hash) => NameLeads(more, offset, hash)
         /\ \A offset : EntryLeads(cells, offset) => EntryLeads(more, offset)
         /\ \A offset : FileLeads(cells, offset) => FileLeads(more, offset)
<1>1. \A offset, hash :
        NameLeads(cells, offset, hash) => NameLeads(more, offset, hash)
  BY DEF NameLeads
<1>2. \A offset : EntryLeads(cells, offset) => EntryLeads(more, offset)
  BY DEF EntryLeads
<1>3. \A offset : FileLeads(cells, offset) => FileLeads(more, offset)
  BY DEF FileLeads
<1> QED BY <1>1, <1>2, <1>3

LEMMA CellLeadsMore ==
  ASSUME NEW cells, NEW more, cells \subseteq more,
         NEW c, CellLeads(cells, c)
  PROVE  CellLeads(more, c)
<1>1. /\ \A offset, hash :
            NameLeads(cells, offset, hash) => NameLeads(more, offset, hash)
      /\ \A offset : EntryLeads(cells, offset) => EntryLeads(more, offset)
  BY LeadsMore
<1>2. RowsLead(cells, c) => RowsLead(more, c)
  <2> SUFFICES ASSUME RowsLead(cells, c), NEW i \in 1..Len(c.item.rows)
               PROVE  /\ c.item.rows[i].offset <= c.at
                      /\ NameLeads(more, c.at - c.item.rows[i].offset,
                                   c.item.rows[i].hash)
    BY DEF RowsLead
  <2>1. /\ c.item.rows[i].offset <= c.at
        /\ NameLeads(cells, c.at - c.item.rows[i].offset, c.item.rows[i].hash)
    BY DEF RowsLead
  <2> QED BY <1>1, <2>1
<1>3. TailLeads(cells, c) => TailLeads(more, c)
  BY <1>1 DEF TailLeads
<1>4. HardlinkLeads(cells, c) => HardlinkLeads(more, c)
  BY DEF HardlinkLeads
<1> QED BY <1>2, <1>3, <1>4 DEF CellLeads

LEMMA DirLeadsMore ==
  ASSUME NEW cells, NEW more, cells \subseteq more,
         NEW d, NEW st, DirLeads(cells, d, st)
  PROVE  DirLeads(more, d, st)
<1>1. /\ \A offset, hash :
            NameLeads(cells, offset, hash) => NameLeads(more, offset, hash)
      /\ \A offset : EntryLeads(cells, offset) => EntryLeads(more, offset)
  BY LeadsMore
<1> QED BY <1>1 DEF DirLeads, ItemsLead

-----------------------------------------------------------------------------
(***************************************************************************)
(* Brackets stay matched as the archive grows.                              *)
(***************************************************************************)

(* The stream s became "more" cells, all of the new ones behind its end.     *)
GrownTo(s, more) ==
  /\ Stream(s)
  /\ s.cells \subseteq more
  /\ \A c \in more \ s.cells : c.at \in Nat /\ s.len <= c.at

LEMMA BeginsBefore ==
  ASSUME NEW s, Stream(s), NEW c \in s.cells,
         c.item.htype \in {"ENTRY", "GOODBYE"}
  PROVE  c.at \in Nat /\ s.len \in Nat /\ c.at < s.len
<1>1. /\ c.at \in Nat /\ s.len \in Nat /\ c.item.size \in Nat
      /\ c.item.size >= HeaderSize /\ c.at + c.item.size <= s.len
  BY DEF Stream, ItemOK
<1> QED BY <1>1 DEF HeaderSize

LEMMA ClosesMore ==
  ASSUME NEW s, NEW more, GrownTo(s, more), NEW x \in Dirs(s.cells)
  PROVE  /\ x \in Dirs(more)
         /\ \A h : EndsDir(s.cells, h, x) => EndsDir(more, h, x)
         /\ \A st : BegunBy(s.cells, st, x) => BegunBy(more, st, x)
<1>1. x \in Dirs(more) /\ x \in s.cells /\ x.item.htype = "ENTRY"
  BY DEF Dirs, GrownTo
<1>2. x.at \in Nat /\ s.len \in Nat /\ x.at < s.len
  BY <1>1, BeginsBefore DEF GrownTo
<1>3. FirstEntry(s.cells, x) => FirstEntry(more, x)
  <2> SUFFICES ASSUME FirstEntry(s.cells, x),
                      NEW y \in more, y.item.htype = "ENTRY"
               PROVE  x.at <= y.at
    BY DEF FirstEntry
  <2>1. CASE y \in s.cells
    BY <2>1 DEF FirstEntry
  <2>2. CASE y \notin s.cells
    <3>1. y.at \in Nat /\ s.len <= y.at
      BY <2>2 DEF GrownTo
    <3> QED BY <1>2, <3>1
  <2> QED BY <2>1, <2>2
<1> QED BY <1>1, <1>3 DEF EndsDir, BegunBy

LEMMA BalancedMore ==
  ASSUME NEW s, NEW more, GrownTo(s, more), NEW e \in Dirs(s.cells),
         NEW at \in Nat, at <= s.len, Nested(s.cells, e, at)
  PROVE  Nested(more, e, at)
<1>1. s.len \in Nat /\ s.cells \subseteq more
  BY DEF GrownTo, Stream
<1>2. ASSUME NEW c \in more, c.at < at
      PROVE  c \in s.cells
  <2>1. CASE c \notin s.cells
    <3>1. c.at \in Nat /\ s.len <= c.at
      BY <2>1 DEF GrownTo
    <3> QED BY <1>1, <1>2, <3>1
  <2> QED BY <2>1
<1>3. ASSUME NEW x \in Dirs(more), e.at < x.at, x.at < at
      PROVE  \E h \in GoodbyesOf(more) :
               x.at < h.at /\ h.at < at /\ EndsDir(more, h, x)
  <2>1. x \in Dirs(s.cells)
    BY <1>2, <1>3 DEF Dirs
  <2>2. PICK h \in GoodbyesOf(s.cells) :
          x.at < h.at /\ h.at < at /\ EndsDir(s.cells, h, x)
    BY <1>3, <2>1 DEF Nested
  <2>3. h \in GoodbyesOf(more) /\ EndsDir(more, h, x)
    BY <1>1, <2>1, <2>2, ClosesMore DEF GoodbyesOf
  <2> QED BY <2>2, <2>3
<1>4. ASSUME NEW h \in GoodbyesOf(more), e.at < h.at, h.at < at
      PROVE  \E x \in Dirs(more) : e.at < x.at /\ EndsDir(more, h, x)
  <2>1. h \in GoodbyesOf(s.cells)
    BY <1>2, <1>4 DEF GoodbyesOf
  <2>2. PICK x \in Dirs(s.cells) : e.at < x.at /\ EndsDir(s.cells, h, x)
    BY <1>4, <2>1 DEF Nested
  <2>3. x \in Dirs(more) /\ EndsDir(more, h, x)
    BY <2>2, ClosesMore
  <2> QED BY <2>2, <2>3
<1> QED BY <1>3, <1>4 DEF Nested

LEMMA TableClosesMore ==
  ASSUME NEW s, NEW more, GrownTo(s, more), TablesClose(s.cells),
         NEW g \in GoodbyesOf(s.cells)
  PROVE  \E e \in Dirs(more) : EndsDir(more, g, e) /\ Nested(more, e, g.at)
<1>1. PICK e \in Dirs(s.cells) :
        EndsDir(s.cells, g, e) /\ Nested(s.cells, e, g.at)
  BY DEF TablesClose
<1>2. g.at \in Nat /\ s.len \in Nat /\ g.at < s.len
  BY BeginsBefore DEF GrownTo, GoodbyesOf
<1>3. g.at <= s.len
  BY <1>2
<1>4. Nested(more, e, g.at)
  BY <1>1, <1>2, <1>3, BalancedMore
<1>5. e \in Dirs(more) /\ EndsDir(more, g, e)
  BY <1>1, ClosesMore
<1> QED BY <1>4, <1>5

(* Neither begins nor ends a directory.                                     *)
Calm(item) ==
  item.htype # "GOODBYE" /\ ~(item.htype = "ENTRY" /\ item.kind = "dir")

(* A step that neither enters nor leaves a directory.                       *)
LEMMA CalmKeepsBrackets ==
  ASSUME NEW s, NEW more, GrownTo(s, more),
         \A c \in more \ s.cells : Calm(c.item),
         NEW old, NEW new, Brackets(s.cells, old), Len(new) = Len(old),
         \A d \in 1..Len(old) : new[d].entry_offset = old[d].entry_offset,
         Len(old) \in Nat
  PROVE  Brackets(more, new)
<1>1. s.cells \subseteq more
  BY DEF GrownTo
<1>2. Dirs(more) = Dirs(s.cells) /\ GoodbyesOf(more) = GoodbyesOf(s.cells)
  BY <1>1 DEF Dirs, GoodbyesOf, Calm
<1>3. TablesClose(more)
  BY <1>2, TableClosesMore DEF Brackets, TablesClose
<1>4. ASSUME NEW d \in 1..Len(old), NEW x \in Dirs(s.cells),
             BegunBy(s.cells, old[d], x)
      PROVE  BegunBy(more, new[d], x)
  <2>1. BegunBy(more, old[d], x)
    BY <1>4, ClosesMore
  <2> QED BY <2>1 DEF BegunBy
<1>5. ASSUME NEW d \in 1..Len(new)
      PROVE  \E e \in Dirs(more) : HoldsOpen(more, new, d, e)
  <2>1. PICK e \in Dirs(s.cells) : HoldsOpen(s.cells, old, d, e)
    BY <1>5 DEF Brackets
  <2>2. \A k \in d + 1..Len(new) : k \in 1..Len(old)
    OBVIOUS
  <2>3. BegunBy(more, new[d], e)
    BY <1>4, <2>1 DEF HoldsOpen
  <2>4. ASSUME NEW h \in GoodbyesOf(more), e.at < h.at
        PROVE  \E x \in Dirs(more) : e.at < x.at /\ EndsDir(more, h, x)
    <3>1. PICK x \in Dirs(s.cells) : e.at < x.at /\ EndsDir(s.cells, h, x)
      BY <1>2, <2>1, <2>4 DEF HoldsOpen
    <3> QED BY <3>1, ClosesMore
  <2>5. ASSUME NEW x \in Dirs(more), e.at < x.at
        PROVE  \/ \E h \in GoodbyesOf(more) :
                    x.at < h.at /\ EndsDir(more, h, x)
               \/ \E k \in d + 1..Len(new) : BegunBy(more, new[k], x)
    <3>1. \/ \E h \in GoodbyesOf(s.cells) :
               x.at < h.at /\ EndsDir(s.cells, h, x)
          \/ \E k \in d + 1..Len(old) : BegunBy(s.cells, old[k], x)
      BY <1>2, <2>1, <2>5 DEF HoldsOpen
    <3>2. ASSUME NEW h \in GoodbyesOf(s.cells), x.at < h.at,
                 EndsDir(s.cells, h, x)
          PROVE  h \in GoodbyesOf(more) /\ EndsDir(more, h, x)
      BY <1>2, <3>2, ClosesMore
    <3>3. ASSUME NEW k \in d + 1..Len(old), BegunBy(s.cells, old[k], x)
          PROVE  BegunBy(more, new[k], x)
      BY <1>2, <1>4, <2>2, <3>3
    <3> QED BY <3>1, <3>2, <3>3
  <2>6. ASSUME NEW k \in d + 1..Len(new)
        PROVE  \E x \in Dirs(more) : e.at < x.at /\ BegunBy(more, new[k], x)
    <3>1. PICK x \in Dirs(s.cells) : e.at < x.at /\ BegunBy(s.cells, old[k], x)
      BY <2>1, <2>6 DEF HoldsOpen
    <3>2. BegunBy(more, new[k], x)
      BY <1>4, <2>2, <3>1
    <3> QED BY <1>2, <3>1, <3>2
  <2>7. HoldsOpen(more, new, d, e)
    BY <2>3, <2>4, <2>5, <2>6 DEF HoldsOpen
  <2> QED BY <1>2, <2>7
<1> QED BY <1>3, <1>5 DEF Brackets

(* A step that enters the directory which e begins, the root included.       *)
LEMMA EnterKeepsBrackets ==
  ASSUME NEW s, NEW more, GrownTo(s, more),
         NEW e \in Dirs(more), e.at \in Nat, s.len <= e.at,
         \A c \in more \ s.cells : c = e \/ Calm(c.item),
         NEW old, NEW new, Brackets(s.cells, old),
         Len(old) \in Nat, Len(new) = Len(old) + 1,
         \A d \in 1..Len(old) : new[d].entry_offset = old[d].entry_offset,
         BegunBy(more, new[Len(new)], e)
  PROVE  Brackets(more, new)
<1>1. s.cells \subseteq more /\ s.len \in Nat
  BY DEF GrownTo, Stream
<1>2. /\ Dirs(s.cells) \subseteq Dirs(more)
      /\ \A x \in Dirs(more) : x = e \/ x \in Dirs(s.cells)
  BY <1>1 DEF Dirs, Calm
<1>3. GoodbyesOf(more) = GoodbyesOf(s.cells)
  BY <1>1 DEF GoodbyesOf, Dirs, Calm
<1>4. TablesClose(more)
  BY <1>3, TableClosesMore DEF Brackets, TablesClose
<1>5. ASSUME NEW x \in Dirs(s.cells)
      PROVE  x.at \in Nat /\ x.at < e.at
  <2>1. x.at \in Nat /\ x.at < s.len
    BY BeginsBefore DEF GrownTo, Dirs
  <2> QED BY <1>1, <2>1
<1>6. ASSUME NEW h \in GoodbyesOf(more)
      PROVE  h.at \in Nat /\ h.at < e.at
  <2>1. h.at \in Nat /\ h.at < s.len
    BY <1>3, BeginsBefore DEF GrownTo, GoodbyesOf
  <2> QED BY <1>1, <2>1
<1>7. ASSUME NEW d \in 1..Len(old), NEW x \in Dirs(s.cells),
             BegunBy(s.cells, old[d], x)
      PROVE  BegunBy(more, new[d], x)
  <2>1. BegunBy(more, old[d], x)
    BY <1>7, ClosesMore
  <2> QED BY <2>1 DEF BegunBy
<1>8. ASSUME NEW d \in 1..Len(old)
      PROVE  \E y \in Dirs(more) : HoldsOpen(more, new, d, y)
  <2>1. PICK y \in Dirs(s.cells) : HoldsOpen(s.cells, old, d, y)
    BY <1>8 DEF Brackets
  <2>2. ASSUME NEW k \in d + 1..Len(new)
        PROVE  k \in 1..Len(old) \/ k = Len(new)
    <3>1. k \in Int /\ 1 <= k /\ k <= Len(old) + 1
      OBVIOUS
    <3>2. k = Len(old) + 1 \/ k <= Len(old)
      BY <3>1
    <3> QED BY <3>1, <3>2
  <2>3. \A k \in d + 1..Len(old) : k \in 1..Len(old) /\ k \in d + 1..Len(new)
    OBVIOUS
  <2>4. BegunBy(more, new[d], y)
    BY <1>7, <2>1 DEF HoldsOpen
  <2>5. ASSUME NEW h \in GoodbyesOf(more), y.at < h.at
        PROVE  \E x \in Dirs(more) : y.at < x.at /\ EndsDir(more, h, x)
    <3>1. PICK x \in Dirs(s.cells) : y.at < x.at /\ EndsDir(s.cells, h, x)
      BY <1>3, <2>1, <2>5 DEF HoldsOpen
    <3> QED BY <3>1, ClosesMore
  <2>6. ASSUME NEW x \in Dirs(more), y.at < x.at
        PROVE  \/ \E h \in GoodbyesOf(more) :
                    x.at < h.at /\ EndsDir(more, h, x)
               \/ \E k \in d + 1..Len(new) : BegunBy(more, new[k], x)
    <3>1. CASE x = e
      BY <3>1
    <3>2. CASE x \in Dirs(s.cells)
      <4>1. \/ \E h \in GoodbyesOf(s.cells) :
                 x.at < h.at /\ EndsDir(s.cells, h, x)
            \/ \E k \in d + 1..Len(old) : BegunBy(s.cells, old[k], x)
        BY <2>1, <2>6, <3>2 DEF HoldsOpen
      <4>2. ASSUME NEW h \in GoodbyesOf(s.cells), x.at < h.at,
                   EndsDir(s.cells, h, x)
            PROVE  h \in GoodbyesOf(more) /\ EndsDir(more, h, x)
        BY <1>3, <3>2, <4>2, ClosesMore
      <4>3. ASSUME NEW k \in d + 1..Len(old), BegunBy(s.cells, old[k], x)
            PROVE  k \in d + 1..Len(new) /\ BegunBy(more, new[k], x)
        BY <1>7, <2>3, <3>2, <4>3
      <4> QED BY <4>1, <4>2, <4>3
    <3> QED BY <1>2, <3>1, <3>2
  <2>7. ASSUME NEW k \in d + 1..Len(new)
        PROVE  \E x \in Dirs(more) : y.at < x.at /\ BegunBy(more, new[k], x)
    <3>1. CASE k = Len(new)
      BY <1>5, <3>1
    <3>2. CASE k \in 1..Len(old)
      <4>1. k \in d + 1..Len(old)
        BY <3>2
      <4>2. PICK x \in Dirs(s.cells) :
              y.at < x.at /\ BegunBy(s.cells, old[k], x)
        BY <2>1, <4>1 DEF HoldsOpen
      <4>3. BegunBy(more, new[k], x)
        BY <1>7, <3>2, <4>2
      <4> QED BY <1>2, <4>2, <4>3
    <3> QED BY <2>2, <3>1, <3>2
  <2>8. HoldsOpen(more, new, d, y)
    BY <2>4, <2>5, <2>6, <2>7 DEF HoldsOpen
  <2> QED BY <1>2, <2>8
<1>9. HoldsOpen(more, new, Len(new), e)
  <2>1. Len(new) + 1..Len(new) = {}
    OBVIOUS
  <2>2. \A h \in GoodbyesOf(more) : ~(e.at < h.at)
    BY <1>6
  <2>3. \A x \in Dirs(more) : ~(e.at < x.at)
    BY <1>2, <1>5
  <2> QED BY <2>1, <2>2, <2>3 DEF HoldsOpen
<1>10. \A d \in 1..Len(new) : d \in 1..Len(old) \/ d = Len(new)
  OBVIOUS
<1> QED BY <1>4, <1>8, <1>9, <1>10 DEF Brackets

(* A step that leaves the current directory and writes its table, g.         *)
LEMMA LeaveKeepsBrackets ==
  ASSUME NEW s, NEW g, GrownTo(s, s.cells \cup {g}),
         g.item.htype = "GOODBYE", g.at = s.len,
         NEW old, NEW new, Brackets(s.cells, old),
         Len(old) \in Nat \ {0}, Len(new) = Len(old) - 1,
         \A d \in 1..Len(new) : new[d].entry_offset = old[d].entry_offset,
         old[Len(old)].entry_offset \in Nat,
         old[Len(old)].entry_offset <= s.len,
         g.item.tail.offset = s.len - old[Len(old)].entry_offset
  PROVE  Brackets(s.cells \cup {g}, new)
<1> DEFINE more == s.cells \cup {g}
           top == old[Len(old)]
<1>1. s.len \in Nat /\ g.at \in Nat
  BY DEF GrownTo, Stream
<1>2. /\ Dirs(more) = Dirs(s.cells)
      /\ GoodbyesOf(more) = GoodbyesOf(s.cells) \cup {g}
  BY DEF Dirs, GoodbyesOf
<1>3. \A x \in Dirs(s.cells) : x.at \in Nat /\ x.at < g.at
  BY BeginsBefore DEF GrownTo, Dirs
<1>4. \A h \in GoodbyesOf(s.cells) : h.at \in Nat /\ h.at < g.at
  BY BeginsBefore DEF GrownTo, GoodbyesOf
<1>5. GrownTo(s, more)
  OBVIOUS
<1> HIDE DEF more
<1>6. ASSUME NEW x \in Dirs(s.cells), BegunBy(s.cells, top, x)
      PROVE  EndsDir(more, g, x)
  <2>1. BegunBy(more, top, x)
    BY <1>5, <1>6, ClosesMore
  <2>2. CASE top.entry_offset = x.at
    BY <1>1, <2>2 DEF EndsDir
  <2>3. CASE Split /\ top.entry_offset = 0 /\ FirstEntry(more, x)
    BY <1>1, <2>3 DEF EndsDir
  <2> QED BY <2>1, <2>2, <2>3 DEF BegunBy
<1>7. \E e \in Dirs(more) : EndsDir(more, g, e) /\ Nested(more, e, g.at)
  <2>1. PICK e \in Dirs(s.cells) : HoldsOpen(s.cells, old, Len(old), e)
    BY DEF Brackets
  <2>2. Len(old) + 1..Len(old) = {}
    OBVIOUS
  <2>3. EndsDir(more, g, e)
    BY <1>6, <2>1 DEF HoldsOpen
  <2>4. ASSUME NEW x \in Dirs(more), e.at < x.at
        PROVE  \E h \in GoodbyesOf(more) :
                 x.at < h.at /\ h.at < g.at /\ EndsDir(more, h, x)
    <3>1. PICK h \in GoodbyesOf(s.cells) :
            x.at < h.at /\ EndsDir(s.cells, h, x)
      BY <1>2, <2>1, <2>2, <2>4 DEF HoldsOpen
    <3>2. EndsDir(more, h, x)
      BY <1>2, <1>5, <3>1, ClosesMore
    <3> QED BY <1>2, <1>4, <3>1, <3>2
  <2>5. ASSUME NEW h \in GoodbyesOf(more), e.at < h.at, h.at < g.at
        PROVE  \E x \in Dirs(more) : e.at < x.at /\ EndsDir(more, h, x)
    <3>1. h \in GoodbyesOf(s.cells)
      BY <1>1, <1>2, <2>5
    <3>2. PICK x \in Dirs(s.cells) : e.at < x.at /\ EndsDir(s.cells, h, x)
      BY <2>1, <2>5, <3>1 DEF HoldsOpen
    <3> QED BY <1>5, <3>2, ClosesMore
  <2>6. Nested(more, e, g.at)
    BY <1>3, <2>4, <2>5 DEF Nested
  <2> QED BY <1>2, <2>3, <2>6
<1>8. TablesClose(more)
  BY <1>2, <1>5, <1>7, TableClosesMore DEF Brackets, TablesClose
<1>9. ASSUME NEW d \in 1..Len(new)
      PROVE  \E e \in Dirs(more) : HoldsOpen(more, new, d, e)
  <2>1. d \in 1..Len(old) /\ Len(old) \in d + 1..Len(old)
    OBVIOUS
  <2>2. PICK e \in Dirs(s.cells) : HoldsOpen(s.cells, old, d, e)
    BY <2>1 DEF Brackets
  <2>3. \A k \in d + 1..Len(new) : k \in 1..Len(new) /\ k \in d + 1..Len(old)
    OBVIOUS
  <2>4. ASSUME NEW k \in d + 1..Len(old)
        PROVE  k = Len(old) \/ k \in d + 1..Len(new)
    <3>1. /\ k \in Int /\ d \in Int /\ d + 1 <= k /\ k <= Len(old)
          /\ Len(new) + 1 = Len(old)
      OBVIOUS
    <3> QED BY <3>1
  <2>5. ASSUME NEW k \in 1..Len(new), NEW x \in Dirs(s.cells),
               BegunBy(s.cells, old[k], x)
        PROVE  BegunBy(more, new[k], x)
    <3>1. BegunBy(more, old[k], x)
      BY <1>5, <2>5, ClosesMore
    <3> QED BY <3>1 DEF BegunBy
  <2>6. BegunBy(more, new[d], e)
    BY <2>2, <2>5 DEF HoldsOpen
  <2>7. ASSUME NEW h \in GoodbyesOf(more), e.at < h.at
        PROVE  \E x \in Dirs(more) : e.at < x.at /\ EndsDir(more, h, x)
    <3>1. CASE h = g
      <4>1. PICK x \in Dirs(s.cells) : e.at < x.at /\ BegunBy(s.cells, top, x)
        BY <2>1, <2>2 DEF HoldsOpen
      <4> QED BY <1>2, <1>6, <3>1, <4>1
    <3>2. CASE h \in GoodbyesOf(s.cells)
      <4>1. PICK x \in Dirs(s.cells) : e.at < x.at /\ EndsDir(s.cells, h, x)
        BY <2>2, <2>7, <3>2 DEF HoldsOpen
      <4> QED BY <1>5, <4>1, ClosesMore
    <3> QED BY <1>2, <3>1, <3>2
  <2>8. ASSUME NEW x \in Dirs(more), e.at < x.at
        PROVE  \/ \E h \in GoodbyesOf(more) :
                    x.at < h.at /\ EndsDir(more, h, x)
               \/ \E k \in d + 1..Len(new) : BegunBy(more, new[k], x)
    <3>1. \/ \E h \in GoodbyesOf(s.cells) :
               x.at < h.at /\ EndsDir(s.cells, h, x)
          \/ \E k \in d + 1..Len(old) : BegunBy(s.cells, old[k], x)
      BY <1>2, <2>2, <2>8 DEF HoldsOpen
    <3>2. ASSUME NEW h \in GoodbyesOf(s.cells), x.at < h.at,
                 EndsDir(s.cells, h, x)
          PROVE  h \in GoodbyesOf(more) /\ EndsDir(more, h, x)
      BY <1>2, <1>5, <3>2, ClosesMore
    <3>3. ASSUME BegunBy(s.cells, top, x)
          PROVE  g \in GoodbyesOf(more) /\ x.at < g.at /\ EndsDir(more, g, x)
      BY <1>2, <1>3, <1>6, <3>3
    <3>4. ASSUME NEW k \in d + 1..Len(new), BegunBy(s.cells, old[k], x)
          PROVE  BegunBy(more, new[k], x)
      BY <1>2, <2>3, <2>5, <3>4
    <3> QED BY <2>4, <3>1, <3>2, <3>3, <3>4
  <2>9. ASSUME NEW k \in d + 1..Len(new)
        PROVE  \E x \in Dirs(more) : e.at < x.at /\ BegunBy(more, new[k], x)
    <3>1. PICK x \in Dirs(s.cells) : e.at < x.at /\ BegunBy(s.cells, old[k], x)
      BY <2>2, <2>3 DEF HoldsOpen
    <3> QED BY <1>2, <2>3, <2>5, <3>1
  <2>10. HoldsOpen(more, new, d, e)
    BY <2>6, <2>7, <2>8, <2>9 DEF HoldsOpen
  <2> QED BY <1>2, <2>10
<1> QED BY <1>8, <1>9 DEF Brackets, more

-----------------------------------------------------------------------------
(***************************************************************************)
(* Writing.                                                                *)
(***************************************************************************)

(* v is w with nothing added that holds an offset or begins a directory.     *)
PlainItem(item) == Calm(item) /\ item.htype \notin {"HARDLINK", "PAYLOAD_REF"}

Plainly(w, v) == \A c \in v.out.cells \ w.out.cells : PlainItem(c.item)

LEMMA SeqWriteCells ==
  ASSUME NEW w, NEW item
  PROVE  /\ SeqWrite(w, item).out.cells
              = w.out.cells \cup {[at |-> w.out.len, item |-> item]}
         /\ SeqWrite(w, item).out.len = w.out.len + item.size
         /\ SeqWrite(w, item).position = w.position + item.size
  BY DEF SeqWrite, Append1

LEMMA PlainlyWritten ==
  ASSUME NEW w, NEW item, PlainItem(item)
  PROVE  Plainly(w, SeqWrite(w, item))
  BY SeqWriteCells DEF Plainly

LEMMA PlainlyData ==
  ASSUME NEW w, NEW k
  PROVE  Plainly(w, SeqWriteData(w, k))
<1>1. PlainItem(Data(k))
  BY DEF PlainItem, Calm, Data
<1>2. Plainly(w, SeqWrite(w, Data(k)))
  BY <1>1, PlainlyWritten
<1>3. Plainly(w, w)
  BY DEF Plainly
<1> QED BY <1>2, <1>3 DEF SeqWriteData

LEMMA PlainlyTransitive ==
  ASSUME NEW u, NEW v, NEW w, Plainly(u, v), Plainly(v, w)
  PROVE  Plainly(u, w)
  BY DEF Plainly

(* A call cut short adds nothing of its own, and never its last item.       *)
LEMMA CutCells ==
  ASSUME NEW w, NEW full, NEW cut \in Interrupted(w, full)
  PROVE  cut.out.cells \subseteq full.out.cells
  BY DEF Interrupted, Prefix

LEMMA CutIsPlain ==
  ASSUME NEW w, NEW full, NEW cut \in Interrupted(w, full), Plainly(w, full)
  PROVE  Plainly(w, cut)
  BY CutCells DEF Plainly

LEMMA CutLosesLast ==
  ASSUME NEW w, NEW u, IsWriter(w), IsWriter(u), NEW item, ItemOK(item),
         NEW cut \in Interrupted(w, SeqWrite(u, item))
  PROVE  cut.out.cells \subseteq u.out.cells
<1> DEFINE full == SeqWrite(u, item)
           last == [at |-> u.out.len, item |-> item]
<1>1. PICK n \in CutPoints(w, full) :
        cut = [out |-> Prefix(full.out, n),
               position |-> w.position + (n - w.out.len)]
  BY DEF Interrupted
<1>2. /\ full.out.cells = u.out.cells \cup {last}
      /\ full.out.len = u.out.len + item.size
      /\ last.at + last.item.size = u.out.len + item.size
      /\ u.out.len \in Nat /\ item.size \in Nat /\ w.out.len \in Nat
  BY SeqWriteCells DEF IsWriter, Stream, ItemOK
<1> HIDE DEF full, last
<1>3. n \in w.out.len .. full.out.len - 1
  BY DEF CutPoints
<1>4. cut.out.cells = {c \in full.out.cells : c.at + c.item.size <= n}
  BY <1>1 DEF Prefix
<1>5. last \notin cut.out.cells
  BY <1>2, <1>3, <1>4
<1> QED BY <1>2, <1>4, <1>5

-----------------------------------------------------------------------------
(***************************************************************************)
(* The current directory.                                                  *)
(***************************************************************************)

(* t is the current directory, perhaps with one entry more.                 *)
Remembers(cells, t) ==
  /\ t.entry_offset = Top.entry_offset
  /\ t.file_offset = Top.file_offset /\ t.file_hash = Top.file_hash
  /\ \/ t.items = Top.items
     \/ /\ Len(Top.items) < MaxItems
        /\ \E item \in GoodbyeItem :
             /\ t.items = Append(Top.items, item)
             /\ NameLeads(cells, item.offset, item.hash)

LEMMA AppendLeads ==
  ASSUME NEW cells, NEW items \in Seq(GoodbyeItem), ItemsLead(cells, items),
         NEW item \in GoodbyeItem, NameLeads(cells, item.offset, item.hash)
  PROVE  /\ ItemsLead(cells, Append(items, item))
         /\ Len(Append(items, item)) = Len(items) + 1
<1> DEFINE more == Append(items, item)
<1>1. /\ Len(items) \in Nat
      /\ Len(more) = Len(items) + 1
      /\ \A i \in 1..Len(items) : more[i] = items[i]
      /\ more[Len(items) + 1] = item
  OBVIOUS
<1> HIDE DEF more
<1>2. ASSUME NEW i \in 1..Len(more)
      PROVE  NameLeads(cells, more[i].offset, more[i].hash)
  <2>1. CASE i \in 1..Len(items)
    BY <1>1, <2>1 DEF ItemsLead
  <2>2. CASE i = Len(items) + 1
    BY <1>1, <2>2
  <2> QED BY <1>1, <2>1, <2>2
<1>3. ItemsLead(cells, more)
  BY <1>2 DEF ItemsLead
<1> QED BY <1>1, <1>3 DEF more

LEMMA SetTopLeads ==
  ASSUME NEW cells, NEW more, cells \subseteq more,
         NEW s \in Seq(EncoderStates), s # <<>>,
         StackLeads(cells, s), StackHasRoom(s),
         NEW t \in EncoderStates, DirLeads(more, Len(s), t),
         Len(t.items) <= MaxItems
  PROVE  /\ StackLeads(more, [s EXCEPT ![Len(s)] = t])
         /\ StackHasRoom([s EXCEPT ![Len(s)] = t])
<1> DEFINE u == [s EXCEPT ![Len(s)] = t]
<1>1. Len(s) \in Nat \ {0} /\ u \in Seq(EncoderStates) /\ Len(u) = Len(s)
  OBVIOUS
<1>2. \A d \in 1..Len(s) : u[d] = IF d = Len(s) THEN t ELSE s[d]
  BY <1>1
<1> HIDE DEF u
<1>3. ASSUME NEW d \in 1..Len(u)
      PROVE  DirLeads(more, d, u[d])
  <2>1. CASE d = Len(s)
    BY <1>1, <1>2, <2>1
  <2>2. CASE d # Len(s)
    <3>1. u[d] = s[d] /\ DirLeads(cells, d, s[d])
      BY <1>1, <1>2, <2>2 DEF StackLeads
    <3> QED BY <3>1, DirLeadsMore
  <2> QED BY <2>1, <2>2
<1>4. StackLeads(more, u)
  BY <1>3 DEF StackLeads
<1>5. StackHasRoom(u)
  <2>1. ASSUME NEW d \in 1..Len(u)
        PROVE  Len(u[d].items) <= MaxItems
    BY <1>1, <1>2 DEF StackHasRoom
  <2>2. ASSUME NEW d \in 1..Len(u) - 1
        PROVE  Len(u[d].items) < MaxItems
    BY <1>1, <1>2 DEF StackHasRoom
  <2> QED BY <2>1, <2>2 DEF StackHasRoom
<1> QED BY <1>4, <1>5 DEF u

(* What the invariant says of the current directory and its outputs.        *)
LEMMA TopLeads ==
  ASSUME OInv, state # <<>>, "finish" \notin faults
  PROVE  /\ OffsetsLead
         /\ DirLeads(archive.cells, Depth, Top)
         /\ Top.items \in Seq(GoodbyeItem)
         /\ Len(Top.items) \in Nat /\ Len(Top.items) <= MaxItems
         /\ Top.write_position = archive.len
         /\ Top.payload_write_position = payload.len
         /\ ArchiveWriter.out = archive /\ PayloadWriter.out = payload
         /\ archive.len \in Nat /\ payload.len \in Nat
<1>1. OffsetsLead /\ IInv
  BY DEF OInv
<1>2. Depth \in 1..Len(state) /\ Depth = Len(state) /\ DirOK(Top)
  BY <1>1, TopOK
<1>3. DirLeads(archive.cells, Depth, Top)
  BY <1>1, <1>2 DEF OffsetsLead, StackLeads, Top
<1>4. Top.items \in Seq(GoodbyeItem)
  BY <1>2 DEF DirOK, EncoderStates
<1>5. Len(Top.items) <= MaxItems
  BY <1>1, <1>2 DEF OffsetsLead, StackHasRoom, Top
<1>6. /\ Top.write_position = archive.len
      /\ Top.payload_write_position = payload.len
  BY DEF OInv, PositionsTrackStreams
<1>7. archive.len \in Nat /\ payload.len \in Nat
  BY <1>1 DEF IInv, TypeOK, Stream
<1>8. ArchiveWriter.out = archive /\ PayloadWriter.out = payload
  BY DEF ArchiveWriter, PayloadWriter
<1> QED BY <1>1, <1>3, <1>4, <1>5, <1>6, <1>7, <1>8

(* A step within one directory: what it adds, remembers and promises leads   *)
(* somewhere, and the promise it keeps, if any, is kept in the payload.      *)
LEMMA StepLeads ==
  ASSUME OInv, "finish" \notin faults',
         NEW t, NEW a, NEW p, OrdinaryStep(t, a, p), phase' = phase,
         Remembers(a.out.cells, t),
         file'.open =>
           /\ NameLeads(a.out.cells, file'.item.offset, file'.item.hash)
           /\ Len(t.items) < MaxItems
           /\ promised' = <<>>,
         promised' # <<>> => promised'[1].offset = t.payload_write_position,
         \A l \in links' : l \in links \/ FileLeads(a.out.cells, l),
         \A c \in a.out.cells \ archive.cells :
           /\ CellLeads(a.out.cells, c)
           /\ RefLeads(p.out.cells, promised', c)
           /\ Calm(c.item),
         \A ref : Promise(promised, ref) =>
           PayloadAtOffset(p.out.cells, ref) \/ Promise(promised', ref)
  PROVE  OffsetsLead'
<1>1. /\ state # <<>> /\ "finish" \notin faults /\ t \in EncoderStates
      /\ archive.cells \subseteq a.out.cells
      /\ payload.cells \subseteq p.out.cells
      /\ archive' = a.out /\ payload' = p.out
  BY DEF OrdinaryStep, Extends, ArchiveWriter, PayloadWriter, DirOK
<1>2. IInv /\ phase = "open" /\ state \in Seq(EncoderStates)
  BY <1>1 DEF OInv, IInv, TypeOK
<1>3. /\ OffsetsLead
      /\ DirLeads(archive.cells, Depth, Top)
      /\ Top.items \in Seq(GoodbyeItem)
      /\ Len(Top.items) \in Nat /\ Len(Top.items) <= MaxItems
  BY <1>1, TopLeads
<1>4. Depth \in Nat \ {0} /\ Depth = Len(state) /\ MaxItems \in Nat
  BY <1>1, <1>2, TopOK, EncoderAssumption
<1>5. DirLeads(a.out.cells, Depth, Top)
  BY <1>1, <1>3, DirLeadsMore
<1>6. ItemsLead(a.out.cells, t.items) /\ Len(t.items) <= MaxItems
  <2>1. ItemsLead(a.out.cells, Top.items)
    BY <1>5 DEF DirLeads
  <2>2. CASE t.items = Top.items
    BY <1>3, <2>1, <2>2
  <2>3. CASE /\ Len(Top.items) < MaxItems
             /\ \E item \in GoodbyeItem :
                  /\ t.items = Append(Top.items, item)
                  /\ NameLeads(a.out.cells, item.offset, item.hash)
    <3>1. PICK item \in GoodbyeItem :
            /\ t.items = Append(Top.items, item)
            /\ NameLeads(a.out.cells, item.offset, item.hash)
      BY <2>3
    <3>2. /\ ItemsLead(a.out.cells, t.items)
          /\ Len(t.items) = Len(Top.items) + 1
      BY <1>3, <2>1, <3>1, AppendLeads
    <3> QED BY <1>3, <1>4, <2>3, <3>2
  <2> QED BY <2>2, <2>3 DEF Remembers
<1>7. DirLeads(a.out.cells, Len(state), t)
  BY <1>4, <1>5, <1>6 DEF DirLeads, Remembers
<1>8. state' = [state EXCEPT ![Len(state)] = t]
  BY <1>4 DEF OrdinaryStep, SetTop
<1>9. StackLeads(archive'.cells, state') /\ StackHasRoom(state')
  <2>1. StackLeads(archive.cells, state) /\ StackHasRoom(state)
    BY <1>3 DEF OffsetsLead
  <2> QED BY <1>1, <1>2, <1>6, <1>7, <1>8, <2>1, SetTopLeads
<1>10. Top' = t
  <2>1. Len(state') = Len(state) /\ state'[Len(state)] = t
    BY <1>1, <1>2, <1>4, <1>8
  <2> QED BY <2>1 DEF Top, Depth
<1>11. OpenFileLeads' /\ PromiseHolds' /\ NothingYet'
  BY <1>1, <1>2, <1>10 DEF OpenFileLeads, PromiseHolds, NothingYet
<1>12. \A l \in links' : FileLeads(archive'.cells, l)
  <2> SUFFICES ASSUME NEW l \in links' PROVE FileLeads(a.out.cells, l)
    BY <1>1
  <2>1. ASSUME l \in links PROVE FileLeads(a.out.cells, l)
    <3>1. FileLeads(archive.cells, l)
      BY <1>3, <2>1 DEF OffsetsLead
    <3> QED BY <1>1, <3>1, LeadsMore
  <2> QED BY <2>1
<1>13. \A c \in archive'.cells : CellLeads(archive'.cells, c)
  <2> SUFFICES ASSUME NEW c \in a.out.cells PROVE CellLeads(a.out.cells, c)
    BY <1>1
  <2>1. ASSUME c \in archive.cells PROVE CellLeads(a.out.cells, c)
    <3>1. CellLeads(archive.cells, c)
      BY <1>3, <2>1 DEF OffsetsLead
    <3> QED BY <1>1, <3>1, CellLeadsMore
  <2> QED BY <2>1
<1>14. \A c \in archive'.cells : RefLeads(payload'.cells, promised', c)
  <2> SUFFICES ASSUME NEW c \in a.out.cells
               PROVE  RefLeads(p.out.cells, promised', c)
    BY <1>1
  <2>1. ASSUME c \in archive.cells PROVE RefLeads(p.out.cells, promised', c)
    <3>1. RefLeads(payload.cells, promised, c)
      BY <1>3, <2>1 DEF OffsetsLead
    <3>2. PayloadAtOffset(payload.cells, c.item)
            => PayloadAtOffset(p.out.cells, c.item)
      BY <1>1 DEF PayloadAtOffset
    <3> QED BY <3>1, <3>2 DEF RefLeads
  <2> QED BY <2>1
<1>15. Brackets(archive'.cells, state')
  <2>1. GrownTo(archive, a.out.cells)
    BY <1>1, <1>2
       DEF GrownTo, OrdinaryStep, Extends, IsWriter, Stream, ArchiveWriter,
           IInv,
           TypeOK
  <2>2. /\ Len(state') = Len(state)
        /\ \A d \in 1..Len(state) :
             state'[d].entry_offset = state[d].entry_offset
    <3>1. /\ Len(state') = Len(state)
          /\ \A d \in 1..Len(state) :
               state'[d] = IF d = Len(state) THEN t ELSE state[d]
      BY <1>1, <1>2, <1>8
    <3>2. t.entry_offset = state[Len(state)].entry_offset
      BY <1>4 DEF Remembers, Top
    <3> QED BY <3>1, <3>2
  <2> QED BY <1>1, <1>3, <1>4, <2>1, <2>2, CalmKeepsBrackets DEF OffsetsLead
<1> QED BY <1>9, <1>11, <1>12, <1>13, <1>14, <1>15 DEF OffsetsLead

(* What the changes to one directory leave alone.                           *)
LEMMA MovedFields ==
  ASSUME NEW st \in EncoderStates, NEW wp, NEW pp
  PROVE  LET t == PayloadAt(At(st, wp), pp) IN
         /\ t.items = st.items /\ t.entry_offset = st.entry_offset
         /\ t.file_offset = st.file_offset /\ t.file_hash = st.file_hash
  BY DEF PayloadAt, At, EncoderStates

LEMMA AtFields ==
  ASSUME NEW st \in EncoderStates, NEW wp
  PROVE  LET t == At(st, wp) IN
         /\ t.items = st.items /\ t.entry_offset = st.entry_offset
         /\ t.file_offset = st.file_offset /\ t.file_hash = st.file_hash
  BY DEF At, EncoderStates

LEMMA PayloadAtFields ==
  ASSUME NEW st \in EncoderStates, NEW pp
  PROVE  LET t == PayloadAt(st, pp) IN
         /\ t.items = st.items /\ t.entry_offset = st.entry_offset
         /\ t.file_offset = st.file_offset /\ t.file_hash = st.file_hash
  BY DEF PayloadAt, EncoderStates

LEMMA ListingFields ==
  ASSUME NEW st \in EncoderStates, NEW item
  PROVE  LET t == Listing(st, item) IN
         /\ t.items = Append(st.items, item)
         /\ t.entry_offset = st.entry_offset
         /\ t.file_offset = st.file_offset /\ t.file_hash = st.file_hash
  BY DEF Listing, EncoderStates

LEMMA MergeErrorFields ==
  ASSUME NEW st \in EncoderStates, NEW error
  PROVE  LET t == MergeError(st, error) IN
         /\ t.items = st.items /\ t.entry_offset = st.entry_offset
         /\ t.file_offset = st.file_offset /\ t.file_hash = st.file_hash
  BY DEF MergeError, EncoderStates

LEMMA DropIntoFields ==
  ASSUME NEW st, DirOK(st), NEW item, NEW remaining
  PROVE  LET t == DropInto(st, item, remaining) IN
         /\ t.items = Append(st.items, item)
         /\ t.entry_offset = st.entry_offset
         /\ t.file_offset = st.file_offset /\ t.file_hash = st.file_hash
<1> DEFINE e == IF remaining # 0 THEN MergeError(st, "IncompleteFile") ELSE st
<1>1. st \in EncoderStates /\ "IncompleteFile" \in EncodeErrors
  BY DEF DirOK, EncodeErrors
<1>2. e \in EncoderStates
  BY <1>1, MergeErrorOK DEF DirOK
<1>3. /\ e.items = st.items /\ e.entry_offset = st.entry_offset
      /\ e.file_offset = st.file_offset /\ e.file_hash = st.file_hash
  BY <1>1, MergeErrorFields
<1>4. DropInto(st, item, remaining) = Listing(e, item)
  BY DEF DropInto
<1> HIDE DEF e
<1> QED BY <1>2, <1>3, <1>4, ListingFields

-----------------------------------------------------------------------------
(***************************************************************************)
(* Names, entries and files.                                               *)
(***************************************************************************)
LEMMA PlainCellLeads ==
  ASSUME NEW cells, NEW payloads, NEW promises, NEW c, PlainItem(c.item)
  PROVE  /\ CellLeads(cells, c) /\ RefLeads(payloads, promises, c)
         /\ Calm(c.item)
  BY DEF PlainItem, Calm, CellLeads, RefLeads

LEMMA PlainNamedItems ==
  ASSUME NEW n, NEW meta
  PROVE  /\ PlainItem(Filename(n))
         /\ meta.kind # "dir" => PlainItem(Entry(meta))
  BY DEF PlainItem, Calm, Filename, Entry

(* Every entry begins with its FILENAME, at the position of the directory.  *)
LEMMA NamedLeads ==
  ASSUME OInv, "finish" \notin faults, state # <<>>, NEW n \in Names
  PROVE  LET named == SeqWrite(ArchiveWriter, Filename(n)) IN
         /\ Plainly(ArchiveWriter, named)
         /\ Extends(ArchiveWriter, named)
         /\ NameLeads(named.out.cells, Top.write_position, HashOf[n])
         /\ [at |-> Top.write_position, item |-> Filename(n)]
              \in named.out.cells
         /\ named.out.len = Top.write_position + Filename(n).size
         /\ named.position = named.out.len
<1> DEFINE named == SeqWrite(ArchiveWriter, Filename(n))
           cell == [at |-> Top.write_position, item |-> Filename(n)]
<1>1. IInv
  BY DEF OInv
<1>2. IsWriter(ArchiveWriter) /\ ItemOK(Filename(n))
  <2>1. NameLen[n] \in Nat
    BY NamesAssumption
  <2> QED BY <1>1, <2>1, TopOK DEF ItemOK, ItemTypes, Filename, HeaderSize
<1>3. /\ Top.write_position = archive.len
      /\ ArchiveWriter.out = archive
      /\ ArchiveWriter.position = Top.write_position
  BY TopLeads DEF ArchiveWriter
<1>4. Plainly(ArchiveWriter, named)
  BY PlainNamedItems, PlainlyWritten
<1>5. Extends(ArchiveWriter, named)
  BY <1>2, SeqWriteExtends
<1>6. cell \in named.out.cells
  BY <1>3, SeqWriteCells
<1>7. NameLeads(named.out.cells, Top.write_position, HashOf[n])
  <2>1. /\ cell.at = Top.write_position
        /\ cell.item.htype = "FILENAME" /\ cell.item.name = n
    BY DEF Filename
  <2> HIDE DEF cell, named
  <2> QED BY <1>6, <2>1 DEF NameLeads
<1>8. /\ named.out.len = Top.write_position + Filename(n).size
      /\ named.position = named.out.len
  BY <1>3, SeqWriteCells
<1> QED BY <1>4, <1>5, <1>6, <1>7, <1>8

LEMMA StartFileLeads ==
  ASSUME OInv, "finish" \notin faults, state # <<>>,
         NEW n \in Names, NEW meta \in Metas
  PROVE  LET start == StartFile(n, meta) IN
         /\ meta.kind # "dir" => Plainly(ArchiveWriter, start)
         /\ NameLeads(start.out.cells, Top.write_position, HashOf[n])
         /\ EntryLeads(start.out.cells,
                       SeqWrite(ArchiveWriter, Filename(n)).position)
         /\ meta.kind = "file" =>
              FileLeads(start.out.cells, Top.write_position)
<1> DEFINE named == SeqWrite(ArchiveWriter, Filename(n))
           start == SeqWrite(named, Entry(meta))
           target == [at |-> Top.write_position, item |-> Filename(n)]
           entry == [at |-> named.out.len, item |-> Entry(meta)]
<1>1. /\ Plainly(ArchiveWriter, named)
      /\ NameLeads(named.out.cells, Top.write_position, HashOf[n])
      /\ target \in named.out.cells
      /\ named.out.len = Top.write_position + Filename(n).size
      /\ named.position = named.out.len
  BY NamedLeads
<1>2. start = StartFile(n, meta)
  BY DEF StartFile
<1> HIDE DEF named
<1>3. /\ named.out.cells \subseteq start.out.cells
      /\ entry \in start.out.cells
  BY SeqWriteCells
<1>4. ASSUME meta.kind # "dir"
      PROVE  Plainly(ArchiveWriter, start)
  <2>1. Plainly(named, start)
    BY <1>4, PlainNamedItems, PlainlyWritten
  <2> QED BY <1>1, <2>1, PlainlyTransitive
<1>5. NameLeads(start.out.cells, Top.write_position, HashOf[n])
  BY <1>1, <1>3, LeadsMore
<1>6. /\ target.at = Top.write_position /\ target.item.htype = "FILENAME"
      /\ target.item.size = Filename(n).size
      /\ entry.at = named.out.len /\ entry.item.htype = "ENTRY"
      /\ entry.item.kind = meta.kind
  BY DEF Filename, Entry
<1> HIDE DEF start, target, entry
<1>7. EntryLeads(start.out.cells, named.position)
  BY <1>1, <1>3, <1>6 DEF EntryLeads
<1>8. meta.kind = "file" => FileLeads(start.out.cells, Top.write_position)
  BY <1>1, <1>3, <1>6 DEF FileLeads
<1> QED BY <1>2, <1>4, <1>5, <1>7, <1>8 DEF named

(* The last item of a file leads to the PAYLOAD written just before it.      *)
LEMMA FileArchiveLeads ==
  ASSUME OInv, "finish" \notin faults, state # <<>>,
         NEW n \in Names, NEW meta \in Metas, meta.kind = "file",
         NEW size \in FileSizes,
         NEW payloads, FilePayload(size).out.cells \subseteq payloads,
         NEW promises
  PROVE  LET a == FileArchive(n, meta, size) IN
         /\ NameLeads(a.out.cells, Top.write_position, HashOf[n])
         /\ FileLeads(a.out.cells, Top.write_position)
         /\ \A c \in a.out.cells \ archive.cells :
              /\ CellLeads(a.out.cells, c) /\ RefLeads(payloads, promises, c)
              /\ Calm(c.item)
<1> DEFINE start == StartFile(n, meta)
           a == FileArchive(n, meta, size)
           last == IF Split THEN PayloadRef(Top.payload_write_position, size)
                            ELSE Payload(size)
           cell == [at |-> start.out.len, item |-> last]
<1>1. /\ Plainly(ArchiveWriter, start)
      /\ NameLeads(start.out.cells, Top.write_position, HashOf[n])
      /\ FileLeads(start.out.cells, Top.write_position)
      /\ ArchiveWriter.out = archive /\ PayloadWriter.out = payload
      /\ Top.payload_write_position = payload.len
  BY StartFileLeads, TopLeads
<1>2. a = SeqWrite(start, last)
  BY DEF FileArchive
<1>3. /\ RefLeads(payloads, promises, cell) /\ CellLeads(a.out.cells, cell)
      /\ Calm(cell.item)
  <2>1. CASE Split
    <3>1. /\ cell.item.htype = "PAYLOAD_REF"
          /\ cell.item.offset = payload.len /\ cell.item.content = size
      BY <1>1, <2>1 DEF PayloadRef
    <3> DEFINE x == [at |-> payload.len, item |-> Payload(size)]
    <3>2. x \in payloads
      BY <1>1, <2>1, SeqWriteCells DEF FilePayload
    <3>3. /\ x.at = payload.len /\ x.item.htype = "PAYLOAD"
          /\ x.item.content = size
      BY DEF Payload
    <3> HIDE DEF x, cell
    <3>4. PayloadAtOffset(payloads, cell.item)
      BY <3>1, <3>2, <3>3 DEF PayloadAtOffset
    <3> QED BY <3>1, <3>4 DEF RefLeads, CellLeads, Calm
  <2>2. CASE ~Split
    <3>1. PlainItem(cell.item)
      BY <2>2 DEF PlainItem, Calm, Payload
    <3> HIDE DEF cell
    <3> QED BY <3>1, PlainCellLeads
  <2> QED BY <2>1, <2>2
<1>4. a.out.cells = start.out.cells \cup {cell}
  BY <1>2, SeqWriteCells
<1> HIDE DEF a, cell, start
<1>5. ASSUME NEW c \in a.out.cells \ archive.cells
      PROVE  /\ CellLeads(a.out.cells, c) /\ RefLeads(payloads, promises, c)
             /\ Calm(c.item)
  <2>1. CASE c = cell
    BY <1>3, <2>1
  <2>2. CASE c \in start.out.cells
    <3>1. PlainItem(c.item)
      BY <1>1, <2>2 DEF Plainly
    <3> QED BY <3>1, PlainCellLeads
  <2> QED BY <1>4, <2>1, <2>2
<1>6. start.out.cells \subseteq a.out.cells
  BY <1>4
<1>7. /\ NameLeads(a.out.cells, Top.write_position, HashOf[n])
      /\ FileLeads(a.out.cells, Top.write_position)
  BY <1>1, <1>6, LeadsMore
<1> QED BY <1>5, <1>7 DEF a

-----------------------------------------------------------------------------
(***************************************************************************)
(* Calls for files.                                                        *)
(***************************************************************************)

(* What is the same in all steps within one directory.                      *)
LEMMA NothingPromisedHolds ==
  ASSUME NEW payloads, NEW promises
  PROVE  \A ref : Promise(<<>>, ref) =>
           PayloadAtOffset(payloads, ref) \/ Promise(promises, ref)
  BY DEF Promise

LEMMA CreateFileLeads ==
  ASSUME OInv, "finish" \notin faults',
         NEW n \in Names, NEW meta \in MetasOf("file"), NEW size \in FileSizes,
         CreateFile(n, meta, size)
  PROVE  OffsetsLead'
<1> DEFINE a == FileArchive(n, meta, size)
           p == FilePayload(size)
           t == PayloadAt(At(Top, a.position), p.position)
           item == FileItem(n, meta, size)
<1>1. /\ state # <<>> /\ promised = <<>> /\ Len(Top.items) < MaxItems
      /\ archive' = a.out /\ payload' = p.out /\ SetTop(t)
      /\ file' = [open |-> TRUE, remaining_size |-> size, item |-> item]
      /\ links' = links \cup {Top.write_position}
      /\ UNCHANGED <<phase, result, promised, faults>>
  BY DEF CreateFile, CanCreateFile, Check, Usable, Room
<1>2. /\ IInv /\ "finish" \notin faults
      /\ meta \in Metas /\ meta.kind = "file"
  BY <1>1 DEF OInv, MetasOf
<1>3. /\ Extends(ArchiveWriter, a) /\ Extends(PayloadWriter, p)
      /\ item.offset = Top.write_position
  BY <1>1, <1>2, FileWritersOK
<1>4. item.hash = HashOf[n]
  BY DEF FileItem
<1>5. /\ NameLeads(a.out.cells, Top.write_position, HashOf[n])
      /\ FileLeads(a.out.cells, Top.write_position)
      /\ \A c \in a.out.cells \ archive.cells :
           /\ CellLeads(a.out.cells, c) /\ RefLeads(p.out.cells, promised', c)
           /\ Calm(c.item)
  BY <1>1, <1>2, FileArchiveLeads
<1> HIDE DEF a, p, item
<1>6. /\ DirOK(t) /\ t.write_position = a.position
      /\ t.payload_write_position = p.position
  BY <1>1, <1>2, <1>3, MovedOnOK
<1>7. /\ t.items = Top.items /\ t.entry_offset = Top.entry_offset
      /\ t.file_offset = Top.file_offset /\ t.file_hash = Top.file_hash
  BY <1>1, <1>2, TopOK, MovedFields DEF DirOK
<1> HIDE DEF t
<1>8. OrdinaryStep(t, a, p)
  BY <1>1, <1>3, <1>6 DEF OrdinaryStep
<1>9. Remembers(a.out.cells, t)
  BY <1>7 DEF Remembers
<1>10. file'.open =>
         /\ NameLeads(a.out.cells, file'.item.offset, file'.item.hash)
         /\ Len(t.items) < MaxItems
         /\ promised' = <<>>
  BY <1>1, <1>3, <1>4, <1>5, <1>7
<1>11. \A l \in links' : l \in links \/ FileLeads(a.out.cells, l)
  BY <1>1, <1>5
<1>12. \A ref : Promise(promised, ref) =>
         PayloadAtOffset(p.out.cells, ref) \/ Promise(promised', ref)
  BY <1>1, NothingPromisedHolds
<1> QED BY <1>1, <1>5, <1>8, <1>9, <1>10, <1>11, <1>12, StepLeads

LEMMA CreateFileFailsLeads ==
  ASSUME OInv, "finish" \notin faults',
         NEW n \in Names, NEW meta \in MetasOf("file"), NEW size \in FileSizes,
         CreateFileFails(n, meta, size)
  PROVE  OffsetsLead'
<1> DEFINE named == StartFile(n, meta)
           a == FileArchive(n, meta, size)
           p == FilePayload(size)
<1>1. /\ state # <<>> /\ ~file.open /\ promised = <<>>
      /\ faults' = faults \cup {"call"}
      /\ UNCHANGED <<file, phase, result, links, promised>>
  BY DEF CreateFileFails, CanCreateFile, Check, Usable, Fail
<1>2. /\ IInv /\ "finish" \notin faults
      /\ meta \in Metas /\ meta.kind = "file"
  BY <1>1 DEF OInv, MetasOf
<1>3. /\ Extends(ArchiveWriter, named) /\ Extends(named, a)
      /\ Extends(PayloadWriter, p)
      /\ IsWriter(ArchiveWriter) /\ IsWriter(PayloadWriter)
      /\ IsWriter(named) /\ IsWriter(p)
  BY <1>1, <1>2, StartFileOK, FileWritersOK, TopOK DEF Extends
<1>4. /\ Plainly(ArchiveWriter, named) /\ ArchiveWriter.out = archive
  BY <1>1, <1>2, StartFileLeads, TopLeads
<1>5. /\ a = SeqWrite(named, IF Split
                               THEN PayloadRef(Top.payload_write_position, size)
                               ELSE Payload(size))
      /\ ItemOK(IF Split THEN PayloadRef(Top.payload_write_position, size)
                         ELSE Payload(size))
  <2>1. size \in Nat /\ Top.payload_write_position \in Nat
    BY <1>1, <1>2, EncoderAssumption, TopOK
  <2> QED BY <2>1, SizedItemsOK DEF FileArchive
<1> HIDE DEF named, a, p
<1>6. PICK x \in (Interrupted(ArchiveWriter, named) \X {PayloadWriter})
                   \cup ({named} \X Interrupted(PayloadWriter, p))
                   \cup (Interrupted(named, a) \X {p}) :
        /\ archive' = x[1].out
        /\ payload' = x[2].out
        /\ SetTop(PayloadAt(At(Top, x[1].position), x[2].position))
  BY DEF CreateFileFails, named, a, p
<1>7. /\ Extends(ArchiveWriter, x[1]) /\ Extends(PayloadWriter, x[2])
      /\ Plainly(ArchiveWriter, x[1])
  <2>1. CASE x \in Interrupted(ArchiveWriter, named) \X {PayloadWriter}
    BY <1>3, <1>4, <2>1, InterruptedExtends, ExtendsReflexive, CutIsPlain
  <2>2. CASE x \in {named} \X Interrupted(PayloadWriter, p)
    BY <1>3, <1>4, <2>2, InterruptedExtends
  <2>3. CASE x \in Interrupted(named, a) \X {p}
    <3>1. Extends(named, x[1]) /\ x[2] = p
      BY <1>3, <2>3, InterruptedExtends
    <3>2. x[1].out.cells \subseteq named.out.cells
      BY <1>3, <1>5, <2>3, CutLosesLast
    <3> QED BY <1>3, <1>4, <3>1, <3>2, ExtendsTransitive DEF Plainly
  <2> QED BY <2>1, <2>2, <2>3
<1> DEFINE t == PayloadAt(At(Top, x[1].position), x[2].position)
<1>8. /\ DirOK(t) /\ t.write_position = x[1].position
      /\ t.payload_write_position = x[2].position
  BY <1>1, <1>2, <1>7, MovedOnOK
<1>9. /\ t.items = Top.items /\ t.entry_offset = Top.entry_offset
      /\ t.file_offset = Top.file_offset /\ t.file_hash = Top.file_hash
  BY <1>1, <1>2, TopOK, MovedFields DEF DirOK
<1>10. OrdinaryStep(t, x[1], x[2])
  BY <1>1, <1>6, <1>7, <1>8 DEF OrdinaryStep
<1> HIDE DEF t
<1>11. Remembers(x[1].out.cells, t)
  BY <1>9 DEF Remembers
<1>12. \A c \in x[1].out.cells \ archive.cells :
         /\ CellLeads(x[1].out.cells, c)
         /\ RefLeads(x[2].out.cells, promised', c)
         /\ Calm(c.item)
  BY <1>4, <1>7, PlainCellLeads DEF Plainly
<1>13. \A ref : Promise(promised, ref) =>
         PayloadAtOffset(x[2].out.cells, ref) \/ Promise(promised', ref)
  BY <1>1, NothingPromisedHolds
<1> QED BY <1>1, <1>10, <1>11, <1>12, <1>13, StepLeads

LEMMA AddFileLeads ==
  ASSUME OInv, "finish" \notin faults',
         NEW n \in Names, NEW meta \in MetasOf("file"), NEW size \in FileSizes,
         NEW got \in 0..size, NEW returned \in BOOLEAN,
         AddFile(n, meta, size, got, returned)
  PROVE  OffsetsLead'
<1> DEFINE a == FileArchive(n, meta, size)
           p == FilePayload(size)
           a2 == IF Split THEN a ELSE SeqWriteData(a, got)
           p2 == IF Split THEN SeqWriteData(p, got) ELSE p
           written == PayloadAt(At(Top, a2.position), p2.position)
           item == FileItem(n, meta, size)
           t == DropInto(written, item, size - got)
<1>1. /\ state # <<>> /\ ~file.open /\ promised = <<>>
      /\ Len(Top.items) < MaxItems
      /\ archive' = a2.out /\ payload' = p2.out /\ SetTop(t)
      /\ links' = IF returned THEN links \cup {Top.write_position} ELSE links
      /\ UNCHANGED <<file, phase, result, promised, faults>>
  BY DEF AddFile, CanCreateFile, Check, Usable, Room
<1>2. /\ IInv /\ "finish" \notin faults /\ got \in Nat
      /\ meta \in Metas /\ meta.kind = "file"
  BY <1>1, EncoderAssumption DEF OInv, MetasOf
<1>3. /\ Extends(ArchiveWriter, a) /\ Extends(PayloadWriter, p)
      /\ item \in GoodbyeItem
      /\ item.offset = Top.write_position
      /\ IsWriter(ArchiveWriter) /\ IsWriter(PayloadWriter)
      /\ IsWriter(a) /\ IsWriter(p)
      /\ Top.write_position \in Nat
      /\ Top \in EncoderStates
  BY <1>1, <1>2, FileWritersOK, TopOK DEF Extends, DirOK
<1>4. item.hash = HashOf[n]
  BY DEF FileItem
<1>5. /\ Extends(a, a2) /\ Extends(p, p2) /\ Plainly(a, a2)
  <2>1. Extends(a, SeqWriteData(a, got)) /\ Extends(p, SeqWriteData(p, got))
    BY <1>2, <1>3, SeqWriteDataExtends
  <2>2. Plainly(a, SeqWriteData(a, got)) /\ Plainly(a, a)
    BY PlainlyData DEF Plainly
  <2>3. Extends(a, a) /\ Extends(p, p)
    BY <1>3, ExtendsReflexive
  <2> QED BY <2>1, <2>2, <2>3
<1>6. /\ NameLeads(a.out.cells, Top.write_position, HashOf[n])
      /\ FileLeads(a.out.cells, Top.write_position)
      /\ \A c \in a.out.cells \ archive.cells :
           /\ CellLeads(a.out.cells, c) /\ RefLeads(p2.out.cells, promised', c)
           /\ Calm(c.item)
  <2>1. p.out.cells \subseteq p2.out.cells
    BY <1>5 DEF Extends
  <2> QED BY <1>1, <1>2, <2>1, FileArchiveLeads
<1> HIDE DEF a, p, a2, p2, item
<1>7. /\ Extends(ArchiveWriter, a2) /\ Extends(PayloadWriter, p2)
      /\ a.out.cells \subseteq a2.out.cells
  BY <1>3, <1>5, ExtendsTransitive DEF Extends
<1>8. /\ NameLeads(a2.out.cells, Top.write_position, HashOf[n])
      /\ FileLeads(a2.out.cells, Top.write_position)
  BY <1>6, <1>7, LeadsMore
<1>9. \A c \in a2.out.cells \ archive.cells :
        /\ CellLeads(a2.out.cells, c) /\ RefLeads(p2.out.cells, promised', c)
        /\ Calm(c.item)
  <2> SUFFICES ASSUME NEW c \in a2.out.cells \ archive.cells
               PROVE  /\ CellLeads(a2.out.cells, c)
                      /\ RefLeads(p2.out.cells, promised', c)
                      /\ Calm(c.item)
    OBVIOUS
  <2>1. CASE c \in a.out.cells
    BY <1>6, <1>7, <2>1, CellLeadsMore
  <2>2. CASE c \notin a.out.cells
    BY <1>5, <2>2, PlainCellLeads DEF Plainly
  <2> QED BY <2>1, <2>2
<1>10. /\ DirOK(written)
       /\ written.write_position = a2.position
       /\ written.payload_write_position = p2.position
       /\ Top.write_position <= a2.position
       /\ written.items = Top.items
       /\ written.entry_offset = Top.entry_offset
       /\ written.file_offset = Top.file_offset
       /\ written.file_hash = Top.file_hash
  BY <1>1, <1>2, <1>3, <1>7, MovedOnOK, MovedFields
<1> HIDE DEF written
<1>11. /\ DirOK(t)
       /\ t.write_position = a2.position
       /\ t.payload_write_position = p2.position
       /\ t.items = Append(Top.items, item)
       /\ t.entry_offset = Top.entry_offset
       /\ t.file_offset = Top.file_offset /\ t.file_hash = Top.file_hash
  BY <1>3, <1>10, DropIntoOK, DropIntoFields
<1> HIDE DEF t
<1>12. OrdinaryStep(t, a2, p2)
  BY <1>1, <1>7, <1>11 DEF OrdinaryStep
<1>13. Remembers(a2.out.cells, t)
  BY <1>1, <1>3, <1>4, <1>8, <1>11 DEF Remembers
<1>14. \A l \in links' : l \in links \/ FileLeads(a2.out.cells, l)
  BY <1>1, <1>8
<1>15. \A ref : Promise(promised, ref) =>
         PayloadAtOffset(p2.out.cells, ref) \/ Promise(promised', ref)
  BY <1>1, NothingPromisedHolds
<1> QED BY <1>1, <1>9, <1>12, <1>13, <1>14, <1>15, StepLeads

(* Content goes to one of the two streams.                                  *)
LEMMA PutLeads ==
  ASSUME OInv, "finish" \notin faults', file.open, NEW k \in Nat,
         PutToArchive(k) \/ PutToPayload(k), file'.item = file.item,
         UNCHANGED <<phase, links, promised>>, faults \subseteq faults'
  PROVE  OffsetsLead'
<1>1. /\ IInv /\ "finish" \notin faults /\ state # <<>>
  BY DEF OInv, IInv, TypeOK
<1>2. /\ OffsetsLead
      /\ ArchiveWriter.out = archive /\ PayloadWriter.out = payload
      /\ IsWriter(ArchiveWriter) /\ IsWriter(PayloadWriter)
      /\ DirOK(Top) /\ Top \in EncoderStates
  BY <1>1, TopLeads, TopOK DEF DirOK
<1>3. /\ NameLeads(archive.cells, file.item.offset, file.item.hash)
      /\ Len(Top.items) < MaxItems
      /\ promised = <<>>
  BY <1>2 DEF OffsetsLead, OpenFileLeads
<1>4. /\ Extends(ArchiveWriter, ArchiveWriter)
      /\ Extends(PayloadWriter, PayloadWriter)
      /\ Extends(ArchiveWriter, SeqWriteData(ArchiveWriter, k))
      /\ Extends(PayloadWriter, SeqWriteData(PayloadWriter, k))
      /\ Plainly(ArchiveWriter, SeqWriteData(ArchiveWriter, k))
      /\ Plainly(ArchiveWriter, ArchiveWriter)
  BY <1>2, ExtendsReflexive, SeqWriteDataExtends, PlainlyData DEF Plainly
<1>5. PICK t, a, p : /\ OrdinaryStep(t, a, p)
                     /\ Plainly(ArchiveWriter, a)
                     /\ t.items = Top.items
                     /\ t.entry_offset = Top.entry_offset
                     /\ t.file_offset = Top.file_offset
                     /\ t.file_hash = Top.file_hash
  <2>1. CASE PutToArchive(k)
    <3> DEFINE a == SeqWriteData(ArchiveWriter, k)
               t == At(Top, a.position)
    <3>1. a.position \in Nat /\ Top.write_position <= a.position
      BY <1>4 DEF Extends, IsWriter, ArchiveWriter
    <3>2. /\ DirOK(t) /\ t.write_position = a.position
          /\ t.payload_write_position = Top.payload_write_position
          /\ t.items = Top.items /\ t.entry_offset = Top.entry_offset
          /\ t.file_offset = Top.file_offset /\ t.file_hash = Top.file_hash
      BY <1>2, <3>1, AtOK, AtFields
    <3>3. /\ SetTop(t) /\ archive' = a.out /\ payload' = payload
      BY <2>1 DEF PutToArchive
    <3> HIDE DEF t
    <3>4. OrdinaryStep(t, a, PayloadWriter)
      BY <1>1, <1>4, <3>2, <3>3 DEF OrdinaryStep, PayloadWriter
    <3> QED BY <1>4, <3>2, <3>4
  <2>2. CASE PutToPayload(k)
    <3> DEFINE p == SeqWriteData(PayloadWriter, k)
               t == PayloadAt(Top, p.position)
    <3>1. p.position \in Nat
      BY <1>4 DEF Extends, IsWriter
    <3>2. /\ DirOK(t) /\ t.payload_write_position = p.position
          /\ t.write_position = Top.write_position
          /\ t.items = Top.items /\ t.entry_offset = Top.entry_offset
          /\ t.file_offset = Top.file_offset /\ t.file_hash = Top.file_hash
      BY <1>2, <3>1, PayloadAtOK, PayloadAtFields
    <3>3. /\ SetTop(t) /\ payload' = p.out /\ archive' = archive
      BY <2>2 DEF PutToPayload
    <3> HIDE DEF t
    <3>4. OrdinaryStep(t, ArchiveWriter, p)
      BY <1>1, <1>4, <3>2, <3>3 DEF OrdinaryStep, ArchiveWriter
    <3> QED BY <1>4, <3>2, <3>4
  <2> QED BY <2>1, <2>2
<1>6. archive.cells \subseteq a.out.cells
  BY <1>2, <1>5 DEF OrdinaryStep, Extends
<1>7. NameLeads(a.out.cells, file'.item.offset, file'.item.hash)
  <2>1. \A offset, hash : NameLeads(archive.cells, offset, hash)
                            => NameLeads(a.out.cells, offset, hash)
    BY <1>6, LeadsMore
  <2> QED BY <1>3, <2>1
<1>8. Remembers(a.out.cells, t)
  BY <1>5 DEF Remembers
<1>9. \A c \in a.out.cells \ archive.cells :
        /\ CellLeads(a.out.cells, c) /\ RefLeads(p.out.cells, promised', c)
        /\ Calm(c.item)
  BY <1>2, <1>5, PlainCellLeads DEF Plainly
<1>10. \A ref : Promise(promised, ref) =>
         PayloadAtOffset(p.out.cells, ref) \/ Promise(promised', ref)
  BY <1>3, NothingPromisedHolds
<1> QED BY <1>3, <1>5, <1>7, <1>8, <1>9, <1>10, StepLeads

LEMMA WriteLeads ==
  ASSUME OInv, "finish" \notin faults', NEW k \in WriteSizes,
         Write(k) \/ WriteAllFails(k) \/ PollWrite(k)
  PROVE  OffsetsLead'
<1>1. k \in Nat /\ file.open /\ file \in FileImpls
  BY EncoderAssumption
     DEF Write, WriteAllFails, PollWrite, OInv, IInv, TypeOK, FileImpls
<1>2. PutToArchive(k) \/ PutToPayload(k)
  BY DEF Write, WriteAllFails, PollWrite, PutContent
<1>3. UNCHANGED <<phase, links, promised>> /\ faults \subseteq faults'
  BY DEF Write, WriteAllFails, PollWrite, Fail
<1>4. file'.item = file.item
  BY <1>1 DEF Write, WriteAllFails, PollWrite, FileImpls
<1> QED BY <1>1, <1>2, <1>3, <1>4, PutLeads

LEMMA DropFileLeads ==
  ASSUME OInv, "finish" \notin faults', DropFile
  PROVE  OffsetsLead'
<1> DEFINE t == DropInto(Top, file.item, file.remaining_size)
<1>1. /\ file.open /\ SetTop(t) /\ file' = NoFile
      /\ UNCHANGED <<archive, payload, phase, result, links, promised, faults>>
  BY DEF DropFile
<1>2. /\ IInv /\ "finish" \notin faults /\ state # <<>>
      /\ file.item \in GoodbyeItem
      /\ file.item.offset <= Top.write_position
  BY <1>1 DEF OInv, IInv, TypeOK, NothingUnderflows
<1>3. /\ OffsetsLead
      /\ ArchiveWriter.out = archive /\ PayloadWriter.out = payload
      /\ IsWriter(ArchiveWriter) /\ IsWriter(PayloadWriter)
      /\ DirOK(Top)
  BY <1>2, TopLeads, TopOK
<1>4. /\ NameLeads(archive.cells, file.item.offset, file.item.hash)
      /\ Len(Top.items) < MaxItems
      /\ promised = <<>>
  BY <1>1, <1>3 DEF OffsetsLead, OpenFileLeads
<1>5. /\ Extends(ArchiveWriter, ArchiveWriter)
      /\ Extends(PayloadWriter, PayloadWriter)
  BY <1>3, ExtendsReflexive
<1>6. /\ DirOK(t)
      /\ t.write_position = Top.write_position
      /\ t.payload_write_position = Top.payload_write_position
      /\ t.items = Append(Top.items, file.item)
      /\ t.entry_offset = Top.entry_offset
      /\ t.file_offset = Top.file_offset /\ t.file_hash = Top.file_hash
  BY <1>2, <1>3, DropIntoOK, DropIntoFields
<1> HIDE DEF t
<1>7. OrdinaryStep(t, ArchiveWriter, PayloadWriter)
  BY <1>1, <1>2, <1>5, <1>6 DEF OrdinaryStep, ArchiveWriter, PayloadWriter
<1>8. Remembers(ArchiveWriter.out.cells, t)
  BY <1>2, <1>3, <1>4, <1>6 DEF Remembers
<1>9. ~file'.open /\ promised' = <<>>
  BY <1>1, <1>4 DEF NoFile
<1>10. \A ref : Promise(promised, ref) =>
         \/ PayloadAtOffset(PayloadWriter.out.cells, ref)
         \/ Promise(promised', ref)
  BY <1>4, NothingPromisedHolds
<1> QED BY <1>1, <1>3, <1>7, <1>8, <1>9, <1>10, StepLeads

-----------------------------------------------------------------------------
(***************************************************************************)
(* Calls for the other entries.                                            *)
(***************************************************************************)

(* add_file_entry writes plain items, "u" the writer after them, and one    *)
(* last item, the only one that may hold an offset.  If the call stops in   *)
(* the middle that one is not there.                                       *)
LEMMA EntryCallLeads ==
  ASSUME OInv, "finish" \notin faults', Check, Room, NEW n \in Names,
         NEW u, Extends(ArchiveWriter, u), Plainly(ArchiveWriter, u),
         NEW item, ItemOK(item),
         NEW full, full = SeqWrite(u, item),
         NameLeads(u.out.cells, Top.write_position, HashOf[n]),
         LET last == [at |-> u.out.len, item |-> item] IN
           \/ /\ EntryAdded(n, full)
              /\ CellLeads(full.out.cells, last) /\ Calm(item)
              /\ RefLeads(payload.cells, promised', last)
              /\ \A l \in links' : l \in links \/ FileLeads(full.out.cells, l)
              /\ promised' = promised
                   \/ (promised = <<>> /\ promised'[1].offset
                                            = Top.payload_write_position)
           \/ CallFails(full) /\ UNCHANGED <<links, promised>>,
         UNCHANGED <<payload, file, phase, result>>
  PROVE  OffsetsLead'
<1> DEFINE last == [at |-> u.out.len, item |-> item]
<1>1. state # <<>> /\ ~file.open /\ Len(Top.items) < MaxItems
  BY DEF Check, Usable, Room
<1>2. /\ IInv /\ "finish" \notin faults /\ faults \subseteq faults'
  BY DEF OInv, EntryAdded, CallFails, Fail
<1>3. /\ OffsetsLead
      /\ IsWriter(ArchiveWriter) /\ IsWriter(PayloadWriter) /\ IsWriter(u)
      /\ DirOK(Top) /\ Top \in EncoderStates /\ Top.write_position \in Nat
      /\ Extends(PayloadWriter, PayloadWriter)
      /\ ArchiveWriter.out = archive /\ PayloadWriter.out = payload
      /\ ArchiveWriter.position = Top.write_position
      /\ PayloadWriter.position = Top.payload_write_position
  BY <1>1, <1>2, TopLeads, TopOK, ExtendsReflexive
     DEF DirOK, ArchiveWriter, PayloadWriter, Extends
<1>4. Extends(u, full) /\ Extends(ArchiveWriter, full)
  BY <1>3, SeqWriteExtends, ExtendsTransitive
<1>5. full.out.cells = u.out.cells \cup {last}
  BY SeqWriteCells
<1>6. ASSUME NEW a, Extends(ArchiveWriter, a)
      PROVE  LET t == At(Top, a.position) IN
             /\ DirOK(t) /\ t \in EncoderStates
             /\ t.write_position = a.position
             /\ t.payload_write_position = Top.payload_write_position
             /\ t.items = Top.items /\ t.entry_offset = Top.entry_offset
             /\ t.file_offset = Top.file_offset
             /\ t.file_hash = Top.file_hash
             /\ a.position \in Nat /\ Top.write_position <= a.position
  <2>1. a.position \in Nat /\ Top.write_position <= a.position
    BY <1>3, <1>6 DEF Extends, IsWriter
  <2>2. DirOK(At(Top, a.position))
    BY <1>3, <2>1, AtOK
  <2> QED BY <1>3, <2>1, <2>2, AtOK, AtFields DEF DirOK
<1>7. promised # <<>> => promised[1].offset = Top.payload_write_position
  BY <1>1, <1>3 DEF OffsetsLead, PromiseHolds
<1>8. CASE CallFails(full) /\ UNCHANGED <<links, promised>>
  <2>1. PICK cut \in Interrupted(ArchiveWriter, full) :
          archive' = cut.out /\ SetTop(At(Top, cut.position))
    BY <1>8 DEF CallFails
  <2>2. /\ Extends(ArchiveWriter, cut)
        /\ cut.out.cells \subseteq u.out.cells
    BY <1>3, <1>4, InterruptedExtends, CutLosesLast
  <2> DEFINE t == At(Top, cut.position)
  <2>3. /\ DirOK(t)
        /\ t.write_position = cut.position
        /\ t.payload_write_position = Top.payload_write_position
        /\ t.items = Top.items /\ t.entry_offset = Top.entry_offset
        /\ t.file_offset = Top.file_offset /\ t.file_hash = Top.file_hash
    BY <1>6, <2>2
  <2>4. SetTop(t)
    BY <2>1
  <2> HIDE DEF t
  <2>5. OrdinaryStep(t, cut, PayloadWriter)
    BY <1>1, <1>2, <1>3, <2>1, <2>2, <2>3, <2>4 DEF OrdinaryStep
  <2>6. Remembers(cut.out.cells, t)
    BY <2>3 DEF Remembers
  <2>7. \A c \in cut.out.cells \ archive.cells :
          /\ CellLeads(cut.out.cells, c)
          /\ RefLeads(PayloadWriter.out.cells, promised', c)
          /\ Calm(c.item)
    BY <1>3, <2>2, PlainCellLeads DEF Plainly
  <2>8. promised' # <<>> => promised'[1].offset = t.payload_write_position
    BY <1>7, <1>8, <2>3
  <2>9. /\ \A ref : Promise(promised, ref) => Promise(promised', ref)
        /\ \A l \in links' : l \in links
        /\ ~file'.open
    BY <1>1, <1>8
  <2> QED BY <2>5, <2>6, <2>7, <2>8, <2>9, StepLeads
<1>9. CASE /\ EntryAdded(n, full)
           /\ CellLeads(full.out.cells, last) /\ Calm(item)
           /\ RefLeads(payload.cells, promised', last)
           /\ \A l \in links' : l \in links \/ FileLeads(full.out.cells, l)
           /\ promised' = promised
                \/ (promised = <<>> /\ promised'[1].offset
                                         = Top.payload_write_position)
  <2> DEFINE moved == At(Top, full.position)
             row == [hash   |-> HashOf[n],
                     offset |-> Top.write_position,
                     size   |-> full.position - Top.write_position]
             t == Listing(moved, row)
  <2>1. /\ archive' = full.out /\ SetTop(t) /\ faults' = faults
    BY <1>9 DEF EntryAdded
  <2>2. /\ DirOK(moved) /\ moved \in EncoderStates
        /\ moved.write_position = full.position
        /\ moved.payload_write_position = Top.payload_write_position
        /\ moved.items = Top.items /\ moved.entry_offset = Top.entry_offset
        /\ moved.file_offset = Top.file_offset
        /\ moved.file_hash = Top.file_hash
        /\ full.position \in Nat /\ Top.write_position <= full.position
    BY <1>4, <1>6
  <2>3. HashOf[n] \in Nat
    BY NamesAssumption
  <2>4. /\ row \in GoodbyeItem /\ row.offset <= full.position
        /\ row.offset = Top.write_position /\ row.hash = HashOf[n]
    BY <1>3, <2>2, <2>3 DEF GoodbyeItem
  <2> HIDE DEF moved, row
  <2>5. /\ DirOK(t)
        /\ t.write_position = full.position
        /\ t.payload_write_position = Top.payload_write_position
        /\ t.items = Append(Top.items, row)
        /\ t.entry_offset = Top.entry_offset
        /\ t.file_offset = Top.file_offset /\ t.file_hash = Top.file_hash
    BY <2>2, <2>4, ListingOK, ListingFields
  <2> HIDE DEF t
  <2>6. OrdinaryStep(t, full, PayloadWriter)
    BY <1>1, <1>2, <1>3, <1>4, <2>1, <2>5 DEF OrdinaryStep
  <2>7. Remembers(full.out.cells, t)
    <3>1. u.out.cells \subseteq full.out.cells
      BY <1>5
    <3>2. NameLeads(full.out.cells, Top.write_position, HashOf[n])
      BY <3>1, LeadsMore
    <3>3. NameLeads(full.out.cells, row.offset, row.hash)
      BY <2>4, <3>2
    <3> QED BY <1>1, <2>4, <2>5, <3>3 DEF Remembers
  <2>8. \A c \in full.out.cells \ archive.cells :
          /\ CellLeads(full.out.cells, c)
          /\ RefLeads(PayloadWriter.out.cells, promised', c)
          /\ Calm(c.item)
    <3> SUFFICES ASSUME NEW c \in full.out.cells \ archive.cells
                 PROVE  /\ CellLeads(full.out.cells, c)
                        /\ RefLeads(payload.cells, promised', c)
                        /\ Calm(c.item)
      BY <1>3
    <3>1. CASE c = last
      BY <1>9, <3>1
    <3>2. CASE c \in u.out.cells
      <4>1. PlainItem(c.item)
        BY <1>3, <3>2 DEF Plainly
      <4> QED BY <4>1, PlainCellLeads
    <3> QED BY <1>5, <3>1, <3>2
  <2>9. promised' # <<>> => promised'[1].offset = t.payload_write_position
    BY <1>7, <1>9, <2>5
  <2>10. /\ \A ref : Promise(promised, ref) => Promise(promised', ref)
         /\ ~file'.open
    BY <1>1, <1>9 DEF Promise
  <2> QED BY <1>9, <2>6, <2>7, <2>8, <2>9, <2>10, StepLeads
<1> QED BY <1>8, <1>9

LEMMA AddFileEntryLeads ==
  ASSUME OInv, "finish" \notin faults', NEW n \in Names,
         NEW u, Extends(ArchiveWriter, u), Plainly(ArchiveWriter, u),
         NameLeads(u.out.cells, Top.write_position, HashOf[n]),
         NEW item, ItemOK(item), item.htype # "PAYLOAD_REF", Calm(item),
         NEW full, full = SeqWrite(u, item),
         CellLeads(full.out.cells, [at |-> u.out.len, item |-> item]),
         AddFileEntry(n, full), UNCHANGED <<links, promised>>
  PROVE  OffsetsLead'
<1>1. /\ Check /\ Room
      /\ EntryAdded(n, full) \/ CallFails(full)
      /\ UNCHANGED <<payload, file, phase, result>>
  BY DEF AddFileEntry
<1>2. RefLeads(payload.cells, promised', [at |-> u.out.len, item |-> item])
  BY DEF RefLeads
<1>3. /\ \A l \in links' : l \in links \/ FileLeads(full.out.cells, l)
      /\ promised' = promised
  OBVIOUS
<1> QED BY <1>1, <1>2, <1>3, EntryCallLeads

LEMMA AddEntryLeads ==
  ASSUME OInv, "finish" \notin faults', NEW n \in Names, NEW meta \in Metas,
         \/ /\ meta.kind = "symlink"
            /\ \E len \in TargetLens : AddSymlink(n, meta, len)
         \/ AddDevice(n, meta)
         \/ AddFifo(n, meta)
         \/ AddSocket(n, meta)
  PROVE  OffsetsLead'
<1> DEFINE named == SeqWrite(ArchiveWriter, Filename(n))
           start == StartFile(n, meta)
<1>1. state # <<>> /\ faults \subseteq faults' /\ meta.kind # "dir"
  BY DEF AddSymlink, AddDevice, AddFifo, AddSocket, AddFileEntry, Check,
         Usable, EntryAdded, CallFails, Fail
<1>2. IInv /\ "finish" \notin faults
  BY <1>1 DEF OInv
<1>3. /\ Extends(ArchiveWriter, start) /\ Plainly(ArchiveWriter, start)
      /\ NameLeads(start.out.cells, Top.write_position, HashOf[n])
      /\ Extends(ArchiveWriter, named) /\ Plainly(ArchiveWriter, named)
      /\ NameLeads(named.out.cells, Top.write_position, HashOf[n])
      /\ ItemOK(Entry(meta))
  BY <1>1, <1>2, StartFileOK, StartFileLeads, NamedLeads, NamedItemsOK
<1>4. start = SeqWrite(named, Entry(meta))
  BY DEF StartFile
<1> HIDE DEF named, start
<1>5. ASSUME NEW item, PlainItem(item), NEW w
      PROVE  /\ item.htype # "PAYLOAD_REF" /\ Calm(item)
             /\ CellLeads(SeqWrite(w, item).out.cells,
                          [at |-> w.out.len, item |-> item])
  BY <1>5 DEF PlainItem, Calm, CellLeads
<1>6. ASSUME NEW len \in TargetLens, AddSymlink(n, meta, len)
      PROVE  OffsetsLead'
  <2>1. ItemOK(Symlink(len)) /\ PlainItem(Symlink(len))
    BY EncoderAssumption, SizedItemsOK DEF PlainItem, Calm, Symlink
  <2>2. /\ AddFileEntry(n, SeqWrite(start, Symlink(len)))
        /\ UNCHANGED <<links, promised>>
    BY <1>6 DEF AddSymlink, start
  <2>3. /\ Symlink(len).htype # "PAYLOAD_REF" /\ Calm(Symlink(len))
        /\ CellLeads(SeqWrite(start, Symlink(len)).out.cells,
                     [at |-> start.out.len, item |-> Symlink(len)])
    BY <1>5, <2>1
  <2> QED BY <1>3, <2>1, <2>2, <2>3, AddFileEntryLeads
<1>7. CASE AddDevice(n, meta)
  <2>1. ItemOK(Device) /\ PlainItem(Device)
    BY FixedItemsOK DEF PlainItem, Calm, Device
  <2>2. /\ AddFileEntry(n, SeqWrite(start, Device))
        /\ UNCHANGED <<links, promised>>
    BY <1>7 DEF AddDevice, start
  <2>3. /\ Device.htype # "PAYLOAD_REF" /\ Calm(Device)
        /\ CellLeads(SeqWrite(start, Device).out.cells,
                     [at |-> start.out.len, item |-> Device])
    BY <1>5, <2>1
  <2> QED BY <1>3, <2>1, <2>2, <2>3, AddFileEntryLeads
<1>8. CASE AddFifo(n, meta) \/ AddSocket(n, meta)
  <2>1. /\ AddFileEntry(n, SeqWrite(named, Entry(meta)))
        /\ UNCHANGED <<links, promised>>
    BY <1>4, <1>8 DEF AddFifo, AddSocket, start
  <2>2. /\ Entry(meta).htype # "PAYLOAD_REF" /\ Calm(Entry(meta))
        /\ CellLeads(SeqWrite(named, Entry(meta)).out.cells,
                     [at |-> named.out.len, item |-> Entry(meta)])
    BY <1>1, <1>5, PlainNamedItems
  <2> QED BY <1>3, <2>1, <2>2, AddFileEntryLeads
<1> QED BY <1>6, <1>7, <1>8

LEMMA AddHardlinkLeads ==
  ASSUME OInv, "finish" \notin faults', NEW n \in Names,
         NEW len \in TargetLens, NEW target \in links,
         AddHardlink(n, len, target)
  PROVE  OffsetsLead'
<1> DEFINE named == SeqWrite(ArchiveWriter, Filename(n))
           link == Hardlink(Top.write_position - target, target, len)
           full == SeqWrite(named, link)
           own == [at |-> Top.write_position, item |-> Filename(n)]
           last == [at |-> named.out.len, item |-> link]
<1>1. /\ state # <<>> /\ faults \subseteq faults'
      /\ AddFileEntry(n, full)
      /\ UNCHANGED <<links, promised>>
  BY DEF AddHardlink, AddFileEntry, Check, Usable, EntryAdded, CallFails, Fail
<1>2. /\ IInv /\ "finish" \notin faults
      /\ target \in Nat /\ Top.write_position \in Nat
  BY <1>1, TopOK DEF OInv, IInv, TypeOK
<1>3. /\ Extends(ArchiveWriter, named) /\ Plainly(ArchiveWriter, named)
      /\ NameLeads(named.out.cells, Top.write_position, HashOf[n])
      /\ own \in named.out.cells
      /\ named.out.len = Top.write_position + Filename(n).size
  BY <1>1, <1>2, NamedLeads
<1>4. /\ ItemOK(link) /\ link.htype = "HARDLINK"
      /\ link.offset = Top.write_position - target /\ link.target = target
  BY EncoderAssumption, SizedItemsOK DEF Hardlink
<1>5. FileLeads(archive.cells, target) /\ ArchiveWriter.out = archive
  BY <1>1, <1>2, TopLeads DEF OffsetsLead
<1>6. /\ own.at = Top.write_position /\ own.item.htype = "FILENAME"
      /\ own.item.size = Filename(n).size
      /\ last.at = named.out.len /\ last.item = link
  BY DEF Filename
<1> HIDE DEF named, own, link, last
<1>7. /\ archive.cells \subseteq full.out.cells
      /\ own \in full.out.cells
  <2>1. archive.cells \subseteq named.out.cells
    BY <1>3, <1>5 DEF Extends
  <2> QED BY <1>3, <2>1, SeqWriteCells
<1> HIDE DEF full
<1>8. CellLeads(full.out.cells, last)
  <2>1. PICK there, entry \in archive.cells :
          /\ there.at = target /\ there.item.htype = "FILENAME"
          /\ entry.at = there.at + there.item.size
          /\ entry.item.htype = "ENTRY" /\ entry.item.kind = "file"
    BY <1>5 DEF FileLeads
  <2>2. there.at + link.offset = own.at
    BY <1>2, <1>4, <1>6, <2>1
  <2>3. HardlinkLeads(full.out.cells, last)
    BY <1>3, <1>4, <1>6, <1>7, <2>1, <2>2 DEF HardlinkLeads
  <2> QED BY <1>4, <1>6, <2>3 DEF CellLeads
<1>9. link.htype # "PAYLOAD_REF" /\ Calm(link)
  BY <1>4 DEF Calm
<1> QED BY <1>1, <1>3, <1>4, <1>8, <1>9, AddFileEntryLeads DEF full, last

LEMMA AddPayloadRefLeads ==
  ASSUME OInv, "finish" \notin faults',
         NEW n \in Names, NEW meta \in MetasOf("file"),
         NEW ref \in KnownPayloads \cup NextPayloads,
         AddPayloadRef(n, meta, ref)
  PROVE  OffsetsLead'
<1> DEFINE start == StartFile(n, meta)
           item == PayloadRef(ref.offset, ref.content)
           full == SeqWrite(start, item)
           last == [at |-> start.out.len, item |-> item]
<1>1. /\ state # <<>> /\ Check /\ Room /\ faults \subseteq faults'
      /\ promised = <<>>
      /\ ref.offset >= Top.payload_write_position
      /\ UNCHANGED <<payload, file, phase, result>>
      /\ \/ /\ EntryAdded(n, full)
            /\ links' = links \cup {Top.write_position}
            /\ promised' = <<ref>>
         \/ /\ CallFails(full)
            /\ UNCHANGED <<links, promised>>
  BY DEF AddPayloadRef, Check, Usable, EntryAdded, CallFails, Fail
<1>2. /\ IInv /\ "finish" \notin faults
      /\ meta \in Metas /\ meta.kind = "file"
  BY <1>1 DEF OInv, MetasOf
<1>3. /\ Top.payload_write_position = payload.len /\ payload.len \in Nat
      /\ Stream(payload)
  BY <1>1, <1>2, TopLeads DEF IInv, TypeOK
(* A payload that is there already begins before the end of the stream.     *)
<1>4. /\ ref.offset = payload.len
      /\ ref.content \in FileSizes /\ ref.content \in Nat
  <2>1. CASE ref \in KnownPayloads
    <3>1. PICK c \in payload.cells :
            /\ c.item.htype = "PAYLOAD"
            /\ ref = [offset |-> c.at, content |-> c.item.content]
      BY <2>1 DEF KnownPayloads, CellsOf
    <3>2. /\ c.at \in Nat /\ c.item.size \in Nat
          /\ c.item.size >= HeaderSize
          /\ c.at + c.item.size <= payload.len
      BY <1>3, <3>1 DEF Stream, ItemOK
    <3>3. c.at < payload.len
      BY <1>3, <3>2 DEF HeaderSize
    <3> QED BY <1>1, <1>3, <3>1, <3>2, <3>3
  <2>2. CASE ref \in NextPayloads
    BY <1>3, <2>2, EncoderAssumption DEF NextPayloads
  <2> QED BY <2>1, <2>2
<1>5. /\ ItemOK(item)
      /\ item.htype = "PAYLOAD_REF"
      /\ item.offset = ref.offset /\ item.content = ref.content
  <2>1. ItemOK(item)
    BY <1>3, <1>4, SizedItemsOK
  <2> QED BY <2>1 DEF PayloadRef
<1>6. /\ Extends(ArchiveWriter, start) /\ Plainly(ArchiveWriter, start)
      /\ NameLeads(start.out.cells, Top.write_position, HashOf[n])
      /\ FileLeads(start.out.cells, Top.write_position)
  BY <1>1, <1>2, StartFileOK, StartFileLeads
<1> HIDE DEF start, item
<1>7. start.out.cells \subseteq full.out.cells
  BY SeqWriteCells
<1> HIDE DEF full
<1>8. FileLeads(full.out.cells, Top.write_position)
  BY <1>6, <1>7, LeadsMore
<1>9. CellLeads(full.out.cells, last) /\ Calm(item)
  BY <1>5 DEF CellLeads, Calm
<1>10. ASSUME promised' = <<ref>>
       PROVE  /\ RefLeads(payload.cells, promised', last)
              /\ promised'[1].offset = Top.payload_write_position
  <2>1. promised' # <<>> /\ promised'[1] = ref
    BY <1>10
  <2>2. Promise(promised', item)
    BY <1>5, <2>1 DEF Promise
  <2> QED BY <1>3, <1>4, <2>1, <2>2 DEF RefLeads
<1>11. CASE /\ EntryAdded(n, full)
            /\ links' = links \cup {Top.write_position}
            /\ promised' = <<ref>>
  <2>1. \A l \in links' : l \in links \/ FileLeads(full.out.cells, l)
    BY <1>8, <1>11
  <2> QED BY <1>1, <1>5, <1>6, <1>9, <1>10, <1>11, <2>1, EntryCallLeads
          DEF full
<1>12. CASE CallFails(full) /\ UNCHANGED <<links, promised>>
  BY <1>1, <1>5, <1>6, <1>12, EntryCallLeads DEF full
<1> QED BY <1>1, <1>11, <1>12 DEF full

(* The promise is kept: the payload begins where the reference leads.       *)
LEMMA AdvanceLeads ==
  ASSUME OInv, "finish" \notin faults', Advance
  PROVE  OffsetsLead'
<1> DEFINE k == promised[1].content
           h == SeqWrite(PayloadWriter, Payload(k))
           p == SeqWriteData(h, k)
           t == PayloadAt(Top, p.position)
           x == [at |-> payload.len, item |-> Payload(k)]
<1>1. /\ state # <<>> /\ ~file.open /\ promised # <<>>
      /\ SetTop(t) /\ payload' = p.out /\ archive' = archive
      /\ promised' = <<>>
      /\ UNCHANGED <<file, phase, result, links, faults>>
  BY DEF Advance, Usable
<1>2. /\ IInv /\ "finish" \notin faults
      /\ promised[1].offset = payload.len
  <2>1. IInv /\ "finish" \notin faults
    BY <1>1 DEF OInv
  <2>2. OffsetsLead /\ Top.payload_write_position = payload.len
    BY <1>1, <2>1, TopLeads
  <2> QED BY <1>1, <2>1, <2>2 DEF OffsetsLead, PromiseHolds
<1>3. k \in FileSizes /\ k \in Nat
  <2>1. promised \in Seq(PayloadRefs)
    BY <1>2 DEF IInv, TypeOK
  <2>2. promised[1] \in PayloadRefs
    BY <1>1, <2>1
  <2> QED BY <2>2, EncoderAssumption DEF PayloadRefs
<1> HIDE DEF k
<1>4. ItemOK(Payload(k))
  BY <1>3, SizedItemsOK
<1>5. /\ IsWriter(PayloadWriter) /\ IsWriter(ArchiveWriter)
      /\ Extends(ArchiveWriter, ArchiveWriter)
      /\ DirOK(Top) /\ Top \in EncoderStates
      /\ ArchiveWriter.out = archive /\ PayloadWriter.out = payload
  BY <1>1, <1>2, TopOK, TopLeads, ExtendsReflexive DEF DirOK
<1>6. Extends(PayloadWriter, h) /\ IsWriter(h) /\ x \in h.out.cells
  BY <1>4, <1>5, SeqWriteExtends DEF Extends
<1>7. /\ x.at = payload.len /\ x.item.htype = "PAYLOAD"
      /\ x.item.content = k
  BY DEF Payload
<1> HIDE DEF h, x
<1>8. /\ Extends(PayloadWriter, p) /\ p.position \in Nat
      /\ x \in p.out.cells
  <2>1. Extends(h, p)
    BY <1>3, <1>6, SeqWriteDataExtends
  <2> HIDE DEF p
  <2>2. Extends(PayloadWriter, p)
    BY <1>5, <1>6, <2>1, ExtendsTransitive
  <2> QED BY <1>6, <2>1, <2>2 DEF Extends, IsWriter
<1>9. /\ DirOK(t)
      /\ t.write_position = Top.write_position
      /\ t.payload_write_position = p.position
      /\ t.items = Top.items /\ t.entry_offset = Top.entry_offset
      /\ t.file_offset = Top.file_offset /\ t.file_hash = Top.file_hash
  BY <1>5, <1>8, PayloadAtOK, PayloadAtFields
<1> HIDE DEF t, p
<1>10. OrdinaryStep(t, ArchiveWriter, p)
  BY <1>1, <1>5, <1>8, <1>9 DEF OrdinaryStep, ArchiveWriter
<1>11. Remembers(ArchiveWriter.out.cells, t)
  BY <1>9 DEF Remembers
<1>12. ASSUME NEW ref, Promise(promised, ref)
       PROVE  PayloadAtOffset(p.out.cells, ref)
  <2>1. ref.offset = payload.len /\ ref.content = k
    BY <1>2, <1>12 DEF Promise, k
  <2> QED BY <1>7, <1>8, <2>1 DEF PayloadAtOffset
<1>13. ~file'.open /\ \A l \in links' : l \in links
  BY <1>1
<1> QED BY <1>1, <1>5, <1>10, <1>11, <1>12, <1>13, StepLeads

-----------------------------------------------------------------------------
(***************************************************************************)
(* Calls that change the stack.                                            *)
(***************************************************************************)
LEMMA StackStepLeads ==
  ASSUME OInv, "finish" \notin faults, ~file'.open, phase' # "new",
         StackLeads(archive'.cells, state'), StackHasRoom(state'),
         Brackets(archive'.cells, state'),
         PromiseHolds', UNCHANGED <<links, promised>>,
         archive.cells \subseteq archive'.cells,
         payload.cells \subseteq payload'.cells,
         \A c \in archive'.cells \ archive.cells :
           /\ CellLeads(archive'.cells, c)
           /\ RefLeads(payload'.cells, promised', c)
  PROVE  OffsetsLead'
<1>1. OffsetsLead
  BY DEF OInv
<1>2. OpenFileLeads' /\ NothingYet'
  BY DEF OpenFileLeads, NothingYet
<1>3. \A l \in links' : FileLeads(archive'.cells, l)
  <2>1. \A l : FileLeads(archive.cells, l) => FileLeads(archive'.cells, l)
    BY LeadsMore
  <2> QED BY <1>1, <2>1 DEF OffsetsLead
<1>4. \A c \in archive'.cells : CellLeads(archive'.cells, c)
  <2> SUFFICES ASSUME NEW c \in archive'.cells
               PROVE  CellLeads(archive'.cells, c)
    OBVIOUS
  <2>1. ASSUME c \in archive.cells PROVE CellLeads(archive'.cells, c)
    <3>1. CellLeads(archive.cells, c)
      BY <1>1, <2>1 DEF OffsetsLead
    <3> QED BY <3>1, CellLeadsMore
  <2> QED BY <2>1
<1>5. \A c \in archive'.cells : RefLeads(payload'.cells, promised', c)
  <2> SUFFICES ASSUME NEW c \in archive'.cells
               PROVE  RefLeads(payload'.cells, promised', c)
    OBVIOUS
  <2>1. ASSUME c \in archive.cells
        PROVE  RefLeads(payload'.cells, promised', c)
    <3>1. RefLeads(payload.cells, promised, c)
      BY <1>1, <2>1 DEF OffsetsLead
    <3>2. PayloadAtOffset(payload.cells, c.item)
            => PayloadAtOffset(payload'.cells, c.item)
      BY DEF PayloadAtOffset
    <3> QED BY <3>1, <3>2 DEF RefLeads
  <2> QED BY <2>1
<1> QED BY <1>2, <1>3, <1>4, <1>5 DEF OffsetsLead

LEMMA PushLeads ==
  ASSUME NEW cells, NEW s \in Seq(EncoderStates), StackLeads(cells, s),
         \A d \in 1..Len(s) : Len(s[d].items) < MaxItems,
         \A d \in 1..Len(s) : Len(s[d].items) <= MaxItems,
         NEW t \in EncoderStates, DirLeads(cells, Len(s) + 1, t),
         Len(t.items) <= MaxItems
  PROVE  StackLeads(cells, Append(s, t)) /\ StackHasRoom(Append(s, t))
<1> DEFINE u == Append(s, t)
<1>1. /\ Len(s) \in Nat /\ Len(u) = Len(s) + 1
      /\ \A d \in 1..Len(s) : u[d] = s[d]
      /\ u[Len(s) + 1] = t
  OBVIOUS
<1> HIDE DEF u
<1>2. ASSUME NEW d \in 1..Len(u)
      PROVE  DirLeads(cells, d, u[d]) /\ Len(u[d].items) <= MaxItems
  <2>1. CASE d \in 1..Len(s)
    BY <1>1, <2>1 DEF StackLeads
  <2>2. CASE d = Len(s) + 1
    BY <1>1, <2>2
  <2> QED BY <1>1, <2>1, <2>2
<1>3. ASSUME NEW d \in 1..Len(u) - 1
      PROVE  Len(u[d].items) < MaxItems
  BY <1>1
<1> QED BY <1>2, <1>3 DEF StackLeads, StackHasRoom, u

LEMMA CreateDirectoryLeads ==
  ASSUME OInv, "finish" \notin faults', NEW n \in Names, NEW meta \in Metas,
         CreateDirectory(n, meta)
  PROVE  OffsetsLead'
<1> DEFINE named == SeqWrite(ArchiveWriter, Filename(n))
           full == SeqWrite(named, Entry(meta))
           outer == At(Top, full.position)
           moved == [state EXCEPT ![Depth] = outer]
           inner == Subdirectory(n, named, full)
           e == [at |-> named.out.len, item |-> Entry(meta)]
<1>1. /\ state # <<>> /\ ~file.open /\ Check /\ Room /\ phase = "open"
      /\ Len(Top.items) < MaxItems
      /\ faults \subseteq faults'
  BY DEF CreateDirectory, Check, Usable, Room, CallFails, Fail
<1>2. /\ IInv /\ "finish" \notin faults
  BY <1>1 DEF OInv
<1>3. /\ OffsetsLead
      /\ DirLeads(archive.cells, Depth, Top)
      /\ Depth \in Nat \ {0} /\ Depth = Len(state)
      /\ DirOK(Top) /\ Top \in EncoderStates
      /\ Top.write_position \in Nat /\ Top.payload_write_position \in Nat
      /\ ArchiveWriter.out = archive
      /\ state \in Seq(EncoderStates)
  BY <1>1, <1>2, TopLeads, TopOK DEF DirOK, IInv, TypeOK
<1>4. /\ Extends(ArchiveWriter, named) /\ Plainly(ArchiveWriter, named)
      /\ NameLeads(named.out.cells, Top.write_position, HashOf[n])
      /\ ItemOK(Entry(meta)) /\ HashOf[n] \in Nat
  BY <1>1, <1>2, NamedLeads, NamedItemsOK, NamesAssumption
<1>5. full = StartFile(n, meta)
  BY DEF StartFile
<1>6. /\ Extends(ArchiveWriter, full)
      /\ NameLeads(full.out.cells, Top.write_position, HashOf[n])
      /\ EntryLeads(full.out.cells, named.position)
  BY <1>1, <1>2, <1>5, StartFileOK, StartFileLeads
<1>7. /\ \/ /\ archive' = full.out
            /\ state' = Append(moved, inner)
            /\ faults' = faults
         \/ CallFails(full)
      /\ UNCHANGED <<payload, file, phase, result, links, promised>>
  BY DEF CreateDirectory
<1>8. inner = EncoderState(named.position, full.position, Top.write_position,
                           HashOf[n], full.position,
                           Top.payload_write_position)
  BY DEF Subdirectory
<1>9. CASE CallFails(full)
  BY <1>1, <1>4, <1>7, <1>9, EntryCallLeads
<1>11. /\ full.out.cells = named.out.cells \cup {e}
       /\ e.at = named.position /\ e.at = named.out.len
       /\ e.item.htype = "ENTRY" /\ e.item.kind = "dir"
  <2>1. meta.kind = "dir"
    BY DEF CreateDirectory
  <2>2. named.position = named.out.len
    BY <1>1, <1>2, NamedLeads
  <2>3. full.out.cells = named.out.cells \cup {e}
    BY SeqWriteCells
  <2> QED BY <2>1, <2>2, <2>3 DEF Entry
<1> HIDE DEF named, full, inner, e
<1>10. CASE /\ archive' = full.out
            /\ state' = Append(moved, inner)
            /\ faults' = faults
  <2>1. /\ archive.cells \subseteq full.out.cells
        /\ full.position \in Nat /\ named.position \in Nat
        /\ Top.write_position <= full.position
    BY <1>3, <1>4, <1>6 DEF Extends, IsWriter, ArchiveWriter
  <2>2. /\ DirOK(outer) /\ outer \in EncoderStates
        /\ outer.items = Top.items /\ outer.entry_offset = Top.entry_offset
        /\ outer.file_offset = Top.file_offset
        /\ outer.file_hash = Top.file_hash
    BY <1>3, <2>1, AtOK, AtFields DEF DirOK
  <2> HIDE DEF outer
  <2>3. DirLeads(full.out.cells, Len(state), outer)
    <3>1. DirLeads(full.out.cells, Depth, Top)
      BY <1>3, <2>1, DirLeadsMore
    <3> QED BY <1>3, <2>2, <3>1 DEF DirLeads
  <2>4. /\ moved \in Seq(EncoderStates)
        /\ Len(moved) = Len(state)
        /\ moved[Len(moved)] = outer
    BY <1>3, <2>2
  <2>5. Len(outer.items) < MaxItems /\ Len(outer.items) <= MaxItems
    <3>1. Len(Top.items) \in Nat /\ MaxItems \in Nat
      BY <1>1, <1>2, TopLeads, EncoderAssumption
    <3> QED BY <1>1, <2>2, <3>1
  <2>6. /\ StackLeads(full.out.cells, moved) /\ StackHasRoom(moved)
    <3>1. StackLeads(archive.cells, state) /\ StackHasRoom(state)
      BY <1>3 DEF OffsetsLead
    <3> QED BY <1>1, <1>3, <2>1, <2>2, <2>3, <2>5, <3>1, SetTopLeads
  <2> HIDE DEF moved
  <2>7. /\ inner \in EncoderStates
        /\ inner.payload_write_position = Top.payload_write_position
        /\ inner.entry_offset = named.position
        /\ inner.file_offset = Top.write_position
        /\ inner.file_hash = HashOf[n]
        /\ inner.items = <<>>
    BY <1>3, <1>4, <1>8, <2>1 DEF EncoderState, EncoderStates, EncodeErrors
  <2>8. DirLeads(full.out.cells, Len(moved) + 1, inner)
    BY <1>6, <2>7 DEF DirLeads, ItemsLead
  <2>9. /\ \A d \in 1..Len(moved) : Len(moved[d].items) < MaxItems
        /\ \A d \in 1..Len(moved) : Len(moved[d].items) <= MaxItems
        /\ Len(inner.items) <= MaxItems
    BY <1>3, <2>4, <2>5, <2>6, <2>7, EncoderAssumption DEF StackHasRoom
  <2>10. StackLeads(full.out.cells, state') /\ StackHasRoom(state')
    BY <1>10, <2>4, <2>6, <2>7, <2>8, <2>9, PushLeads
  <2>11. Top' = inner
    <3>1. /\ Len(state') = Len(moved) + 1
          /\ state'[Len(moved) + 1] = inner
      BY <1>10, <2>4, <2>7
    <3> QED BY <3>1 DEF Top, Depth
  <2>12. PromiseHolds'
    BY <1>1, <1>3, <1>7, <2>7, <2>11 DEF OffsetsLead, PromiseHolds
  <2>13. \A c \in archive'.cells \ archive.cells :
           /\ CellLeads(archive'.cells, c)
           /\ RefLeads(payload'.cells, promised', c)
           /\ c = e \/ Calm(c.item)
    <3> SUFFICES ASSUME NEW c \in full.out.cells \ archive.cells
                 PROVE  /\ CellLeads(archive'.cells, c)
                        /\ RefLeads(payload'.cells, promised', c)
                        /\ c = e \/ Calm(c.item)
      BY <1>10
    <3>1. CASE c = e
      BY <1>11, <3>1 DEF CellLeads, RefLeads
    <3>2. CASE c \in named.out.cells
      <4>1. PlainItem(c.item)
        BY <1>3, <1>4, <3>2 DEF Plainly
      <4> QED BY <4>1, PlainCellLeads
    <3> QED BY <1>11, <3>1, <3>2
  <2>14. Brackets(archive'.cells, state')
    <3>1. /\ GrownTo(archive, archive'.cells)
          /\ e.at \in Nat /\ archive.len <= e.at
      <4>1. Stream(archive) /\ Stream(full.out) /\ archive.len \in Nat
        BY <1>2, <1>6 DEF Extends, IsWriter, IInv, TypeOK, Stream
      <4>2. \A c \in full.out.cells \ archive.cells : archive.len <= c.at
        BY <1>3, <1>6 DEF Extends
      <4>3. \A c \in full.out.cells : c.at \in Nat
        BY <4>1 DEF Stream
      <4>4. GrownTo(archive, archive'.cells)
        BY <1>10, <2>1, <4>1, <4>2, <4>3 DEF GrownTo
      <4>5. e \in full.out.cells
        BY <1>11
      <4>6. e.at \in Nat /\ archive.len <= e.at
        <5>1. CASE e \in archive.cells
          <6>1. named.out.len \in Nat /\ named.position \in Nat
            BY <1>4 DEF Extends, IsWriter, Stream
          <6>2. archive.len <= named.out.len
            BY <1>3, <1>4, <4>1, <6>1 DEF Extends, ArchiveWriter
          <6> QED BY <1>11, <6>1, <6>2
        <5>2. CASE e \notin archive.cells
          BY <4>2, <4>3, <4>5, <5>2
        <5> QED BY <5>1, <5>2
      <4> QED BY <4>4, <4>6
    <3>2. e \in Dirs(archive'.cells)
      BY <1>10, <1>11 DEF Dirs
    <3>3. BegunBy(archive'.cells, inner, e)
      BY <1>11, <2>7 DEF BegunBy
    <3>4. /\ Len(state') = Len(state) + 1
          /\ state'[Len(state')] = inner
          /\ \A d \in 1..Len(state) :
               state'[d].entry_offset = state[d].entry_offset
      <4>1. \A d \in 1..Len(state) :
              moved[d] = IF d = Len(state) THEN outer ELSE state[d]
        BY <1>3 DEF moved
      <4>2. /\ Len(state') = Len(moved) + 1
            /\ state'[Len(moved) + 1] = inner
            /\ \A d \in 1..Len(moved) : state'[d] = moved[d]
        BY <1>10, <2>4, <2>7
      <4>3. outer.entry_offset = state[Len(state)].entry_offset
        BY <1>3, <2>2 DEF Top
      <4> QED BY <2>4, <4>1, <4>2, <4>3
    <3>5. Brackets(archive.cells, state)
      BY <1>3 DEF OffsetsLead
    <3> QED BY <1>3, <2>13, <3>1, <3>2, <3>3, <3>4, <3>5, EnterKeepsBrackets
  <2> QED BY <1>1, <1>2, <1>7, <1>10, <2>1, <2>10, <2>12, <2>13, <2>14,
             StackStepLeads
<1> QED BY <1>7, <1>9, <1>10

(* The table written for a directory: its rows are the items in another      *)
(* order, with their offsets counted backwards from the table.              *)
LEMMA TableLeads ==
  ASSUME OInv, "finish" \notin faults, state # <<>>,
         NEW p \in SortedOrders(Top.items)
  PROVE  CellLeads(archive.cells,
                   [at |-> archive.len, item |-> GoodbyeTable(Top, p)])
<1> DEFINE items == Top.items
           n == Len(items)
           rows == GoodbyeRows(Top, p)
           tail == GoodbyeTail(Top)
           g == [at |-> archive.len, item |-> GoodbyeTable(Top, p)]
<1>1. /\ DirLeads(archive.cells, Depth, Top)
      /\ items \in Seq(GoodbyeItem)
      /\ n \in Nat /\ n \in 0..MaxItems
      /\ Top.write_position = archive.len /\ archive.len \in Nat
      /\ DirOK(Top) /\ Top \in EncoderStates
      /\ Top.entry_offset \in Nat
  BY TopLeads, TopOK, EncoderAssumption DEF OInv, DirOK, EncoderStates
<1>2. ASSUME NEW i \in 1..n
      PROVE  p[Layout[n][i]] \in 1..n
  <2>1. Layout[n][i] \in 1..n
    BY <1>1, <1>2, LayoutAssumption
  <2>2. p \in [1..n -> 1..n]
    BY DEF SortedOrders
  <2> QED BY <2>1, <2>2
<1>3. rows = [i \in 1..n |->
                [items[p[Layout[n][i]]] EXCEPT
                   !.offset = Top.write_position - @]]
  BY DEF GoodbyeRows
<1> HIDE DEF rows
<1>4. rows = [i \in 1..n |-> rows[i]]
  BY <1>3
<1>5. Len(rows) = n
  BY <1>1, <1>4, LenOfFunction
<1>6. /\ g.at = archive.len /\ g.item.htype = "GOODBYE"
      /\ g.item.rows = rows /\ g.item.tail = tail
      /\ g.item.size = GoodbyeSize(n)
  BY <1>5 DEF GoodbyeTable, Goodbye, rows
<1>7. /\ tail.offset = archive.len - Top.entry_offset
      /\ tail.size = GoodbyeSize(n)
  BY <1>1 DEF GoodbyeTail
<1> HIDE DEF g, tail
<1>8. RowsLead(archive.cells, g)
  <2> SUFFICES ASSUME NEW i \in 1..n
               PROVE  /\ rows[i].offset <= g.at
                      /\ NameLeads(archive.cells, g.at - rows[i].offset,
                                   rows[i].hash)
    BY <1>5, <1>6 DEF RowsLead
  <2> DEFINE k == p[Layout[n][i]]
             item == items[k]
  <2>1. k \in 1..n
    BY <1>2
  <2>2. rows[i] = [item EXCEPT !.offset = Top.write_position - @]
    BY <1>3
  <2>3. /\ item \in GoodbyeItem
        /\ item.offset <= Top.write_position
        /\ NameLeads(archive.cells, item.offset, item.hash)
    BY <1>1, <2>1 DEF DirOK, BehindPosition, DirLeads, ItemsLead
  <2> HIDE DEF k, item
  <2>4. /\ item.offset \in Nat
        /\ rows[i].offset = Top.write_position - item.offset
        /\ rows[i].hash = item.hash
    BY <2>2, <2>3 DEF GoodbyeItem
  <2>5. rows[i].offset <= g.at /\ g.at - rows[i].offset = item.offset
    BY <1>1, <1>6, <2>3, <2>4
  <2> QED BY <2>3, <2>4, <2>5
<1>9. TailLeads(archive.cells, g)
  <2>1. Top.entry_offset <= archive.len
    BY <1>1 DEF DirOK, BehindPosition
  <2>2. g.at - g.item.tail.offset = Top.entry_offset
    BY <1>1, <1>6, <1>7, <2>1
  <2>3. CASE EntryLeads(archive.cells, Top.entry_offset)
    BY <1>6, <1>7, <2>2, <2>3 DEF TailLeads
  <2>4. CASE Split /\ Top.entry_offset = 0
    BY <1>1, <1>6, <1>7, <2>4 DEF TailLeads
  <2> QED BY <1>1, <2>3, <2>4 DEF DirLeads
<1> QED BY <1>6, <1>8, <1>9 DEF CellLeads, g

LEMMA FinishLeads ==
  ASSUME OInv, "finish" \notin faults', Finish
  PROVE  OffsetsLead'
<1>1. /\ state # <<>> /\ ~file.open /\ phase = "open"
      /\ UNCHANGED <<payload, file, phase, links, promised, faults>>
  BY DEF Finish, Usable
<1>2. /\ IInv /\ "finish" \notin faults
  BY <1>1 DEF OInv
<1>3. PICK p \in SortedOrders(Top.items) :
        LET w == SeqWrite(ArchiveWriter, GoodbyeTable(Top, p)) IN
        /\ archive' = w.out
        /\ state' = IF Depth = 1
                      THEN <<>>
                      ELSE [Parents EXCEPT
                              ![Depth - 1] = PopInto(state[Depth - 1], Top,
                                                     w.position)]
  BY DEF Finish
<1> DEFINE table == GoodbyeTable(Top, p)
           w == SeqWrite(ArchiveWriter, table)
           g == [at |-> archive.len, item |-> table]
           parent == state[Depth - 1]
           t == PopInto(parent, Top, w.position)
<1>4. /\ OffsetsLead
      /\ DirLeads(archive.cells, Depth, Top)
      /\ ArchiveWriter.out = archive /\ PayloadWriter.out = payload
      /\ Depth \in Nat \ {0} /\ Depth = Len(state)
      /\ DirOK(Top) /\ IsWriter(ArchiveWriter)
      /\ state \in Seq(EncoderStates)
      /\ MaxItems \in Nat
  BY <1>1, <1>2, TopLeads, TopOK, EncoderAssumption DEF IInv, TypeOK
<1>5. CellLeads(archive.cells, g) /\ g.item.htype = "GOODBYE"
  <2>1. CellLeads(archive.cells, g)
    BY <1>1, <1>2, TableLeads
  <2> QED BY <2>1 DEF GoodbyeTable, Goodbye
<1>6. /\ archive' = w.out
      /\ state' = IF Depth = 1 THEN <<>>
                  ELSE [Parents EXCEPT ![Depth - 1] = t]
  BY <1>3
<1>7. w.out.cells = archive.cells \cup {g}
  BY <1>4, SeqWriteCells
<1>8. w.position \in Nat /\ Top.write_position <= w.position
  <2>1. Extends(ArchiveWriter, w)
    BY <1>4, GoodbyeTableOK, SeqWriteExtends
  <2> QED BY <2>1 DEF Extends, IsWriter, ArchiveWriter
<1>13. ASSUME Len(state') = Len(state) - 1,
              \A d \in 1..Len(state') :
                state'[d].entry_offset = state[d].entry_offset
       PROVE  Brackets(archive'.cells, state')
  <2>1. g.item.htype = "GOODBYE" /\ g.at = archive.len
    BY <1>5
  <2>2. /\ Top.entry_offset \in Nat /\ Top.entry_offset <= archive.len
        /\ g.item.tail.offset = archive.len - Top.entry_offset
    <3>1. Top.write_position = archive.len
      BY <1>1, <1>2, TopLeads
    <3> QED BY <1>4, <3>1
            DEF DirOK, EncoderStates, BehindPosition, GoodbyeTable, Goodbye,
                GoodbyeTail
  <2> HIDE DEF table, w, g, t
  <2>3. GrownTo(archive, archive.cells \cup {g})
    BY <1>2, <2>1 DEF GrownTo, Stream, IInv, TypeOK
  <2>4. Brackets(archive.cells, state)
    BY <1>4 DEF OffsetsLead
  <2>5. Brackets(archive.cells \cup {g}, state')
    BY <1>4, <1>13, <2>1, <2>2, <2>3, <2>4, LeaveKeepsBrackets DEF Top
  <2> QED BY <1>6, <1>7, <2>5
<1> HIDE DEF table, w, g, t
<1>9. archive.cells \subseteq archive'.cells
  BY <1>6, <1>7
<1>10. \A c \in archive'.cells \ archive.cells :
         /\ CellLeads(archive'.cells, c)
         /\ RefLeads(payload'.cells, promised', c)
  <2> SUFFICES ASSUME NEW c \in archive'.cells \ archive.cells
               PROVE  /\ CellLeads(archive'.cells, c)
                      /\ RefLeads(payload'.cells, promised', c)
    OBVIOUS
  <2>1. c = g
    BY <1>6, <1>7
  <2>2. CellLeads(archive'.cells, g)
    BY <1>5, <1>9, CellLeadsMore
  <2> QED BY <1>5, <2>1, <2>2 DEF RefLeads
<1>11. CASE Depth = 1
  <2>1. state' = <<>>
    BY <1>6, <1>11
  <2>2. StackLeads(archive'.cells, state') /\ StackHasRoom(state')
    BY <2>1 DEF StackLeads, StackHasRoom
  <2>3. PromiseHolds'
    BY <2>1 DEF PromiseHolds
  <2>4. Brackets(archive'.cells, state')
    <3>1. Len(state') = Len(state) - 1
      BY <1>4, <1>11, <2>1
    <3> QED BY <1>13, <2>1, <3>1
  <2> QED BY <1>1, <1>2, <1>9, <1>10, <2>2, <2>3, <2>4, StackStepLeads
<1>12. CASE Depth # 1
  <2>1. /\ Depth - 1 \in 1..Len(state) - 1
        /\ Depth - 1 \in 1..Len(state) /\ Depth > 1
    BY <1>4, <1>12
  <2>2. StackLeads(archive.cells, state) /\ StackHasRoom(state)
    BY <1>4 DEF OffsetsLead
  <2>3. /\ parent \in EncoderStates
        /\ parent.items \in Seq(GoodbyeItem)
        /\ Len(parent.items) \in Nat
        /\ Len(parent.items) < MaxItems
        /\ DirLeads(archive.cells, Depth - 1, parent)
    <3>1. parent \in EncoderStates
      BY <1>4, <2>1
    <3>2. parent.items \in Seq(GoodbyeItem)
      BY <3>1 DEF EncoderStates
    <3> QED BY <2>1, <2>2, <3>1, <3>2 DEF StackLeads, StackHasRoom
  <2>4. /\ DirOK(parent)
        /\ parent.write_position <= w.position
    <3>1. DirOK(parent) /\ parent.write_position <= Top.write_position
      <4>1. Depth - 1 + 1 = Depth
        BY <1>4
      <4> QED BY <1>2, <1>4, <2>1, <4>1, StackOKInIInv DEF StackOK, Top
    <3>2. parent.write_position \in Nat /\ Top.write_position \in Nat
      BY <1>4, <3>1 DEF DirOK, EncoderStates
    <3> QED BY <1>8, <3>1, <3>2
  <2> DEFINE item == DirectoryItem(Top, w.position)
             moved == PayloadAt(At(parent, w.position),
                                Top.payload_write_position)
  <2>5. /\ item.offset = Top.file_offset /\ item.hash = Top.file_hash
        /\ item \in GoodbyeItem /\ item.offset <= w.position
    <3>1. /\ Top.file_offset \in Nat /\ Top.file_hash \in Nat
          /\ Top.write_position \in Nat
          /\ Top.file_offset <= Top.write_position
      BY <1>4 DEF DirOK, EncoderStates, BehindPosition
    <3> QED BY <1>8, <3>1 DEF DirectoryItem, GoodbyeItem
  <2>6. /\ DirOK(moved)
        /\ moved.write_position = w.position
        /\ moved.payload_write_position = Top.payload_write_position
        /\ moved.items = parent.items
        /\ moved.entry_offset = parent.entry_offset
        /\ moved.file_offset = parent.file_offset
        /\ moved.file_hash = parent.file_hash
    <3>1. /\ DirOK(At(parent, w.position))
          /\ At(parent, w.position).write_position = w.position
      BY <1>8, <2>4, AtOK
    <3>2. Top.payload_write_position \in Nat
      BY <1>4 DEF DirOK, EncoderStates
    <3> QED BY <2>3, <3>1, <3>2, PayloadAtOK, MovedFields
  <2>7. t = MergeError(Listing(moved, item), Top.encode_error)
    BY DEF t, PopInto
  <2>8. Top.encode_error \in EncodeErrors
    BY <1>4 DEF DirOK, EncoderStates
  <2> HIDE DEF item, moved
  <2>9. /\ t \in EncoderStates
        /\ t.payload_write_position = Top.payload_write_position
        /\ t.items = Append(parent.items, item)
        /\ t.entry_offset = parent.entry_offset
        /\ t.file_offset = parent.file_offset
        /\ t.file_hash = parent.file_hash
    <3> DEFINE listed == Listing(moved, item)
    <3>1. /\ DirOK(listed)
          /\ listed.payload_write_position = Top.payload_write_position
          /\ listed.items = Append(parent.items, item)
          /\ listed.entry_offset = parent.entry_offset
          /\ listed.file_offset = parent.file_offset
          /\ listed.file_hash = parent.file_hash
      BY <2>5, <2>6, ListingOK, ListingFields DEF DirOK
    <3>2. listed \in EncoderStates
      BY <3>1 DEF DirOK
    <3>3. t = MergeError(listed, Top.encode_error)
      BY <2>7
    <3> HIDE DEF listed
    <3> QED BY <2>8, <3>1, <3>2, <3>3, MergeErrorOK, MergeErrorFields
            DEF DirOK
  <2>10. /\ DirLeads(archive.cells, Depth - 1, t)
         /\ Len(t.items) <= MaxItems
    <3>1. NameLeads(archive.cells, item.offset, item.hash)
      BY <1>4, <2>1, <2>5 DEF DirLeads
    <3>2. ItemsLead(archive.cells, parent.items)
      BY <2>3 DEF DirLeads
    <3>3. /\ ItemsLead(archive.cells, Append(parent.items, item))
          /\ Len(Append(parent.items, item)) = Len(parent.items) + 1
      BY <2>3, <2>5, <3>1, <3>2, AppendLeads
    <3>4. Len(t.items) <= MaxItems
      BY <1>4, <2>3, <2>9, <3>3
    <3> QED BY <2>3, <2>9, <3>3, <3>4 DEF DirLeads
  <2>11. /\ Parents \in Seq(EncoderStates)
         /\ Len(Parents) = Depth - 1
         /\ \A d \in 1..Depth - 1 : Parents[d] = state[d]
         /\ Parents # <<>>
    <3>1. Depth - 1 \in Nat /\ Depth - 1 <= Len(state)
      BY <1>4
    <3>2. /\ Parents \in Seq(EncoderStates)
          /\ Len(Parents) = Depth - 1
          /\ \A d \in 1..Depth - 1 : Parents[d] = state[d]
      BY <1>4, <3>1, FrontOfSeq DEF Parents
    <3> QED BY <2>1, <3>2
  <2>12. StackLeads(archive.cells, Parents) /\ StackHasRoom(Parents)
    <3>1. \A d \in 1..Depth - 1 : d \in 1..Len(state)
      BY <1>4
    <3>2. \A d \in 1..Depth - 1 - 1 : d \in 1..Len(state) - 1 /\ d \in 1..Depth - 1
      BY <1>4
    <3>3. StackLeads(archive.cells, Parents)
      BY <2>2, <2>11, <3>1 DEF StackLeads
    <3>4. StackHasRoom(Parents)
      BY <2>2, <2>11, <3>1, <3>2 DEF StackHasRoom
    <3> QED BY <3>3, <3>4
  <2>13. state' = [Parents EXCEPT ![Len(Parents)] = t]
    BY <1>6, <1>12, <2>11
  <2>14. DirLeads(archive'.cells, Len(Parents), t)
    BY <1>9, <2>10, <2>11, DirLeadsMore
  <2>15. StackLeads(archive'.cells, state') /\ StackHasRoom(state')
    BY <1>9, <2>9, <2>10, <2>11, <2>12, <2>13, <2>14, SetTopLeads
  <2>16. Top' = t
    <3>1. Len(state') = Len(Parents) /\ state'[Len(Parents)] = t
      BY <2>1, <2>9, <2>11, <2>13
    <3> QED BY <3>1 DEF Top, Depth
  <2>17. PromiseHolds'
    BY <1>1, <1>4, <2>9, <2>16 DEF OffsetsLead, PromiseHolds
  <2>18. Brackets(archive'.cells, state')
    <3>1. /\ Len(state') = Len(state) - 1
          /\ \A d \in 1..Len(state') :
               state'[d] = IF d = Depth - 1 THEN t ELSE Parents[d]
      BY <1>4, <2>9, <2>11, <2>13
    <3>2. \A d \in 1..Len(state') :
            state'[d].entry_offset = state[d].entry_offset
      BY <1>4, <2>9, <2>11, <3>1
    <3> QED BY <1>13, <3>1, <3>2
  <2> QED BY <1>1, <1>2, <1>9, <1>10, <2>15, <2>17, <2>18, StackStepLeads
<1> QED BY <1>11, <1>12

LEMMA CloseLeads ==
  ASSUME OInv, "finish" \notin faults', Close
  PROVE  OffsetsLead'
<1>1. /\ state = <<>> /\ state' = <<>> /\ phase' = "closed"
      /\ faults \subseteq faults'
      /\ UNCHANGED <<archive, file, result, links, promised>>
  BY DEF Close, Fail
<1>2. "finish" \notin faults /\ ~file.open
  BY <1>1 DEF OInv, IInv, TypeOK
<1>3. payload.cells \subseteq payload'.cells
  <2>1. CASE payload' = IF Split
                          THEN Append1(payload, Marker("PAYLOAD_TAIL_MARKER"))
                          ELSE payload
    BY <2>1 DEF Append1
  <2>2. CASE \E b \in TornBytes \cap 0..HeaderSize - 1 :
               payload' = [len |-> payload.len + b, cells |-> payload.cells]
    BY <2>2
  <2> QED BY <2>1, <2>2 DEF Close
<1>4. /\ StackLeads(archive'.cells, state') /\ StackHasRoom(state')
      /\ PromiseHolds' /\ Brackets(archive'.cells, state')
  BY <1>1, <1>2
     DEF StackLeads, StackHasRoom, PromiseHolds, OInv, OffsetsLead
<1> QED BY <1>1, <1>2, <1>3, <1>4, StackStepLeads

(* The root's entry_offset is 0, its ENTRY there or behind the version.      *)
LEMMA NewLeads ==
  ASSUME OInv, "finish" \notin faults',
         NEW meta \in Metas, NEW prelude \in Preludes, New(meta, prelude)
  PROVE  OffsetsLead'
<1> DEFINE start == [out |-> EmptyStream, position |-> 0]
           p  == IF Split
                   THEN SeqWrite(start, Marker("PAYLOAD_START_MARKER"))
                   ELSE start
           w1 == IF Split THEN SeqWrite(start, Version) ELSE start
           w2 == IF prelude = <<>>
                   THEN w1
                   ELSE SeqWrite(w1, PreludeItem(prelude[1]))
           w3 == SeqWrite(w2, Entry(meta))
           root == EncoderState(0, w3.position, 0, 0, w3.position, p.position)
           e == [at |-> w2.out.len, item |-> Entry(meta)]
<1>1. /\ archive' = w3.out /\ payload' = p.out
      /\ state' = <<root>>
      /\ phase = "new" /\ phase' = "open"
      /\ prelude # <<>> => Split
      /\ UNCHANGED <<file, result, links, promised, faults>>
  BY DEF New
<1>2. /\ OffsetsLead /\ ~file.open
      /\ links = {} /\ promised = <<>>
  <2>1. OffsetsLead /\ ~file.open
    BY <1>1 DEF OInv, IInv, TypeOK
  <2> QED BY <1>1, <2>1 DEF OffsetsLead, NothingYet
<1>3. \A c \in w2.out.cells : c.item.htype \in {"FORMAT_VERSION", "PRELUDE"}
  <2>1. /\ Version.htype = "FORMAT_VERSION"
        /\ PreludeItem(prelude[1]).htype = "PRELUDE"
    BY DEF Version, PreludeItem
  <2>2. start.out.cells = {}
    BY DEF EmptyStream
  <2>3. \A c \in w1.out.cells : c.item.htype = "FORMAT_VERSION"
    BY <2>1, <2>2, SeqWriteCells
  <2> HIDE DEF w1
  <2> QED BY <2>1, <2>3, SeqWriteCells
<1>4. start.out.cells = {} /\ start.out.len = 0
  BY DEF EmptyStream
<1>5. EntryLeads(w3.out.cells, 0) \/ Split
  <2>1. CASE ~Split
    <3>1. w2.out.len = 0
      BY <1>1, <1>4, <2>1
    <3> DEFINE entry == [at |-> 0, item |-> Entry(meta)]
    <3> HIDE DEF w2
    <3>2. entry \in w3.out.cells
      BY <3>1, SeqWriteCells
    <3>3. entry.at = 0 /\ entry.item.htype = "ENTRY"
      BY DEF Entry
    <3> HIDE DEF entry, w3
    <3> QED BY <3>2, <3>3 DEF EntryLeads
  <2> QED BY <2>1
<1>12. /\ w3.out.cells = w2.out.cells \cup {e}
       /\ e.at = w2.out.len
       /\ e.item.htype = "ENTRY" /\ e.item.kind = "dir"
  <2>1. meta.kind = "dir"
    BY DEF New
  <2> HIDE DEF w2
  <2> QED BY <2>1, SeqWriteCells DEF Entry
<1>13. ~Split => w2.out.len = 0
  BY <1>1, <1>4
<1> HIDE DEF start, p, w1, w2, w3, e
<1>6. root.items = <<>> /\ root.entry_offset = 0
  BY DEF EncoderState
<1> HIDE DEF root
<1>7. Len(state') = 1 /\ state'[1] = root
  BY <1>1
<1>8. DirLeads(archive'.cells, 1, root)
  BY <1>1, <1>5, <1>6 DEF DirLeads, ItemsLead
<1>9. StackLeads(archive'.cells, state') /\ StackHasRoom(state')
  BY <1>6, <1>7, <1>8, EncoderAssumption DEF StackLeads, StackHasRoom
<1>10. \A c \in archive'.cells :
         /\ CellLeads(archive'.cells, c)
         /\ RefLeads(payload'.cells, promised', c)
         /\ c = e \/ Calm(c.item)
  BY <1>1, <1>3, <1>12 DEF CellLeads, RefLeads, Calm
<1>14. Brackets(archive'.cells, state')
  <2>1. Stream(archive')
    BY NewKeeps DEF OInv, IInv, TypeOK
  <2>2. EmptyStream.cells = {} /\ EmptyStream.len = 0
    BY DEF EmptyStream
  <2>3. /\ GrownTo(EmptyStream, archive'.cells)
        /\ e \in Dirs(archive'.cells)
        /\ e.at \in Nat /\ EmptyStream.len <= e.at
    BY <1>1, <1>12, <2>1, <2>2 DEF GrownTo, Stream, Dirs
  <2>4. BegunBy(archive'.cells, root, e)
    <3>1. CASE Split
      <4>1. \A x \in archive'.cells : x.item.htype = "ENTRY" => x = e
        BY <1>1, <1>3, <1>12
      <4> QED BY <1>6, <2>3, <3>1, <4>1 DEF BegunBy, FirstEntry
    <3>2. CASE ~Split
      BY <1>6, <1>12, <1>13, <3>2 DEF BegunBy
    <3> QED BY <3>1, <3>2
  <2>5. Brackets(EmptyStream.cells, <<>>)
    BY <2>2 DEF Brackets, TablesClose, GoodbyesOf
  <2>6. /\ Len(<<>>) = 0 /\ Len(<<>>) \in Nat
        /\ \A d \in 1..0 : state'[d].entry_offset = <<>>[d].entry_offset
    OBVIOUS
  <2>7. Len(state') = Len(<<>>) + 1 /\ state'[Len(state')] = root
    BY <1>7, <2>6
  <2>8. \A c \in archive'.cells \ EmptyStream.cells : c = e \/ Calm(c.item)
    BY <1>10
  <2> QED BY <2>3, <2>4, <2>5, <2>6, <2>7, <2>8, EnterKeepsBrackets
<1>11. OpenFileLeads' /\ PromiseHolds' /\ NothingYet'
  BY <1>1, <1>2 DEF OpenFileLeads, PromiseHolds, NothingYet
<1> QED BY <1>1, <1>2, <1>9, <1>10, <1>11, <1>14 DEF OffsetsLead

-----------------------------------------------------------------------------
(***************************************************************************)
(* The theorems.                                                           *)
(***************************************************************************)
LEMMA InitLeads ==
  Init => OInv
<1> SUFFICES ASSUME Init PROVE OInv
  OBVIOUS
<1>1. IInv /\ PositionsTrackStreams
  BY InitEstablishes
<1>2. /\ archive.cells = {} /\ state = <<>> /\ ~file.open
      /\ links = {} /\ promised = <<>>
  BY DEF Init, EmptyStream, NoFile
<1>3. OffsetsLead
  BY <1>2 DEF OffsetsLead, StackLeads, StackHasRoom, OpenFileLeads,
              PromiseHolds, NothingYet, Brackets, TablesClose, GoodbyesOf
<1> QED BY <1>1, <1>3 DEF OInv

LEMMA NextLeads ==
  ASSUME OInv, [Next]_vars, "finish" \notin faults'
  PROVE  OffsetsLead'
<1>1. ASSUME NEW meta \in Metas, NEW prelude \in Preludes, New(meta, prelude)
      PROVE  OffsetsLead'
  BY <1>1, NewLeads
<1>2. CASE FileCalls
  BY <1>2, CreateFileLeads, CreateFileFailsLeads, AddFileLeads DEF FileCalls
<1>3. CASE WriteCalls
  BY <1>3, WriteLeads, DropFileLeads DEF WriteCalls
<1>4. CASE RefCalls
  BY <1>4, AdvanceLeads, AddPayloadRefLeads DEF RefCalls
<1>5. CASE EntryCalls
  <2>1. PICK n \in Names :
          \/ \E meta \in Metas :
               \/ AddDevice(n, meta)
               \/ AddFifo(n, meta)
               \/ AddSocket(n, meta)
               \/ CreateDirectory(n, meta)
          \/ \E meta \in MetasOf("symlink"), len \in TargetLens :
               AddSymlink(n, meta, len)
          \/ \E len \in TargetLens, target \in links :
               AddHardlink(n, len, target)
    BY <1>5 DEF EntryCalls
  <2>2. ASSUME NEW meta \in Metas,
               \/ AddDevice(n, meta)
               \/ AddFifo(n, meta)
               \/ AddSocket(n, meta)
        PROVE  OffsetsLead'
    BY <2>2, AddEntryLeads
  <2>3. ASSUME NEW meta \in Metas, CreateDirectory(n, meta)
        PROVE  OffsetsLead'
    BY <2>3, CreateDirectoryLeads
  <2>4. ASSUME NEW meta \in MetasOf("symlink"), NEW len \in TargetLens,
               AddSymlink(n, meta, len)
        PROVE  OffsetsLead'
    <3>1. meta \in Metas /\ meta.kind = "symlink"
      BY DEF MetasOf
    <3> QED BY <2>4, <3>1, AddEntryLeads
  <2>5. ASSUME NEW len \in TargetLens, NEW target \in links,
               AddHardlink(n, len, target)
        PROVE  OffsetsLead'
    BY <2>5, AddHardlinkLeads
  <2> QED BY <2>1, <2>2, <2>3, <2>4, <2>5
<1>6. CASE Finish
  BY <1>6, FinishLeads
<1>7. CASE FinishFails
  BY <1>7 DEF FinishFails, Fail
<1>8. CASE Close
  BY <1>8, CloseLeads
<1>9. CASE UNCHANGED vars
  <2>1. OffsetsLead
    BY <1>9 DEF vars, OInv
  <2> QED BY <1>9, <2>1
          DEF vars, OffsetsLead, OpenFileLeads, PromiseHolds, NothingYet,
              Top, Depth
<1> QED BY <1>1, <1>2, <1>3, <1>4, <1>5, <1>6, <1>7, <1>8, <1>9
        DEF Next, Terminated

THEOREM OffsetsKeepLeading == Spec => []OInv
<1>1. Init => OInv
  BY InitLeads
<1>2. OInv /\ [Next]_vars => OInv'
  BY NextKeeps, NextLeads DEF OInv
<1> QED BY <1>1, <1>2, PTL DEF Spec

(* Every row of every goodbye table, in all nested directories and whatever  *)
(* calls failed in between, leads to a FILENAME with the row's hash, for     *)
(* any hash function and any layout that is a permutation.                  *)
THEOREM TablesResolve == Spec => []GoodbyeTablesResolve
<1>1. OInv => GoodbyeTablesResolve
  <2> SUFFICES ASSUME OInv, "finish" \notin faults
               PROVE  PendingResolve /\ RowsResolve
    BY DEF GoodbyeTablesResolve
  <2>1. OffsetsLead /\ IInv
    BY DEF OInv
  <2>2. \A offset, hash : NameLeads(archive.cells, offset, hash)
                            <=> FilenameAt(offset, hash)
    BY DEF NameLeads, FilenameAt
  <2>3. Depth = Len(state) /\ Depth \in Nat
    BY <2>1 DEF Depth, IInv, TypeOK
  <2>4. \A d \in 1..Depth : DirLeads(archive.cells, d, state[d])
    BY <2>1, <2>3 DEF OffsetsLead, StackLeads
  <2>5. PendingResolve
    <3>1. \A d \in 1..Depth : \A i \in 1..Len(state[d].items) :
            FilenameAt(state[d].items[i].offset, state[d].items[i].hash)
      BY <2>2, <2>4 DEF DirLeads, ItemsLead
    <3>2. \A d \in 2..Depth :
            FilenameAt(state[d].file_offset, state[d].file_hash)
      <4> SUFFICES ASSUME NEW d \in 2..Depth
                   PROVE  FilenameAt(state[d].file_offset, state[d].file_hash)
        OBVIOUS
      <4>1. d \in 1..Depth /\ d > 1
        BY <2>3
      <4> QED BY <2>2, <2>4, <4>1 DEF DirLeads
    <3>3. file.open => FilenameAt(file.item.offset, file.item.hash)
      BY <2>1, <2>2 DEF OffsetsLead, OpenFileLeads
    <3> QED BY <3>1, <3>2, <3>3 DEF PendingResolve
  <2>6. RowsResolve
    BY <2>1, <2>2 DEF RowsResolve, CellsOf, OffsetsLead, CellLeads, RowsLead
  <2> QED BY <2>5, <2>6
<1> QED BY <1>1, OffsetsKeepLeading, PTL

(* The tail of every goodbye table leads to the ENTRY of its own directory:  *)
(* to the one opening bracket it closes, or, from the table of the root of   *)
(* a split archive, to offset 0.  Whatever calls failed, but finish(), and   *)
(* however directories are nested, it never leads to the ENTRY of a parent,  *)
(* a sibling or a child, and it carries the size of the table.               *)
THEOREM TailsResolve == Spec => []TailsLeadToDirectory
<1>1. OInv => TailsLeadToDirectory
  <2> SUFFICES ASSUME OInv, "finish" \notin faults,
                      NEW g \in CellsOf(archive, "GOODBYE")
               PROVE  /\ g.item.tail.size = g.item.size
                      /\ \E e \in DirectoryEntries :
                           TailLeadsTo(g, e) /\ Encloses(e, g)
    BY DEF TailsLeadToDirectory
  <2>1. OffsetsLead
    BY DEF OInv
  <2>2. /\ CellsOf(archive, "GOODBYE") = GoodbyesOf(archive.cells)
        /\ DirectoryEntries = Dirs(archive.cells)
    BY DEF CellsOf, GoodbyesOf, DirectoryEntries, Dirs
  <2>3. \A h, x : EndsDir(archive.cells, h, x) <=> TailLeadsTo(h, x)
    BY DEF EndsDir, TailLeadsTo, FirstEntry, IsRootEntry, CellsOf
  <2>4. g.item.tail.size = g.item.size
    BY <2>1 DEF OffsetsLead, CellLeads, TailLeads, CellsOf
  <2>5. PICK e \in Dirs(archive.cells) :
          EndsDir(archive.cells, g, e) /\ Nested(archive.cells, e, g.at)
    BY <2>1, <2>2 DEF OffsetsLead, Brackets, TablesClose
  <2>6. Encloses(e, g)
    BY <2>2, <2>3, <2>5 DEF Nested, Encloses
  <2> QED BY <2>2, <2>3, <2>4, <2>5, <2>6
<1> QED BY <1>1, OffsetsKeepLeading, PTL

(* Every payload reference leads to the header of the payload it is about,   *)
(* or to where the caller has promised to put it.                           *)
THEOREM RefsResolve == Spec => []PayloadRefsResolve
<1>1. OInv => PayloadRefsResolve
  BY DEF OInv, OffsetsLead, RefLeads, PayloadAtOffset, Promise,
         PayloadRefsResolve, CellsOf
<1> QED BY <1>1, OffsetsKeepLeading, PTL

(* Every hardlink leads, backwards from its own FILENAME, to the FILENAME of *)
(* a regular file, the one its path names.                                 *)
THEOREM LinksResolve == Spec => []HardlinksResolve
<1>1. OInv => HardlinksResolve
  BY DEF OInv, OffsetsLead, CellLeads, HardlinkLeads, HardlinksResolve,
         CellsOf
<1> QED BY <1>1, OffsetsKeepLeading, PTL

=============================================================================
