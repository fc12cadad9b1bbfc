------------------------ MODULE EncoderExtentsProofs ------------------------
(***************************************************************************)
(* Extents: in an archive with its contents inline the entries of a        *)
(* directory follow each other without gaps, from its own ENTRY up to its  *)
(* table, and the rows of that table say so.  A reader that opens an entry *)
(* by its row, at any place of the archive, has nothing but these extents   *)
(* to go by.                                                               *)
(***************************************************************************)
EXTENDS EncoderListingProofs

-----------------------------------------------------------------------------
(* From "begin" on the items follow each other, the last one up to "end".   *)
TilesTo(begin, items, end) ==
  {items[i].offset : i \in 1..Len(items)} \cup {end} =
    {items[i].offset + items[i].size : i \in 1..Len(items)} \cup {begin}

EntrySpans(a, begin, end) ==
  \E e \in CellsOf(a, "ENTRY") : e.at = begin /\ e.at + e.item.size = end

(* The entries that table g lists follow each other from "begin" to g.      *)
RowsTileFrom(g, begin) == Starts(g) \cup {g.at} = Ends(g) \cup {begin}

TableTiles(a, g) ==
  \E e \in CellsOf(a, "ENTRY") :
    /\ e.at = g.at - g.item.tail.offset
    /\ RowsTileFrom(g, e.at + e.item.size)

(* Where the entry begins that a directory on the stack s is about to list:  *)
(* a directory further in, the open file f, or whatever comes next.         *)
Reach(a, s, f, d) ==
  IF d < Len(s) THEN s[d + 1].file_offset
  ELSE IF f.open THEN f.item.offset ELSE a.len

DirTiles(a, s, f, d) ==
  /\ EntrySpans(a, s[d].entry_offset, s[d].files_offset)
  /\ TilesTo(s[d].files_offset, s[d].items, Reach(a, s, f, d))

(* An open file will be as long as its item says.                           *)
FileReaches(a, f) ==
  f.open => f.item.offset + f.item.size = a.len + f.remaining_size

TiledIn(a, s, f) ==
  /\ \A d \in 1..Len(s) : DirTiles(a, s, f, d)
  /\ FileReaches(a, f)
  /\ \A g \in TablesIn(a) : TableTiles(a, g)

(* No file was given up, as far as the encoder will ever tell.              *)
Unbroken == ~Tainted /\ (state = <<>> => result # "incomplete")

Tiled == TiledIn(archive, state, file)

XInv ==
  /\ OInv
  /\ ~Split /\ faults = {} /\ Unbroken => Tiled

-----------------------------------------------------------------------------
(***************************************************************************)
(* One entry more.                                                         *)
(***************************************************************************)
LEMMA NothingTiles ==
  ASSUME NEW begin PROVE TilesTo(begin, <<>>, begin)
BY DEF TilesTo

LEMMA AppendTiles ==
  ASSUME NEW items \in Seq(GoodbyeItem), NEW item \in GoodbyeItem, NEW begin,
         TilesTo(begin, items, item.offset)
  PROVE  TilesTo(begin, Append(items, item), item.offset + item.size)
<1> DEFINE more == Append(items, item)
           k == Len(items)
           from == {items[i].offset : i \in 1..k}
           to == {items[i].offset + items[i].size : i \in 1..k}
<1>1. /\ k \in Nat /\ Len(more) = k + 1 /\ more[k + 1] = item
      /\ \A i \in 1..k : more[i] = items[i]
      /\ 1..k + 1 = (1..k) \cup {k + 1}
  OBVIOUS
<1> HIDE DEF more, k
<1>2. {more[i].offset : i \in 1..k + 1} = from \cup {item.offset}
  BY <1>1
<1>3. {more[i].offset + more[i].size : i \in 1..k + 1}
        = to \cup {item.offset + item.size}
  BY <1>1
<1>4. from \cup {item.offset} = to \cup {begin}
  BY DEF TilesTo, k
<1> QED BY <1>1, <1>2, <1>3, <1>4 DEF TilesTo, more

(* A stream that has grown, but not by a table.                             *)
Longer(a, b) == a.cells \subseteq b.cells /\ TablesIn(b) = TablesIn(a)

LEMMA EntrySpansMore ==
  ASSUME NEW a, NEW b, a.cells \subseteq b.cells
  PROVE  /\ \A begin, end :
              EntrySpans(a, begin, end) => EntrySpans(b, begin, end)
         /\ \A g : TableTiles(a, g) => TableTiles(b, g)
<1>1. CellsOf(a, "ENTRY") \subseteq CellsOf(b, "ENTRY")
  BY DEF CellsOf
<1> QED BY <1>1 DEF EntrySpans, TableTiles

(* A step within the current directory.                                     *)
LEMMA TopStepTiles ==
  ASSUME IInv, IInv', Tiled, state # <<>>, NEW t, SetTop(t),
         t.entry_offset = Top.entry_offset,
         t.files_offset = Top.files_offset,
         t.file_offset = Top.file_offset,
         Longer(archive, archive'),
         TilesTo(t.files_offset, t.items,
                 IF file'.open THEN file'.item.offset ELSE archive'.len),
         FileReaches(archive', file')
  PROVE  Tiled'
<1>1. /\ Depth \in Nat \ {0} /\ Depth' = Depth /\ Top' = t
      /\ t \in EncoderStates
  BY TopIsReplaced
<1>2. \A d \in 1..Depth - 1 : state'[d] = state[d]
  BY <1>1, TopIsSet
<1>3. /\ Len(state) = Depth /\ Len(state') = Depth
      /\ state[Depth] = Top /\ state'[Depth] = t
  BY <1>1 DEF Depth, Top
<1>4. \A d \in 1..Depth : DirTiles(archive, state, file, d)
  BY <1>3 DEF Tiled, TiledIn
<1>5. ASSUME NEW d \in 1..Depth
      PROVE  DirTiles(archive', state', file', d)
  <2>1. CASE d = Depth
    <3>1. EntrySpans(archive, Top.entry_offset, Top.files_offset)
      BY <1>3, <1>4, <2>1 DEF DirTiles
    <3>2. EntrySpans(archive', t.entry_offset, t.files_offset)
      BY <3>1, EntrySpansMore DEF Longer
    <3>3. Reach(archive', state', file', d) =
            IF file'.open THEN file'.item.offset ELSE archive'.len
      BY <1>1, <1>3, <2>1 DEF Reach
    <3> QED BY <1>3, <2>1, <3>2, <3>3 DEF DirTiles
  <2>2. CASE d # Depth
    <3>1. d \in 1..Depth - 1 /\ d < Depth
      BY <1>1, <2>2
    <3>2. d + 1 \in 1..Depth - 1 \/ d + 1 = Depth
      BY <1>1, <3>1
    <3>3. /\ state'[d] = state[d]
          /\ state'[d + 1].file_offset = state[d + 1].file_offset
      BY <1>2, <1>3, <3>1, <3>2
    <3>4. Reach(archive', state', file', d) = Reach(archive, state, file, d)
      BY <1>3, <3>1, <3>3 DEF Reach
    <3>5. DirTiles(archive, state, file, d)
      BY <1>4
    <3> QED BY <3>3, <3>4, <3>5, EntrySpansMore DEF DirTiles, Longer
  <2> QED BY <2>1, <2>2
<1>6. \A g \in TablesIn(archive') : TableTiles(archive', g)
  BY EntrySpansMore DEF Longer, Tiled, TiledIn
<1> QED BY <1>3, <1>5, <1>6 DEF Tiled, TiledIn

LEMMA UnbrokenBefore ==
  ASSUME IInv, IInv', state # <<>>, NEW t, SetTop(t), result' = result,
         Unbroken', Top.encode_error # "none" => t.encode_error # "none"
  PROVE  Unbroken /\ t.encode_error = "none"
<1>1. /\ Depth \in Nat \ {0} /\ Depth' = Depth /\ Top' = t
      /\ t \in EncoderStates
  BY TopIsReplaced
<1>2. \A d \in 1..Depth - 1 : state'[d] = state[d]
  BY <1>1, TopIsSet
<1>3. ASSUME NEW d \in 1..Depth
      PROVE  state[d].encode_error = "none" /\ state'[d].encode_error = "none"
  <2>1. state'[d].encode_error = "none"
    BY <1>1 DEF Unbroken, Tainted
  <2>2. d \in 1..Depth - 1 \/ d = Depth
    BY <1>1
  <2>3. state[Depth] = Top /\ state'[Depth] = t
    BY <1>1 DEF Top
  <2> QED BY <1>2, <2>1, <2>2, <2>3
<1> QED BY <1>1, <1>3 DEF Unbroken, Tainted, Top

(* What the changes to one directory leave alone, and what was not said of   *)
(* it before.                                                              *)
LEMMA FilesOffsetStays ==
  ASSUME NEW st \in EncoderStates, NEW wp, NEW pp, NEW item, NEW error
  PROVE  /\ At(st, wp).files_offset = st.files_offset
         /\ PayloadAt(st, pp).files_offset = st.files_offset
         /\ PayloadAt(At(st, wp), pp).files_offset = st.files_offset
         /\ Listing(st, item).files_offset = st.files_offset
         /\ MergeError(st, error).files_offset = st.files_offset
  BY DEF At, PayloadAt, Listing, MergeError, EncoderStates

LEMMA DropIntoStays ==
  ASSUME NEW st \in EncoderStates, NEW item, NEW remaining
  PROVE  DropInto(st, item, remaining).files_offset = st.files_offset
<1> DEFINE e == IF remaining # 0 THEN MergeError(st, "IncompleteFile") ELSE st
<1>1. e \in EncoderStates
  BY DEF MergeError, EncoderStates, EncodeErrors
<1>2. e.files_offset = st.files_offset
  BY FilesOffsetStays
<1>3. DropInto(st, item, remaining) = Listing(e, item)
  BY DEF DropInto
<1> HIDE DEF e
<1> QED BY <1>1, <1>2, <1>3, FilesOffsetStays

-----------------------------------------------------------------------------
(***************************************************************************)
(* The calls.                                                              *)
(***************************************************************************)
LEMMA TopTiles ==
  ASSUME IInv, Tiled, state # <<>>
  PROVE  TilesTo(Top.files_offset, Top.items,
                 IF file.open THEN file.item.offset ELSE archive.len)
<1>1. Depth \in 1..Len(state) /\ Depth = Len(state) /\ ~(Depth < Len(state))
  BY TopOK
<1>2. DirTiles(archive, state, file, Depth)
  BY <1>1 DEF Tiled, TiledIn
<1> QED BY <1>1, <1>2 DEF DirTiles, Reach, Top

(* A call that adds an entry as a whole.                                    *)
LEMMA ItemStepTiles ==
  ASSUME OInv, IInv', Tiled, state # <<>>, ~file.open, file' = file,
         NEW t, SetTop(t), NEW item \in GoodbyeItem,
         t.items = Append(Top.items, item),
         t.entry_offset = Top.entry_offset,
         t.files_offset = Top.files_offset,
         t.file_offset = Top.file_offset,
         item.offset = archive.len, item.offset + item.size = archive'.len,
         Longer(archive, archive')
  PROVE  Tiled'
<1>1. TilesTo(Top.files_offset, Top.items, item.offset) /\ IInv
  BY TopTiles DEF OInv
<1>2. Top.items \in Seq(GoodbyeItem)
  BY <1>1, TopOK DEF DirOK, EncoderStates
<1>3. TilesTo(t.files_offset, t.items, archive'.len)
  BY <1>1, <1>2, AppendTiles
<1>4. FileReaches(archive', file')
  BY DEF FileReaches
<1> QED BY <1>1, <1>3, <1>4, TopStepTiles

LEMMA NameIsLonger ==
  ASSUME NEW w, NEW v, Extends(w, v), NameAdded(w.out, v.out)
  PROVE  Longer(w.out, v.out)
BY DEF Extends, NameAdded, Longer

LEMMA EntryTiles ==
  ASSUME OInv, IInv', faults = {}, Unbroken' , Unbroken => Tiled, state # <<>>,
         ~file.open, file' = file, result' = result,
         NEW n \in Names, NEW full, EntryAdded(n, full),
         Extends(ArchiveWriter, full), NameAdded(archive, full.out)
  PROVE  Tiled'
<1> DEFINE item == [hash   |-> HashOf[n],
                    offset |-> Top.write_position,
                    size   |-> full.position - Top.write_position]
           moved == At(Top, full.position)
           t == Listing(moved, item)
<1>1. archive' = full.out /\ SetTop(t)
  BY DEF EntryAdded
<1>2. /\ full.position \in Nat /\ Top.write_position \in Nat
      /\ Top.write_position <= full.position
      /\ Top.write_position = archive.len
      /\ full.out.len \in Nat
      /\ full.position - Top.write_position = full.out.len - archive.len
      /\ HashOf[n] \in Nat /\ DirOK(Top) /\ Top \in EncoderStates /\ IInv
  BY TopOK, TopLeads, NamesAssumption
     DEF Extends, IsWriter, ArchiveWriter, OInv, DirOK, Stream
<1>3. /\ item \in GoodbyeItem /\ item.offset = archive.len
      /\ item.offset + item.size = archive'.len
  <2>1. full.position - Top.write_position \in Nat
    BY <1>2
  <2>2. item \in GoodbyeItem
    BY <1>2, <2>1 DEF GoodbyeItem
  <2>3. archive.len + (full.position - Top.write_position) = full.out.len
    BY <1>2
  <2> QED BY <1>1, <1>2, <2>2, <2>3
<1>4. /\ moved \in EncoderStates /\ moved.items = Top.items
      /\ moved.entry_offset = Top.entry_offset
      /\ moved.files_offset = Top.files_offset
      /\ moved.file_offset = Top.file_offset
      /\ moved.encode_error = Top.encode_error
  BY <1>2, AtOK, AtFields, FilesOffsetStays, ErrorFields DEF DirOK
<1>5. Longer(archive, archive')
  BY <1>1, NameIsLonger DEF ArchiveWriter
<1> HIDE DEF item, moved
<1>6. /\ t.items = Append(Top.items, item)
      /\ t.entry_offset = Top.entry_offset
      /\ t.files_offset = Top.files_offset
      /\ t.file_offset = Top.file_offset
      /\ t.encode_error = Top.encode_error
  BY <1>4, ListingFields, FilesOffsetStays, ErrorFields
<1> HIDE DEF t
<1>7. Unbroken
  BY <1>1, <1>2, <1>6, UnbrokenBefore
<1> QED BY <1>1, <1>3, <1>5, <1>6, <1>7, ItemStepTiles

LEMMA CreateFileTiles ==
  ASSUME OInv, IInv', faults = {}, Unbroken', Unbroken => Tiled,
         NEW n \in Names, NEW meta \in Metas, NEW size \in FileSizes,
         CreateFile(n, meta, size)
  PROVE  Tiled'
<1> DEFINE a == FileArchive(n, meta, size)
           p == FilePayload(size)
           item == FileItem(n, meta, size)
           t == PayloadAt(At(Top, a.position), p.position)
<1>1. /\ state # <<>> /\ ~file.open /\ archive' = a.out /\ SetTop(t)
      /\ file' = [open |-> TRUE, remaining_size |-> size, item |-> item]
      /\ result' = result /\ Top.encode_error = "none"
  BY DEF CreateFile, CanCreateFile, Check, Usable
<1>2. /\ Extends(ArchiveWriter, a) /\ item.offset = archive.len
      /\ Top.write_position = archive.len /\ Top \in EncoderStates /\ IInv
      /\ size \in Nat
  BY <1>1, FileWritersOK, TopLeads, TopOK, EncoderAssumption
     DEF OInv, DirOK
<1>3. item.offset + item.size = archive'.len + size
  <2>1. item.size = size + (a.position - Top.write_position)
    BY DEF FileItem
  <2>2. /\ a.position \in Nat /\ a.out.len \in Nat /\ archive.len \in Nat
        /\ a.position - Top.write_position = a.out.len - archive.len
    BY <1>1, <1>2, TopLeads DEF Extends, IsWriter, ArchiveWriter, Stream
  <2> HIDE DEF a, item
  <2> QED BY <1>1, <1>2, <2>1, <2>2
<1>4. Longer(archive, archive')
  BY <1>1, <1>2, FileArchiveNames, NameIsLonger DEF ArchiveWriter
<1>5. /\ t.items = Top.items /\ t.file_offset = Top.file_offset
      /\ t.entry_offset = Top.entry_offset
      /\ t.files_offset = Top.files_offset
  BY <1>2, MovedFields, FilesOffsetStays
<1>6. t.encode_error = Top.encode_error
  BY <1>2, MovedOnOK DEF PayloadAt, At, EncoderStates
<1> HIDE DEF t, a, item
<1>7. Tiled
  BY <1>1, <1>2, <1>6, UnbrokenBefore
<1>8. TilesTo(t.files_offset, t.items,
              IF file'.open THEN file'.item.offset ELSE archive'.len)
  BY <1>1, <1>2, <1>5, <1>7, TopTiles
<1>9. FileReaches(archive', file')
  BY <1>1, <1>3 DEF FileReaches
<1> QED BY <1>1, <1>2, <1>4, <1>5, <1>7, <1>8, <1>9, TopStepTiles

LEMMA DataLen ==
  ASSUME NEW w, IsWriter(w), NEW k \in Nat
  PROVE  /\ SeqWriteData(w, k).out.len = w.out.len + k
         /\ Longer(w.out, SeqWriteData(w, k).out)
<1>1. w.out.len \in Nat
  BY DEF IsWriter, Stream
<1>2. Longer(w.out, SeqWriteData(w, k).out)
  BY SeqWriteDataExtends, DataIsQuiet DEF Extends, Quiet, Longer
<1>3. CASE k = 0
  BY <1>1, <1>2, <1>3 DEF SeqWriteData
<1>4. CASE k # 0
  <2>1. SeqWriteData(w, k).out = Append1(w.out, Data(k)) /\ Data(k).size = k
    BY <1>4, WriterOut DEF SeqWriteData, Data
  <2> QED BY <1>2, <2>1 DEF Append1
<1> QED BY <1>3, <1>4

LEMMA AddFileTiles ==
  ASSUME ~Split, OInv, IInv', faults = {}, Unbroken', Unbroken => Tiled,
         NEW n \in Names, NEW meta \in Metas,
         NEW size \in FileSizes, NEW got \in 0..size,
         NEW returned \in BOOLEAN, AddFile(n, meta, size, got, returned)
  PROVE  Tiled'
<1> DEFINE a == FileArchive(n, meta, size)
           a2 == SeqWriteData(a, got)
           written == PayloadAt(At(Top, a2.position), PayloadWriter.position)
           item == FileItem(n, meta, size)
           t == DropInto(written, item, size - got)
<1>1. /\ state # <<>> /\ ~file.open
      /\ archive' = a2.out /\ SetTop(t) /\ file' = file
      /\ result' = result /\ Top.encode_error = "none"
  BY DEF AddFile, CanCreateFile, Check, Usable, FilePayload
<1>2. /\ Extends(ArchiveWriter, a) /\ item \in GoodbyeItem
      /\ item.offset = archive.len
      /\ IsWriter(ArchiveWriter) /\ IsWriter(PayloadWriter) /\ IsWriter(a)
      /\ Top \in EncoderStates /\ IInv
      /\ Top.write_position = archive.len /\ archive.len \in Nat
      /\ got \in Nat /\ size \in Nat
  BY <1>1, FileWritersOK, TopOK, TopLeads, EncoderAssumption
     DEF Extends, DirOK, OInv
<1>3. /\ a2.out.len = a.out.len + got /\ Longer(a.out, a2.out)
      /\ Extends(a, a2)
  BY <1>2, DataLen, SeqWriteDataExtends
<1>4. item.size = size + (a.position - Top.write_position)
  BY DEF FileItem
<1>5. /\ a.position \in Nat /\ a.out.len \in Nat
      /\ a.position - Top.write_position = a.out.len - archive.len
  BY <1>2 DEF Extends, IsWriter, ArchiveWriter, Stream
<1>6. Longer(archive, a.out)
  BY <1>2, FileArchiveNames, NameIsLonger DEF ArchiveWriter
<1>7. Longer(archive, archive')
  BY <1>1, <1>3, <1>6 DEF Longer
<1> HIDE DEF a, a2, item
<1>8. Extends(ArchiveWriter, a2) /\ Extends(PayloadWriter, PayloadWriter)
  BY <1>2, <1>3, ExtendsTransitive, ExtendsReflexive
<1>9. /\ DirOK(written) /\ written \in EncoderStates
      /\ written.items = Top.items
      /\ written.entry_offset = Top.entry_offset
      /\ written.files_offset = Top.files_offset
      /\ written.file_offset = Top.file_offset
      /\ written.encode_error = Top.encode_error
  <2>1. DirOK(written)
    BY <1>1, <1>2, <1>8, MovedOnOK
  <2>2. written.encode_error = Top.encode_error
    BY <1>2 DEF PayloadAt, At, EncoderStates
  <2> QED BY <1>2, <2>1, <2>2, MovedFields, FilesOffsetStays DEF DirOK
<1> HIDE DEF written
<1>10. /\ t.items = Append(Top.items, item)
       /\ t.entry_offset = Top.entry_offset
       /\ t.files_offset = Top.files_offset
       /\ t.file_offset = Top.file_offset
       /\ t.encode_error = IF size - got # 0 THEN "IncompleteFile" ELSE "none"
  BY <1>1, <1>9, DropIntoFields, DropIntoStays, DropIntoError
<1> HIDE DEF t
<1>11. Tiled /\ t.encode_error = "none"
  BY <1>1, <1>2, <1>10, UnbrokenBefore
<1>12. got = size
  <2>1. size - got = 0
    BY <1>10, <1>11
  <2> QED BY <1>2, <2>1
<1>13. item.offset + item.size = archive'.len
  BY <1>1, <1>2, <1>3, <1>4, <1>5, <1>12
<1> QED BY <1>1, <1>2, <1>7, <1>10, <1>11, <1>13, ItemStepTiles

LEMMA WriteTiles ==
  ASSUME ~Split, OInv, IInv', faults = {}, Unbroken', Unbroken => Tiled,
         NEW k \in WriteSizes, Write(k) \/ PollWrite(k)
  PROVE  Tiled'
<1> DEFINE w == SeqWriteData(ArchiveWriter, k)
           t == At(Top, w.position)
<1>1. /\ file.open /\ state # <<>> /\ archive' = w.out /\ SetTop(t)
      /\ k <= file.remaining_size /\ result' = result
      /\ file' = [file EXCEPT !.remaining_size = @ - k]
  BY DEF Write, PollWrite, PutContent, PutToArchive, OInv, IInv, TypeOK
<1>2. /\ Top \in EncoderStates /\ IsWriter(ArchiveWriter) /\ IInv
      /\ k \in Nat /\ archive.len \in Nat
      /\ file \in [open : BOOLEAN, remaining_size : Nat, item : GoodbyeItem]
  BY <1>1, TopOK, EncoderAssumption DEF DirOK, OInv, IInv, TypeOK, Stream
<1>3. archive'.len = archive.len + k /\ Longer(archive, archive')
  BY <1>1, <1>2, DataLen DEF ArchiveWriter
<1>4. /\ t.items = Top.items /\ t.file_offset = Top.file_offset
      /\ t.entry_offset = Top.entry_offset
      /\ t.files_offset = Top.files_offset
      /\ t.encode_error = Top.encode_error
  BY <1>2, AtFields, FilesOffsetStays, ErrorFields
<1> HIDE DEF t, w
<1>5. Tiled
  BY <1>1, <1>2, <1>4, UnbrokenBefore
<1>6. /\ file'.open /\ file'.item = file.item
      /\ file'.remaining_size = file.remaining_size - k
  BY <1>1, <1>2
<1>7. TilesTo(t.files_offset, t.items,
              IF file'.open THEN file'.item.offset ELSE archive'.len)
  BY <1>1, <1>2, <1>4, <1>5, <1>6, TopTiles
<1>8. FileReaches(archive', file')
  <2>1. file.item.offset + file.item.size
          = archive.len + file.remaining_size
    BY <1>1, <1>5 DEF Tiled, TiledIn, FileReaches
  <2>2. file.remaining_size \in Nat
    BY <1>2
  <2>3. archive'.len + (file.remaining_size - k)
          = archive.len + file.remaining_size
    BY <1>1, <1>2, <1>3, <2>2
  <2> QED BY <1>6, <2>1, <2>3 DEF FileReaches
<1> QED BY <1>1, <1>2, <1>3, <1>4, <1>5, <1>7, <1>8, TopStepTiles

LEMMA DropFileTiles ==
  ASSUME OInv, IInv', faults = {}, Unbroken', Unbroken => Tiled, DropFile
  PROVE  Tiled'
<1> DEFINE t == DropInto(Top, file.item, file.remaining_size)
<1>1. /\ file.open /\ SetTop(t) /\ file' = NoFile /\ archive' = archive
      /\ state # <<>> /\ file.item \in GoodbyeItem /\ result' = result
      /\ file.remaining_size \in Nat /\ archive.len \in Nat /\ IInv
  BY DEF DropFile, OInv, IInv, TypeOK, Stream
<1>2. DirOK(Top) /\ Top \in EncoderStates
  BY <1>1, TopOK DEF DirOK
<1>3. /\ t.items = Append(Top.items, file.item)
      /\ t.entry_offset = Top.entry_offset
      /\ t.files_offset = Top.files_offset
      /\ t.file_offset = Top.file_offset
      /\ t.encode_error = IF /\ file.remaining_size # 0
                             /\ Top.encode_error = "none"
                            THEN "IncompleteFile" ELSE Top.encode_error
  BY <1>2, DropIntoFields, DropIntoStays, DropIntoError
<1> HIDE DEF t
<1>4. Tiled /\ t.encode_error = "none"
  BY <1>1, <1>3, UnbrokenBefore
<1>5. file.remaining_size = 0
  BY <1>3, <1>4
<1>6. file.item.offset + file.item.size = archive.len
  BY <1>1, <1>4, <1>5 DEF Tiled, TiledIn, FileReaches
<1>7. TilesTo(Top.files_offset, Top.items, file.item.offset)
  BY <1>1, <1>4, TopTiles
<1>8. Top.items \in Seq(GoodbyeItem)
  BY <1>2 DEF DirOK, EncoderStates
<1>9. TilesTo(t.files_offset, t.items, archive.len)
  BY <1>1, <1>3, <1>6, <1>7, <1>8, AppendTiles
<1>10. ~file'.open
  BY <1>1 DEF NoFile
<1>11. FileReaches(archive', file') /\ Longer(archive, archive')
  BY <1>1, <1>10 DEF FileReaches, Longer
<1> QED BY <1>1, <1>3, <1>4, <1>9, <1>10, <1>11, TopStepTiles

LEMMA AdvanceTiles ==
  ASSUME OInv, IInv', Unbroken', Unbroken => Tiled, Advance
  PROVE  Tiled'
<1> DEFINE w == SeqWriteData(SeqWrite(PayloadWriter,
                                      Payload(promised[1].content)),
                             promised[1].content)
           t == PayloadAt(Top, w.position)
<1>1. /\ state # <<>> /\ archive' = archive /\ file' = file /\ SetTop(t)
      /\ ~file.open /\ result' = result /\ IInv
  BY DEF Advance, Usable, OInv
<1>2. Top \in EncoderStates
  BY <1>1, TopOK DEF DirOK
<1>3. /\ t.items = Top.items /\ t.file_offset = Top.file_offset
      /\ t.entry_offset = Top.entry_offset
      /\ t.files_offset = Top.files_offset
      /\ t.encode_error = Top.encode_error
  BY <1>2, PayloadAtFields, FilesOffsetStays, ErrorFields
<1> HIDE DEF t
<1>4. Tiled
  BY <1>1, <1>3, UnbrokenBefore
<1>5. TilesTo(t.files_offset, t.items,
              IF file'.open THEN file'.item.offset ELSE archive'.len)
  BY <1>1, <1>3, <1>4, TopTiles
<1>6. FileReaches(archive', file') /\ Longer(archive, archive')
  BY <1>1 DEF FileReaches, Longer
<1> QED BY <1>1, <1>3, <1>4, <1>5, <1>6, TopStepTiles

LEMMA OtherEntriesTile ==
  ASSUME OInv, IInv', faults = {}, faults' = {}, Unbroken', Unbroken => Tiled,
         NEW n \in Names, OtherEntryCalls(n)
  PROVE  Tiled'
<1>1. /\ state # <<>> /\ ~file.open /\ file' = file /\ result' = result
      /\ \E full : WritesEntry(n, full)
  BY OtherCallsWrite
<1> QED BY <1>1, EntryTiles DEF WritesEntry

(* A directory that is entered has its ENTRY at its entry_offset.           *)
LEMMA DirectoryBegins ==
  ASSUME OInv, "finish" \notin faults, state # <<>>,
         NEW n \in Names, NEW meta \in Metas
  PROVE  LET named == SeqWrite(ArchiveWriter, Filename(n))
             full == SeqWrite(named, Entry(meta))
         IN /\ EntrySpans(full.out, named.position, full.position)
            /\ full.position = full.out.len
            /\ Longer(archive, full.out)
<1> DEFINE named == SeqWrite(ArchiveWriter, Filename(n))
           full == SeqWrite(named, Entry(meta))
           e == [at |-> named.out.len, item |-> Entry(meta)]
<1>1. /\ IInv /\ Top.write_position = archive.len
      /\ ArchiveWriter.out = archive
      /\ ArchiveWriter.position = archive.len
  BY TopLeads DEF ArchiveWriter, OInv
<1>2. /\ IsWriter(ArchiveWriter) /\ ItemOK(Filename(n)) /\ ItemOK(Entry(meta))
  BY <1>1, TopOK, NamedItemsOK
<1>3. Extends(ArchiveWriter, named) /\ IsWriter(named)
  BY <1>2, SeqWriteExtends DEF Extends
<1>4. /\ Extends(named, full) /\ e \in full.out.cells
      /\ full.position = named.position + Entry(meta).size
  BY <1>2, <1>3, SeqWriteExtends
<1>5. named.position = named.out.len /\ full.position = full.out.len
  BY <1>1, <1>2, <1>3, <1>4 DEF Extends, IsWriter, Stream
<1>6. e.item.htype = "ENTRY" /\ e.item = Entry(meta) /\ e.at = named.out.len
  BY DEF Entry
<1>7. full = StartFile(n, meta)
  BY DEF StartFile
<1>8. Longer(archive, full.out)
  BY <1>1, <1>2, <1>3, <1>4, <1>7, StartFileNames, ExtendsTransitive,
     NameIsLonger
<1> HIDE DEF named, full, e
<1>9. EntrySpans(full.out, named.position, full.position)
  BY <1>4, <1>5, <1>6 DEF EntrySpans, CellsOf
<1> QED BY <1>5, <1>8, <1>9 DEF named, full

LEMMA CreateDirectoryTiles ==
  ASSUME OInv, IInv', faults = {}, faults' = {}, Unbroken', Unbroken => Tiled,
         NEW n \in Names, NEW meta \in Metas, CreateDirectory(n, meta)
  PROVE  Tiled'
<1> DEFINE named == SeqWrite(ArchiveWriter, Filename(n))
           full == SeqWrite(named, Entry(meta))
<1>1. /\ state # <<>> /\ IInv /\ file' = file /\ ~file.open
      /\ result' = result /\ ~CallFails(StartFile(n, meta))
  BY FaultsStay DEF CreateDirectory, CallFails, Check, Usable, OInv
<1>2. /\ Depth \in Nat \ {0} /\ Depth' = Depth + 1
      /\ archive' = full.out
      /\ Top'.items = <<>> /\ Top' = state'[Depth + 1]
      /\ Top'.entry_offset = named.position
      /\ Top'.files_offset = full.position
      /\ Top'.file_offset = Top.write_position
      /\ \A d \in 1..Depth - 1 : state'[d] = state[d]
      /\ state'[Depth].items = Top.items
      /\ state'[Depth].entry_offset = Top.entry_offset
      /\ state'[Depth].files_offset = Top.files_offset
      /\ state'[Depth].file_offset = Top.file_offset
      /\ state'[Depth].encode_error = Top.encode_error
  BY <1>1, DirectoryOpens
<1>3. /\ EntrySpans(archive', named.position, full.position)
      /\ full.position = archive'.len /\ Longer(archive, archive')
      /\ Top.write_position = archive.len
  BY <1>1, <1>2, DirectoryBegins, TopLeads
<1> HIDE DEF named, full
<1>4. /\ Len(state) = Depth /\ Len(state') = Depth + 1
      /\ state[Depth] = Top
  BY <1>2 DEF Depth, Top
<1>5. Unbroken
  <2>1. \A d \in 1..Depth + 1 : state'[d].encode_error = "none"
    BY <1>2 DEF Unbroken, Tainted
  <2>2. ASSUME NEW d \in 1..Depth PROVE state[d].encode_error = "none"
    <3>1. d \in 1..Depth + 1 /\ (d \in 1..Depth - 1 \/ d = Depth)
      BY <1>2
    <3> QED BY <1>2, <1>4, <2>1, <3>1
  <2> QED BY <1>1, <2>2 DEF Unbroken, Tainted
<1>6. ASSUME NEW d \in 1..Depth
      PROVE  DirTiles(archive', state', file', d)
  <2>1. d < Len(state') /\ (d \in 1..Depth - 1 \/ d = Depth)
    BY <1>2, <1>4
  <2>2. DirTiles(archive, state, file, d)
    BY <1>4, <1>5 DEF Tiled, TiledIn
  <2>3. /\ state'[d].items = state[d].items
        /\ state'[d].entry_offset = state[d].entry_offset
        /\ state'[d].files_offset = state[d].files_offset
    BY <1>2, <1>4, <2>1
  <2>4. Reach(archive', state', file', d) = Reach(archive, state, file, d)
    <3>1. Reach(archive', state', file', d) = state'[d + 1].file_offset
      BY <2>1 DEF Reach
    <3>2. CASE d = Depth
      BY <1>1, <1>2, <1>3, <1>4, <3>1, <3>2 DEF Reach
    <3>3. CASE d # Depth
      <4>1. d < Len(state) /\ (d + 1 \in 1..Depth - 1 \/ d + 1 = Depth)
        BY <1>2, <1>4, <2>1, <3>3
      <4>2. state'[d + 1].file_offset = state[d + 1].file_offset
        BY <1>2, <1>4, <4>1
      <4> QED BY <3>1, <4>1, <4>2 DEF Reach
    <3> QED BY <3>2, <3>3
  <2> QED BY <1>3, <2>2, <2>3, <2>4, EntrySpansMore DEF DirTiles, Longer
<1>7. DirTiles(archive', state', file', Depth + 1)
  <2>1. Reach(archive', state', file', Depth + 1) = archive'.len
    BY <1>1, <1>2, <1>4 DEF Reach
  <2> QED BY <1>2, <1>3, <2>1, NothingTiles DEF DirTiles
<1>8. \A d \in 1..Len(state') : DirTiles(archive', state', file', d)
  <2> SUFFICES ASSUME NEW d \in 1..Len(state')
               PROVE  DirTiles(archive', state', file', d)
    OBVIOUS
  <2>1. d \in 1..Depth \/ d = Depth + 1
    BY <1>2, <1>4
  <2> QED BY <1>6, <1>7, <2>1
<1>9. FileReaches(archive', file')
  BY <1>1 DEF FileReaches
<1>10. \A g \in TablesIn(archive') : TableTiles(archive', g)
  BY <1>3, <1>5, EntrySpansMore DEF Longer, Tiled, TiledIn
<1> QED BY <1>8, <1>9, <1>10 DEF Tiled, TiledIn

(* The rows of a table tile what the items of the directory did.            *)
LEMMA RowsTile ==
  ASSUME NEW items, NEW order, NEW a, NEW g, NEW begin, a.len \in Nat,
         Tabulates(items, order, a, g), TilesTo(begin, items, a.len)
  PROVE  RowsTileFrom(g, begin)
<1> DEFINE k == Len(items)
<1>1. /\ items \in Seq(GoodbyeItem) /\ k \in Nat
      /\ order \in Injection(1..k, 1..k) /\ order \in [1..k -> 1..k]
      /\ g.at = a.len /\ Len(g.item.rows) = k
  BY DEF Tabulates, Injection
<1>2. \A j \in 1..k : \E i \in 1..k : order[i] = j
  BY <1>1, OrdersAreOnto
<1>3. ASSUME NEW i \in 1..k
      PROVE  /\ order[i] \in 1..k
             /\ g.at - g.item.rows[i].offset = items[order[i]].offset
             /\ g.item.rows[i].size = items[order[i]].size
  <2>1. order[i] \in 1..k
    BY <1>1
  <2>2. items[order[i]].offset \in Nat
    <3>1. items[order[i]] \in GoodbyeItem
      BY <1>1, <2>1
    <3> QED BY <3>1 DEF GoodbyeItem
  <2>3. /\ g.item.rows[i].offset = a.len - items[order[i]].offset
        /\ g.item.rows[i].size = items[order[i]].size
    BY DEF Tabulates
  <2>4. ASSUME NEW x \in Nat PROVE a.len - (a.len - x) = x
    OBVIOUS
  <2>5. g.at - g.item.rows[i].offset = items[order[i]].offset
    BY <1>1, <2>2, <2>3, <2>4
  <2> QED BY <2>1, <2>3, <2>5
<1> HIDE DEF k
<1>4. Starts(g) = {items[j].offset : j \in 1..k}
  <2>1. \A i \in 1..k : g.at - g.item.rows[i].offset = items[order[i]].offset
    BY <1>3
  <2>2. Starts(g) = {g.at - g.item.rows[i].offset : i \in 1..k}
    BY <1>1 DEF Starts
  <2>3. Starts(g) = {items[order[i]].offset : i \in 1..k}
    BY <2>1, <2>2
  <2> QED BY <1>2, <1>3, <2>3
<1>5. Ends(g) = {items[j].offset + items[j].size : j \in 1..k}
  <2>1. \A i \in 1..k :
          g.at - g.item.rows[i].offset + g.item.rows[i].size
            = items[order[i]].offset + items[order[i]].size
    BY <1>3
  <2>2. Ends(g) = {g.at - g.item.rows[i].offset + g.item.rows[i].size :
                     i \in 1..k}
    BY <1>1 DEF Ends
  <2>3. Ends(g) = {items[order[i]].offset + items[order[i]].size : i \in 1..k}
    BY <2>1, <2>2
  <2> QED BY <1>2, <1>3, <2>3
<1> QED BY <1>1, <1>4, <1>5 DEF TilesTo, k, RowsTileFrom

LEMMA FinishTiles ==
  ASSUME OInv, OInv', faults = {}, faults' = {}, Unbroken', Unbroken => Tiled,
         Finish
  PROVE  Tiled'
<1>1. /\ state # <<>> /\ IInv /\ file' = file /\ ~file.open
      /\ "finish" \notin faults
      /\ result' = IF Depth > 1 THEN result
                   ELSE IF Top.encode_error = "none" THEN "ok"
                        ELSE "incomplete"
  BY DEF Finish, Usable, OInv
<1>2. PICK p \in SortedOrders(Top.items) :
        LET w == SeqWrite(ArchiveWriter, GoodbyeTable(Top, p)) IN
        /\ archive' = w.out /\ w.position \in Nat
        /\ ItemOK(GoodbyeTable(Top, p))
        /\ Depth = 1 => state' = <<>>
        /\ Depth # 1 =>
             /\ Depth - 1 \in Nat \ {0}
             /\ Depth' = Depth - 1 /\ state' # <<>>
             /\ \A d \in 1..Depth - 2 : state'[d] = state[d]
             /\ state[Depth - 1] \in EncoderStates
             /\ DirectoryItem(Top, w.position) \in GoodbyeItem
             /\ state'[Depth - 1] = Top'
             /\ Top'.items = Append(state[Depth - 1].items,
                                    DirectoryItem(Top, w.position))
             /\ Top'.entry_offset = state[Depth - 1].entry_offset
             /\ Top'.files_offset = state[Depth - 1].files_offset
             /\ Top'.file_offset = state[Depth - 1].file_offset
             /\ Top'.encode_error =
                  IF state[Depth - 1].encode_error = "none"
                    THEN Top.encode_error
                    ELSE state[Depth - 1].encode_error
  BY <1>1, DirectoryCloses
<1> DEFINE table == GoodbyeTable(Top, p)
           w == SeqWrite(ArchiveWriter, table)
           item == DirectoryItem(Top, w.position)
           g == [at |-> archive.len, item |-> table]
<1>3. /\ Depth \in Nat \ {0} /\ Depth = Len(state) /\ DirOK(Top)
      /\ Top \in EncoderStates /\ IsWriter(ArchiveWriter)
      /\ state[Depth] = Top
      /\ Top.write_position = archive.len /\ archive.len \in Nat
      /\ ArchiveWriter.out = archive
      /\ ArchiveWriter.position = archive.len
  BY <1>1, TopOK, TopLeads DEF DirOK, Top, ArchiveWriter
<1>4. PICK order : Tabulates(Top.items, order, archive, g)
  BY <1>1, TableIsOrdered
<1>5. /\ archive'.cells = archive.cells \cup {g} /\ g.item.htype = "GOODBYE"
      /\ g.at = archive.len /\ g.item.tail = GoodbyeTail(Top)
      /\ g.item = table
  BY <1>2, <1>3, SeqWriteCells DEF GoodbyeTable, Goodbye
<1>6. w.position = archive'.len
  <2>1. Extends(ArchiveWriter, w)
    BY <1>2, <1>3, SeqWriteExtends
  <2>2. w.out = archive'
    BY <1>2
  <2> HIDE DEF w
  <2> QED BY <1>3, <2>1, <2>2 DEF Extends, IsWriter, Stream
<1>7. Unbroken
  <2>1. CASE Depth = 1
    <3>1. result' # "incomplete" /\ ~(Depth > 1)
      BY <1>2, <1>3, <2>1 DEF Unbroken
    <3>2. Top.encode_error = "none"
      BY <1>1, <3>1
    <3> QED BY <1>1, <1>3, <2>1, <3>2 DEF Unbroken, Tainted
  <2>2. CASE Depth # 1
    <3>1. \A d \in 1..Depth - 1 : state'[d].encode_error = "none"
      BY <1>2, <2>2 DEF Unbroken, Tainted
    <3>2. Top'.encode_error = "none"
      <4>1. Depth - 1 \in 1..Depth - 1
        BY <1>3, <2>2
      <4> QED BY <1>2, <2>2, <3>1, <4>1
    <3>3. /\ state[Depth - 1].encode_error = "none"
          /\ Top.encode_error = "none"
      BY <1>2, <2>2, <3>2
    <3>4. ASSUME NEW d \in 1..Depth PROVE state[d].encode_error = "none"
      <4>1. d \in 1..Depth - 2 \/ d = Depth - 1 \/ d = Depth
        BY <1>3
      <4>2. d \in 1..Depth - 2 => d \in 1..Depth - 1
        BY <1>3
      <4> QED BY <1>2, <1>3, <2>2, <3>1, <3>3, <4>1, <4>2
    <3> QED BY <1>1, <3>4 DEF Unbroken, Tainted
  <2> QED BY <2>1, <2>2
<1>8. /\ EntrySpans(archive, Top.entry_offset, Top.files_offset)
      /\ TilesTo(Top.files_offset, Top.items, archive.len)
  <2>1. DirTiles(archive, state, file, Depth)
    BY <1>3, <1>7 DEF Tiled, TiledIn
  <2>2. Depth \in Nat
    BY <1>3
  <2> QED BY <1>1, <1>3, <1>7, <2>1, TopTiles DEF DirTiles
<1>9. g.item.tail.offset = archive.len - Top.entry_offset
  BY <1>3, <1>5 DEF GoodbyeTail
<1> HIDE DEF g, table
<1>10. RowsTileFrom(g, Top.files_offset)
  BY <1>3, <1>4, <1>8, RowsTile
<1>11. TableTiles(archive', g)
  <2>1. PICK e \in CellsOf(archive, "ENTRY") :
          /\ e.at = Top.entry_offset
          /\ e.at + e.item.size = Top.files_offset
    BY <1>8 DEF EntrySpans
  <2>2. e \in CellsOf(archive', "ENTRY")
    BY <1>5 DEF CellsOf
  <2>3. e.at = g.at - g.item.tail.offset
    <3>1. Top.entry_offset \in Nat
      BY <1>3 DEF EncoderStates
    <3> QED BY <1>3, <1>5, <1>9, <2>1, <3>1
  <2> QED BY <1>10, <2>1, <2>2, <2>3 DEF TableTiles
<1>12. \A h \in TablesIn(archive') : TableTiles(archive', h)
  <2> SUFFICES ASSUME NEW h \in TablesIn(archive')
               PROVE  TableTiles(archive', h)
    OBVIOUS
  <2>1. h \in TablesIn(archive) \/ h = g
    BY <1>5 DEF TablesIn, CellsOf
  <2>2. archive.cells \subseteq archive'.cells
    BY <1>5
  <2> QED BY <1>7, <1>11, <2>1, <2>2, EntrySpansMore DEF Tiled, TiledIn
<1>13. FileReaches(archive', file')
  BY <1>1 DEF FileReaches
<1>14. CASE Depth = 1
  <2>1. Len(state') = 0
    BY <1>2, <1>14
  <2>2. 1..Len(state') = {}
    BY <2>1
  <2> QED BY <1>12, <1>13, <2>2 DEF Tiled, TiledIn
<1>15. CASE Depth # 1
  <2>1. /\ Depth - 1 \in Nat \ {0} /\ Len(state') = Depth - 1
        /\ \A d \in 1..Depth - 2 : state'[d] = state[d]
        /\ state[Depth - 1].items \in Seq(GoodbyeItem)
        /\ item \in GoodbyeItem
        /\ state'[Depth - 1] = Top'
        /\ Top'.items = Append(state[Depth - 1].items, item)
        /\ Top'.entry_offset = state[Depth - 1].entry_offset
        /\ Top'.files_offset = state[Depth - 1].files_offset
        /\ Top'.file_offset = state[Depth - 1].file_offset
    BY <1>2, <1>15 DEF EncoderStates, Depth, table
  <2>2. item.offset = Top.file_offset /\ item.offset + item.size = archive'.len
    <3>1. item.offset = Top.file_offset
      BY DEF DirectoryItem
    <3>2. item.size = archive'.len - Top.file_offset
      BY <1>6 DEF DirectoryItem
    <3>3. Top.file_offset \in Nat /\ archive'.len \in Nat
      BY <1>2, <1>3, <1>6 DEF EncoderStates, table
    <3> HIDE DEF item
    <3> QED BY <3>1, <3>2, <3>3
  <2> HIDE DEF item, w
  <2>3. archive.cells \subseteq archive'.cells
    BY <1>5
  <2>4. \A d \in 1..Depth : DirTiles(archive, state, file, d)
    BY <1>3, <1>7 DEF Tiled, TiledIn
  <2>5. DirTiles(archive', state', file', Depth - 1)
    <3>1. /\ EntrySpans(archive, state[Depth - 1].entry_offset,
                       state[Depth - 1].files_offset)
          /\ TilesTo(state[Depth - 1].files_offset, state[Depth - 1].items,
                     Reach(archive, state, file, Depth - 1))
      <4>1. Depth - 1 \in 1..Depth
        BY <1>3, <2>1
      <4> QED BY <2>4, <4>1 DEF DirTiles
    <3>2. Reach(archive, state, file, Depth - 1) = item.offset
      <4>1. Depth - 1 < Len(state) /\ (Depth - 1) + 1 = Depth
        BY <1>3
      <4> QED BY <1>3, <2>2, <4>1 DEF Reach
    <3>3. TilesTo(Top'.files_offset, Top'.items, archive'.len)
      BY <2>1, <2>2, <3>1, <3>2, AppendTiles
    <3>4. Reach(archive', state', file', Depth - 1) = archive'.len
      <4>1. ~(Depth - 1 < Len(state'))
        BY <1>3, <2>1
      <4> QED BY <1>1, <4>1 DEF Reach
    <3> QED BY <2>1, <2>3, <3>1, <3>3, <3>4, EntrySpansMore DEF DirTiles
  <2>6. ASSUME NEW d \in 1..Depth - 2
        PROVE  DirTiles(archive', state', file', d)
    <3>1. /\ d \in 1..Depth /\ d < Len(state) /\ d < Len(state')
          /\ d + 1 \in 1..Depth - 2 \/ d + 1 = Depth - 1
      BY <1>3, <2>1
    <3>2. /\ state'[d] = state[d]
          /\ state'[d + 1].file_offset = state[d + 1].file_offset
      BY <2>1, <3>1
    <3>3. Reach(archive', state', file', d) = Reach(archive, state, file, d)
      BY <3>1, <3>2 DEF Reach
    <3>4. DirTiles(archive, state, file, d)
      BY <2>4, <3>1
    <3> QED BY <2>3, <3>2, <3>3, <3>4, EntrySpansMore DEF DirTiles
  <2>7. ASSUME NEW d \in 1..Len(state')
        PROVE  DirTiles(archive', state', file', d)
    <3>1. d \in 1..Depth - 2 \/ d = Depth - 1
      BY <1>3, <2>1
    <3> QED BY <2>5, <2>6, <3>1
  <2> QED BY <1>12, <1>13, <2>7 DEF Tiled, TiledIn
<1> QED BY <1>14, <1>15

(* The root has no FILENAME: its ENTRY is the first item of the archive.     *)
LEMMA NewTiles ==
  ASSUME ~Split, IInv, NEW meta \in Metas, NEW prelude \in Preludes,
         New(meta, prelude)
  PROVE  Tiled'
<1> DEFINE start == [out |-> EmptyStream, position |-> 0]
           w == SeqWrite(start, Entry(meta))
           e == [at |-> 0, item |-> Entry(meta)]
           root == EncoderState(0, w.position, 0, 0, w.position, 0)
<1>1. prelude = <<>> /\ file' = file /\ ~file.open
  BY DEF New, IInv, TypeOK
<1>2. archive' = w.out /\ state' = <<root>>
  BY <1>1 DEF New
<1>3. /\ e.item = Entry(meta) /\ e.at = 0 /\ Entry(meta).htype = "ENTRY"
      /\ Entry(meta).size \in Nat
      /\ w.out.cells = {e} /\ w.out.len = Entry(meta).size
      /\ w.position = Entry(meta).size
  <2>1. Entry(meta).htype = "ENTRY"
    BY DEF Entry
  <2>2. Entry(meta).size \in Nat
    BY EncoderAssumption DEF Entry, Metadata, HeaderSize, StatSize
  <2> QED BY <2>1, <2>2 DEF SeqWrite, Append1, EmptyStream
<1>4. /\ root.entry_offset = 0 /\ root.files_offset = w.position
      /\ root.items = <<>>
  BY DEF EncoderState
<1> HIDE DEF e, w
<1>5. EntrySpans(archive', root.entry_offset, root.files_offset)
  BY <1>2, <1>3, <1>4 DEF EntrySpans, CellsOf
<1>6. TablesIn(archive') = {}
  BY <1>2, <1>3 DEF TablesIn, CellsOf
<1> HIDE DEF root
<1>7. Len(state') = 1 /\ state'[1] = root /\ 1..Len(state') = {1}
  BY <1>2
<1>8. Reach(archive', state', file', 1) = archive'.len
  BY <1>1, <1>7 DEF Reach
<1>9. DirTiles(archive', state', file', 1)
  BY <1>2, <1>3, <1>4, <1>5, <1>7, <1>8, NothingTiles DEF DirTiles
<1>10. FileReaches(archive', file')
  BY <1>1 DEF FileReaches
<1> QED BY <1>6, <1>7, <1>9, <1>10 DEF Tiled, TiledIn

LEMMA NextTiles ==
  ASSUME ~Split, OInv, OInv', faults' = {}, Unbroken', Unbroken => Tiled,
         [Next]_vars
  PROVE  Tiled'
<1>1. /\ faults = {} /\ IInv /\ IInv' /\ \A kind : ~Fail(kind)
      /\ \A kind : MetasOf(kind) \subseteq Metas
  BY FaultsGrow, FaultsStay DEF OInv, MetasOf
<1>2. ASSUME NEW meta \in Metas, NEW prelude \in Preludes, New(meta, prelude)
      PROVE  Tiled'
  BY <1>1, <1>2, NewTiles
<1>3. ASSUME NEW n \in Names, OtherEntryCalls(n)
      PROVE  Tiled'
  BY <1>1, <1>3, OtherEntriesTile
<1>4. CASE FileCalls
  <2>1. ASSUME NEW n \in Names, NEW meta \in Metas, NEW size \in FileSizes
        PROVE  ~CreateFileFails(n, meta, size)
    BY <1>1 DEF CreateFileFails
  <2> QED BY <1>1, <1>4, <2>1, CreateFileTiles, AddFileTiles DEF FileCalls
<1>5. CASE WriteCalls
  <2>1. ASSUME NEW k \in WriteSizes PROVE ~WriteAllFails(k)
    BY <1>1 DEF WriteAllFails
  <2> QED BY <1>1, <1>5, <2>1, WriteTiles, DropFileTiles DEF WriteCalls
<1>6. CASE RefCalls
  BY <1>1, <1>3, <1>6, AdvanceTiles DEF RefCalls, OtherEntryCalls
<1>7. CASE EntryCalls
  BY <1>1, <1>3, <1>7, CreateDirectoryTiles DEF EntryCalls, OtherEntryCalls
<1>8. CASE Finish
  BY <1>1, <1>8, FinishTiles
<1>9. CASE FinishFails
  BY <1>1, <1>9 DEF FinishFails
<1>10. CASE UNCHANGED <<archive, state, file, result>>
  BY <1>10 DEF Tiled, Unbroken, Tainted, Depth
<1>11. CASE Close
  BY <1>10, <1>11 DEF Close
<1> QED BY <1>2, <1>4, <1>5, <1>6, <1>7, <1>8, <1>9, <1>10, <1>11
        DEF Next, Terminated, vars

-----------------------------------------------------------------------------
(* In a table that finish() wrote each row ends where another begins, the    *)
(* first after the directory's ENTRY and the last before the table: however  *)
(* entries are nested, sorted and laid out, and in whichever pieces contents *)
(* were written, with write() or with AsyncWrite.                           *)
THEOREM TablesTile == Spec => []RowsTileDirectory
<1>1. Init => XInv
  <2>1. ASSUME Init PROVE Tiled
    <3>1. /\ Len(state) = 0 /\ TablesIn(archive) = {} /\ ~file.open
      BY <2>1 DEF Init, NoFile, EmptyStream, TablesIn, CellsOf
    <3>2. 1..Len(state) = {}
      BY <3>1
    <3> QED BY <3>1, <3>2 DEF Tiled, TiledIn, FileReaches
  <2> QED BY <2>1, InitLeads DEF XInv
<1>2. XInv /\ [Next]_vars => XInv'
  <2> SUFFICES ASSUME XInv, [Next]_vars
               PROVE  XInv'
    OBVIOUS
  <2>1. OInv /\ OInv'
    BY NextKeeps, NextLeads DEF XInv, OInv
  <2>2. ASSUME ~Split, faults' = {}, Unbroken'
        PROVE  Tiled'
    <3>1. Unbroken => Tiled
      BY <2>2, FaultsGrow DEF XInv
    <3> QED BY <2>1, <2>2, <3>1, NextTiles
  <2> QED BY <2>1, <2>2 DEF XInv
<1>3. XInv => RowsTileDirectory
  <2> SUFFICES ASSUME XInv, ~Split, faults = {}, ~Tainted,
                      result # "incomplete"
               PROVE  \A g \in TablesIn(archive) : TableTiles(archive, g)
    BY DEF RowsTileDirectory, TablesIn, TableTiles, RowsTileFrom
  <2>1. Tiled
    BY DEF XInv, Unbroken
  <2> QED BY <2>1 DEF Tiled, TiledIn
<1> QED BY <1>1, <1>2, <1>3, PTL DEF Spec

-----------------------------------------------------------------------------
(***************************************************************************)
(* Items do not overlap.  A reader that finds an item at a position thus    *)
(* finds the only one, whichever way it came there.  Without it a hardlink, *)
(* which counts its offset from the FILENAME it belongs to, would not even  *)
(* have one FILENAME.                                                      *)
(***************************************************************************)
Apart(cells) ==
  \A c, d \in cells :
    c = d \/ c.at + c.item.size <= d.at \/ d.at + d.item.size <= c.at

VersionFirst(cells) ==
  \A c \in cells : c.item.htype = "FORMAT_VERSION" => c.at = 0

(* Each hardlink counts back to the file its path names, by a LinkOffset     *)
(* that the caller was given.                                               *)
LinksKept(cells, offsets) ==
  \A c, own \in cells :
    /\ c.item.htype = "HARDLINK"
    /\ own.item.htype = "FILENAME"
    /\ own.at + own.item.size = c.at
    => own.at - c.item.offset = c.item.target /\ c.item.target \in offsets

LaidOut(cells, offsets) ==
  Apart(cells) /\ VersionFirst(cells) /\ LinksKept(cells, offsets)

LaysOut(w, offsets) == IsWriter(w) /\ LaidOut(w.out.cells, offsets)

(* Claimed as long as no call failed: only such archives are opened.         *)
NInv == OInv /\ (faults = {} => LaidOut(archive.cells, links))

LEMMA NewCellApart ==
  ASSUME NEW s, Stream(s), NEW item, ItemOK(item), Apart(s.cells)
  PROVE  /\ Apart(Append1(s, item).cells)
         /\ \A c \in s.cells : c.at + c.item.size <= s.len
         /\ \A c \in s.cells : c.at \in Nat /\ c.item.size \in Nat
         /\ s.len \in Nat
<1> DEFINE new == [at |-> s.len, item |-> item]
           cells == Append1(s, item).cells
<1>1. /\ cells = s.cells \cup {new} /\ new.at = s.len /\ s.len \in Nat
  BY AppendCells
<1>2. \A c \in s.cells : /\ c.at + c.item.size <= s.len
                         /\ c.at \in Nat /\ c.item.size \in Nat
  BY DEF Stream, ItemOK
<1> HIDE DEF cells, new
<1>3. ASSUME NEW c \in cells, NEW d \in cells
      PROVE  \/ c = d \/ c.at + c.item.size <= d.at
             \/ d.at + d.item.size <= c.at
  <2>1. CASE c \in s.cells /\ d \in s.cells
    BY <2>1 DEF Apart
  <2>2. CASE c \in s.cells /\ d = new
    BY <1>1, <1>2, <2>2
  <2>3. CASE c = new /\ d \in s.cells
    BY <1>1, <1>2, <2>3
  <2>4. CASE c = new /\ d = new
    BY <2>4
  <2> QED BY <1>1, <2>1, <2>2, <2>3, <2>4
<1>4. Apart(cells)
  BY <1>3 DEF Apart
<1> QED BY <1>1, <1>2, <1>4 DEF cells

(* Another item, other than a hardlink.                                     *)
LEMMA ItemLaidOut ==
  ASSUME NEW w, NEW offsets, LaysOut(w, offsets), NEW item, ItemOK(item),
         item.htype \notin {"FORMAT_VERSION", "HARDLINK"}
  PROVE  LaysOut(SeqWrite(w, item), offsets)
<1> DEFINE s == w.out
           new == [at |-> s.len, item |-> item]
           cells == SeqWrite(w, item).out.cells
<1>1. IsWriter(SeqWrite(w, item)) /\ Stream(s)
  BY SeqWriteExtends DEF LaysOut, Extends, IsWriter
<1>2. /\ cells = s.cells \cup {new} /\ new.at = s.len /\ new.item = item
      /\ item.size \in Nat
  BY <1>1, AppendCells, WriterOut
<1>3. /\ Apart(cells) /\ s.len \in Nat
      /\ \A c \in s.cells : /\ c.at + c.item.size <= s.len
                            /\ c.at \in Nat /\ c.item.size \in Nat
  BY <1>1, NewCellApart, WriterOut DEF LaysOut, LaidOut
<1>4. \A c \in s.cells : c.item.htype = "HARDLINK" => c.item.size >= 16
  BY <1>1 DEF Stream, ItemOK, HeaderSize
<1>5. /\ VersionFirst(s.cells) /\ LinksKept(s.cells, offsets)
  BY DEF LaysOut, LaidOut
<1> HIDE DEF cells, new, s
<1>6. VersionFirst(cells)
  BY <1>2, <1>5 DEF VersionFirst
<1>7. LinksKept(cells, offsets)
  <2> SUFFICES ASSUME NEW c \in cells, NEW own \in cells,
                      c.item.htype = "HARDLINK", own.item.htype = "FILENAME",
                      own.at + own.item.size = c.at
               PROVE  /\ own.at - c.item.offset = c.item.target
                      /\ c.item.target \in offsets
    BY DEF LinksKept
  <2>1. c \in s.cells
    BY <1>2
  <2>2. CASE own \in s.cells
    BY <1>5, <2>1, <2>2 DEF LinksKept
  <2>3. own # new
    <3>1. c.at < s.len
      BY <1>3, <1>4, <2>1
    <3> QED BY <1>2, <1>3, <2>1, <3>1
  <2> QED BY <1>2, <2>2, <2>3
<1> QED BY <1>1, <1>3, <1>6, <1>7 DEF LaysOut, LaidOut, cells

LEMMA DataLaidOut ==
  ASSUME NEW w, NEW offsets, LaysOut(w, offsets), NEW k \in Nat
  PROVE  LaysOut(SeqWriteData(w, k), offsets)
<1>1. Data(k).htype = "DATA" /\ ItemOK(Data(k))
  BY DEF Data, ItemOK, ItemTypes
<1> QED BY <1>1, ItemLaidOut DEF SeqWriteData

(* A hardlink counts from the FILENAME written right before.                *)
LEMMA HardlinkLaidOut ==
  ASSUME NEW w, NEW offsets, LaysOut(w, offsets), w.position = w.out.len,
         NEW n \in Names, NEW len \in Nat, NEW target \in offsets \cap Nat,
         target < w.position
  PROVE  LaysOut(SeqWrite(SeqWrite(w, Filename(n)),
                          Hardlink(w.position - target, target, len)), offsets)
<1> DEFINE named == SeqWrite(w, Filename(n))
           item == Hardlink(w.position - target, target, len)
           name == [at |-> w.out.len, item |-> Filename(n)]
           new == [at |-> named.out.len, item |-> item]
           cells == SeqWrite(named, item).out.cells
<1>1. /\ ItemOK(Filename(n)) /\ Filename(n).htype = "FILENAME"
      /\ Filename(n).size \in Nat \ {0}
  BY FilenameOK, NamesAssumption DEF ItemOK, Filename, HeaderSize
<1>2. LaysOut(named, offsets)
  BY <1>1, ItemLaidOut
<1>3. /\ ItemOK(item) /\ item.htype = "HARDLINK"
      /\ item.offset = w.position - target /\ item.target = target
  BY SizedItemsOK DEF Hardlink
<1>4. /\ IsWriter(SeqWrite(named, item)) /\ Stream(named.out)
      /\ Stream(w.out) /\ w.out.len \in Nat
  BY <1>2, <1>3, SeqWriteExtends DEF LaysOut, Extends, IsWriter, Stream
<1>5. /\ named.out.cells = w.out.cells \cup {name}
      /\ named.out.len = w.out.len + Filename(n).size
      /\ name.at = w.out.len /\ name.item = Filename(n)
  BY <1>1, <1>4, AppendCells, WriterOut
<1> HIDE DEF named, name, item
<1>6. /\ cells = named.out.cells \cup {new} /\ new.at = named.out.len
      /\ new.item = item
  BY <1>3, <1>4, AppendCells, WriterOut
<1>7. /\ Apart(cells)
      /\ \A c \in named.out.cells : /\ c.at + c.item.size <= named.out.len
                                    /\ c.at \in Nat /\ c.item.size \in Nat
  BY <1>2, <1>3, <1>4, NewCellApart, WriterOut DEF LaysOut, LaidOut
<1>8. /\ VersionFirst(named.out.cells) /\ LinksKept(named.out.cells, offsets)
      /\ Apart(named.out.cells)
  BY <1>2 DEF LaysOut, LaidOut
<1> HIDE DEF cells, new
<1>9. VersionFirst(cells)
  BY <1>3, <1>6, <1>8 DEF VersionFirst
<1>10. LinksKept(cells, offsets)
  <2> SUFFICES ASSUME NEW c \in cells, NEW own \in cells,
                      c.item.htype = "HARDLINK", own.item.htype = "FILENAME",
                      own.at + own.item.size = c.at
               PROVE  /\ own.at - c.item.offset = c.item.target
                      /\ c.item.target \in offsets
    BY DEF LinksKept
  <2>1. own \in named.out.cells
    BY <1>3, <1>6
  <2>2. CASE c \in named.out.cells
    BY <1>8, <2>1, <2>2 DEF LinksKept
  <2>3. CASE c = new
    <3>1. own.at + own.item.size = name.at + name.item.size
      BY <1>5, <1>6, <2>3
    <3>2. own = name \/ own.at + own.item.size <= name.at
                     \/ name.at + name.item.size <= own.at
      BY <1>5, <1>8, <2>1 DEF Apart
    <3>3. /\ own.item.size \in Nat /\ own.item.size >= 16 /\ own.at \in Nat
          /\ name.item.size \in Nat \ {0} /\ name.at \in Nat
      BY <1>1, <1>4, <1>5, <2>1 DEF Stream, ItemOK, HeaderSize
    <3>4. own = name
      BY <3>1, <3>2, <3>3
    <3>5. w.out.len - (w.out.len - target) = target
      BY <1>4
    <3> QED BY <1>3, <1>5, <1>6, <2>3, <3>4, <3>5
  <2> QED BY <1>6, <2>2, <2>3
<1> QED BY <1>4, <1>7, <1>9, <1>10 DEF LaysOut, LaidOut, cells, named,
                                               item

LEMMA MoreLinksKept ==
  ASSUME NEW cells, NEW offsets, LaidOut(cells, offsets),
         NEW more, offsets \subseteq more
  PROVE  LaidOut(cells, more)
BY DEF LaidOut, LinksKept

LEMMA StartLaidOut ==
  ASSUME IInv, state # <<>>, LaidOut(archive.cells, links),
         NEW n \in Names, NEW meta \in Metas
  PROVE  /\ LaysOut(ArchiveWriter, links)
         /\ LaysOut(SeqWrite(ArchiveWriter, Filename(n)), links)
         /\ LaysOut(StartFile(n, meta), links)
<1>1. LaysOut(ArchiveWriter, links)
  BY TopOK DEF LaysOut, ArchiveWriter
<1>2. /\ ItemOK(Filename(n)) /\ Filename(n).htype = "FILENAME"
      /\ ItemOK(Entry(meta)) /\ Entry(meta).htype = "ENTRY"
  BY NamedItemsOK DEF Filename, Entry
<1>3. LaysOut(SeqWrite(ArchiveWriter, Filename(n)), links)
  BY <1>1, <1>2, ItemLaidOut
<1> QED BY <1>1, <1>2, <1>3, ItemLaidOut DEF StartFile

LEMMA FileLaidOut ==
  ASSUME IInv, state # <<>>, LaidOut(archive.cells, links),
         NEW n \in Names, NEW meta \in Metas, NEW size \in FileSizes
  PROVE  LaysOut(FileArchive(n, meta, size), links)
<1> DEFINE item == IF Split THEN PayloadRef(Top.payload_write_position, size)
                            ELSE Payload(size)
<1>1. ItemOK(item) /\ item.htype \in {"PAYLOAD_REF", "PAYLOAD"}
  <2>1. Top.payload_write_position \in Nat /\ size \in Nat
    BY TopOK, EncoderAssumption
  <2> QED BY <2>1, SizedItemsOK DEF PayloadRef, Payload
<1>2. LaysOut(StartFile(n, meta), links)
  BY StartLaidOut
<1> HIDE DEF item
<1>3. LaysOut(SeqWrite(StartFile(n, meta), item), links)
  BY <1>1, <1>2, ItemLaidOut
<1> QED BY <1>3 DEF FileArchive, item

LEMMA FileCallsLayOut ==
  ASSUME IInv, LaidOut(archive.cells, links),
         NEW n \in Names, NEW meta \in Metas, NEW size \in FileSizes,
         \/ CreateFile(n, meta, size)
         \/ \E got \in 0..size, returned \in BOOLEAN :
              AddFile(n, meta, size, got, returned)
  PROVE  LaidOut(archive'.cells, links')
<1> DEFINE a == FileArchive(n, meta, size)
<1>1. state # <<>> /\ links \subseteq links'
  BY DEF CreateFile, AddFile, CanCreateFile, Check, Usable
<1>2. LaysOut(a, links)
  BY <1>1, FileLaidOut
<1>3. CASE CreateFile(n, meta, size)
  <2>1. archive' = a.out
    BY <1>3 DEF CreateFile
  <2> QED BY <1>1, <1>2, <2>1, MoreLinksKept DEF LaysOut
<1>4. ASSUME NEW got \in 0..size, NEW returned \in BOOLEAN,
             AddFile(n, meta, size, got, returned)
      PROVE  LaidOut(archive'.cells, links')
  <2>1. archive' = (IF Split THEN a ELSE SeqWriteData(a, got)).out
    BY <1>4 DEF AddFile
  <2>2. got \in Nat
    BY EncoderAssumption
  <2> HIDE DEF a
  <2>3. LaysOut(SeqWriteData(a, got), links)
    BY <1>2, <2>2, DataLaidOut
  <2> QED BY <1>1, <1>2, <2>1, <2>3, MoreLinksKept DEF LaysOut
<1> QED BY <1>3, <1>4

LEMMA WritesLayOut ==
  ASSUME IInv, LaidOut(archive.cells, links),
         \/ \E k \in WriteSizes : Write(k) \/ PollWrite(k)
         \/ DropFile \/ Advance
  PROVE  LaidOut(archive'.cells, links')
<1>1. ASSUME NEW k \in WriteSizes, Write(k) \/ PollWrite(k)
      PROVE  LaidOut(archive'.cells, links')
  <2>1. /\ state # <<>> /\ links' = links
        /\ archive' = archive \/ archive' = SeqWriteData(ArchiveWriter, k).out
    BY <1>1 DEF Write, PollWrite, PutContent, PutToArchive, PutToPayload,
                IInv, TypeOK
  <2>2. LaysOut(ArchiveWriter, links) /\ k \in Nat
    BY <2>1, TopOK, EncoderAssumption DEF LaysOut, ArchiveWriter
  <2>3. LaysOut(SeqWriteData(ArchiveWriter, k), links)
    BY <2>2, DataLaidOut
  <2> QED BY <2>1, <2>3 DEF LaysOut
<1>2. CASE DropFile \/ Advance
  BY <1>2 DEF DropFile, Advance
<1> QED BY <1>1, <1>2

LEMMA EntriesLayOut ==
  ASSUME OInv, faults = {}, faults' = {}, LaidOut(archive.cells, links),
         NEW n \in Names,
         \/ OtherEntryCalls(n)
         \/ \E meta \in Metas : CreateDirectory(n, meta)
  PROVE  LaidOut(archive'.cells, links')
<1>1. IInv /\ \A full : ~CallFails(full)
  BY FaultsStay DEF CallFails, OInv
<1>2. ASSUME NEW full, AddFileEntry(n, full), LaysOut(full, links),
             links' = links
      PROVE  LaidOut(archive'.cells, links')
  <2>1. archive' = full.out
    BY <1>1, <1>2 DEF AddFileEntry, EntryAdded
  <2> QED BY <1>2, <2>1 DEF LaysOut
<1>3. ASSUME NEW meta \in Metas, state # <<>>, NEW item, ItemOK(item),
             item.htype \notin {"FORMAT_VERSION", "HARDLINK"}
      PROVE  LaysOut(SeqWrite(StartFile(n, meta), item), links)
  BY <1>1, <1>3, StartLaidOut, ItemLaidOut
<1>4. ASSUME NEW meta \in Metas, NEW len \in TargetLens,
             AddSymlink(n, meta, len)
      PROVE  LaidOut(archive'.cells, links')
  <2>1. /\ ItemOK(Symlink(len))
        /\ Symlink(len).htype \notin {"FORMAT_VERSION", "HARDLINK"}
    BY EncoderAssumption, SizedItemsOK DEF Symlink
  <2>2. /\ AddFileEntry(n, SeqWrite(StartFile(n, meta), Symlink(len)))
        /\ state # <<>> /\ links' = links
    BY <1>4 DEF AddSymlink, AddFileEntry, Check, Usable
  <2> QED BY <1>2, <1>3, <2>1, <2>2
<1>5. ASSUME NEW meta \in Metas, AddDevice(n, meta)
      PROVE  LaidOut(archive'.cells, links')
  <2>1. ItemOK(Device) /\ Device.htype \notin {"FORMAT_VERSION", "HARDLINK"}
    BY FixedItemsOK DEF Device
  <2>2. /\ AddFileEntry(n, SeqWrite(StartFile(n, meta), Device))
        /\ state # <<>> /\ links' = links
    BY <1>5 DEF AddDevice, AddFileEntry, Check, Usable
  <2> QED BY <1>2, <1>3, <2>1, <2>2
<1>6. ASSUME NEW meta \in Metas, AddFifo(n, meta) \/ AddSocket(n, meta)
      PROVE  LaidOut(archive'.cells, links')
  <2>1. /\ AddFileEntry(n, StartFile(n, meta))
        /\ state # <<>> /\ links' = links
    BY <1>6 DEF AddFifo, AddSocket, AddFileEntry, Check, Usable
  <2> QED BY <1>1, <1>2, <2>1, StartLaidOut
<1>7. ASSUME NEW meta \in Metas, NEW ref \in KnownPayloads \cup NextPayloads,
             AddPayloadRef(n, meta, ref)
      PROVE  LaidOut(archive'.cells, links')
  <2> DEFINE item == PayloadRef(ref.offset, ref.content)
  <2>1. /\ EntryAdded(n, SeqWrite(StartFile(n, meta), item))
        /\ state # <<>> /\ links \subseteq links'
    BY <1>1, <1>7 DEF AddPayloadRef, Check, Usable
  <2>2. ItemOK(item) /\ item.htype \notin {"FORMAT_VERSION", "HARDLINK"}
    BY <1>7, RefIsNext DEF PayloadRef
  <2> HIDE DEF item
  <2>3. LaysOut(SeqWrite(StartFile(n, meta), item), links)
    BY <1>3, <2>1, <2>2
  <2>4. archive' = SeqWrite(StartFile(n, meta), item).out
    BY <2>1 DEF EntryAdded
  <2> QED BY <2>1, <2>3, <2>4, MoreLinksKept DEF LaysOut
<1>8. ASSUME NEW len \in TargetLens, NEW target \in links,
             AddHardlink(n, len, target)
      PROVE  LaidOut(archive'.cells, links')
  <2> DEFINE full == SeqWrite(SeqWrite(ArchiveWriter, Filename(n)),
                              Hardlink(Top.write_position - target, target,
                                       len))
  <2>1. /\ AddFileEntry(n, full) /\ state # <<>> /\ links' = links
        /\ target < Top.write_position
    BY <1>8 DEF AddHardlink, AddFileEntry, Check, Usable
  <2>2. /\ LaysOut(ArchiveWriter, links)
        /\ ArchiveWriter.position = ArchiveWriter.out.len
        /\ ArchiveWriter.position = Top.write_position
    BY <1>1, <2>1, TopOK, TopLeads DEF LaysOut, ArchiveWriter
  <2>3. target \in links \cap Nat /\ len \in Nat
    BY <1>1, EncoderAssumption DEF IInv, TypeOK
  <2>4. LaysOut(full, links)
    BY <2>1, <2>2, <2>3, HardlinkLaidOut
  <2> QED BY <1>2, <2>1, <2>4
<1>9. ASSUME NEW meta \in Metas, CreateDirectory(n, meta)
      PROVE  LaidOut(archive'.cells, links')
  <2>1. /\ archive' = StartFile(n, meta).out /\ links' = links
        /\ state # <<>>
    BY <1>1, <1>9 DEF CreateDirectory, StartFile, Check, Usable
  <2> QED BY <1>1, <2>1, StartLaidOut DEF LaysOut
<1> QED BY <1>4, <1>5, <1>6, <1>7, <1>8, <1>9 DEF OtherEntryCalls

LEMMA FinishLaysOut ==
  ASSUME IInv, LaidOut(archive.cells, links), Finish
  PROVE  LaidOut(archive'.cells, links')
<1>1. state # <<>> /\ links' = links
  BY DEF Finish, Usable
<1>2. PICK p : /\ archive' = SeqWrite(ArchiveWriter, GoodbyeTable(Top, p)).out
               /\ ItemOK(GoodbyeTable(Top, p))
  BY DirectoryCloses
<1>3. GoodbyeTable(Top, p).htype = "GOODBYE"
  BY DEF GoodbyeTable, Goodbye
<1>4. LaysOut(ArchiveWriter, links)
  BY <1>1, TopOK DEF LaysOut, ArchiveWriter
<1> QED BY <1>1, <1>2, <1>3, <1>4, ItemLaidOut DEF LaysOut

LEMMA NewLaysOut ==
  ASSUME NEW meta \in Metas, NEW prelude \in Preludes, New(meta, prelude)
  PROVE  LaidOut(archive'.cells, links')
<1> DEFINE start == [out |-> EmptyStream, position |-> 0]
           version == SeqWrite(start, Version)
           w1 == IF Split THEN version ELSE start
           w2 == IF prelude = <<>> THEN w1
                 ELSE SeqWrite(w1, PreludeItem(prelude[1]))
           v == [at |-> 0, item |-> Version]
<1>1. archive' = SeqWrite(w2, Entry(meta)).out
  BY DEF New
<1>2. IsWriter(start) /\ start.out.cells = {} /\ start.out.len = 0
  BY DEF IsWriter, Stream, EmptyStream
<1>3. LaysOut(start, links')
  BY <1>2 DEF LaysOut, LaidOut, Apart, VersionFirst, LinksKept
<1>4. LaysOut(version, links')
  <2>1. IsWriter(version)
    BY <1>2, FixedItemsOK, SeqWriteExtends DEF Extends
  <2>2. version.out.cells = {v} /\ v.at = 0 /\ v.item = Version
    <3>1. version.out = Append1(start.out, Version)
      BY WriterOut
    <3> HIDE DEF start, version
    <3>2. Append1(start.out, Version).cells
            = start.out.cells \cup {[at |-> start.out.len, item |-> Version]}
      BY DEF Append1
    <3> QED BY <1>2, <3>1, <3>2
  <2>3. Version.htype = "FORMAT_VERSION"
    BY DEF Version
  <2> HIDE DEF version, v
  <2> QED BY <2>1, <2>2, <2>3 DEF LaysOut, LaidOut, Apart, VersionFirst,
                                 LinksKept
<1> HIDE DEF version, start
<1>5. LaysOut(w1, links')
  BY <1>3, <1>4
<1> HIDE DEF w1
<1>6. LaysOut(w2, links')
  <2>1. CASE prelude # <<>>
    <3>1. prelude[1] \in Nat
      BY <2>1, EncoderAssumption
    <3>2. /\ ItemOK(PreludeItem(prelude[1]))
          /\ PreludeItem(prelude[1]).htype = "PRELUDE"
      BY <3>1, SizedItemsOK DEF PreludeItem
    <3> QED BY <1>5, <2>1, <3>2, ItemLaidOut
  <2> QED BY <1>5, <2>1
<1> HIDE DEF w2
<1>7. ItemOK(Entry(meta)) /\ Entry(meta).htype = "ENTRY"
  <2>1. meta.attrs \in Nat /\ meta.kind \in FileKinds
    BY EncoderAssumption DEF Metadata
  <2> QED BY <2>1 DEF ItemOK, ItemTypes, Entry, HeaderSize, StatSize
<1> QED BY <1>1, <1>6, <1>7, ItemLaidOut DEF LaysOut

LEMMA NextLaysOut ==
  ASSUME NInv, OInv', [Next]_vars
  PROVE  NInv'
<1> SUFFICES ASSUME faults' = {} PROVE LaidOut(archive'.cells, links')
  BY DEF NInv
<1>1. /\ faults = {} /\ OInv /\ IInv /\ LaidOut(archive.cells, links)
      /\ \A kind : ~Fail(kind) /\ MetasOf(kind) \subseteq Metas
  BY FaultsGrow, FaultsStay DEF NInv, OInv, MetasOf
<1>2. ASSUME NEW meta \in Metas, NEW prelude \in Preludes, New(meta, prelude)
      PROVE  LaidOut(archive'.cells, links')
  BY <1>2, NewLaysOut
<1>3. CASE FileCalls
  <2>1. ASSUME NEW n \in Names, NEW meta \in Metas, NEW size \in FileSizes
        PROVE  ~CreateFileFails(n, meta, size)
    BY <1>1 DEF CreateFileFails
  <2> QED BY <1>1, <1>3, <2>1, FileCallsLayOut DEF FileCalls
<1>4. CASE WriteCalls
  <2>1. ASSUME NEW k \in WriteSizes PROVE ~WriteAllFails(k)
    BY <1>1 DEF WriteAllFails
  <2> QED BY <1>1, <1>4, <2>1, WritesLayOut DEF WriteCalls
<1>5. CASE RefCalls
  BY <1>1, <1>5, EntriesLayOut, WritesLayOut DEF RefCalls, OtherEntryCalls
<1>6. CASE EntryCalls
  BY <1>1, <1>6, EntriesLayOut DEF EntryCalls, OtherEntryCalls
<1>7. CASE Finish
  BY <1>1, <1>7, FinishLaysOut
<1>8. CASE FinishFails
  BY <1>1, <1>8 DEF FinishFails
<1>9. CASE UNCHANGED <<archive, links>>
  BY <1>1, <1>9
<1>10. CASE Close
  BY <1>9, <1>10 DEF Close
<1> QED BY <1>2, <1>3, <1>4, <1>5, <1>6, <1>7, <1>8, <1>9, <1>10
        DEF Next, Terminated, vars

(* As long as no call failed part way, no two items of the archive overlap,  *)
(* a FORMAT_VERSION only stands at its beginning, and every hardlink counts  *)
(* back from its own FILENAME to a file whose LinkOffset the caller was      *)
(* given: for any names, sizes, nesting and any way to write contents.       *)
THEOREM ItemsAreLaidOut == Spec => []NInv
<1>1. Init => NInv
  <2> SUFFICES ASSUME Init PROVE NInv
    OBVIOUS
  <2>1. OInv /\ archive.cells = {}
    BY InitLeads DEF Init, EmptyStream
  <2> QED BY <2>1 DEF NInv, LaidOut, Apart, VersionFirst, LinksKept
<1>2. NInv /\ [Next]_vars => NInv'
  BY NextKeeps, NextLeads, NextLaysOut DEF NInv, OInv
<1> QED BY <1>1, <1>2, PTL DEF Spec

-----------------------------------------------------------------------------
(***************************************************************************)
(* The grammar of an archive, which a reader that starts at its beginning   *)
(* goes by: what an item is followed by, at the byte where it ends.         *)
(***************************************************************************)
Tag(item) == IF item.htype = "ENTRY" THEN item.kind ELSE item.htype

EndOf(c) == c.at + c.item.size

(* An entry is complete: another one or the table of the directory follows.  *)
Rest == {"FILENAME", "GOODBYE"}

(* Unless there is more of its contents.                                    *)
More == Rest \cup {"DATA"}

After(tag) ==
  CASE tag = "FORMAT_VERSION" -> {"PRELUDE", "dir"}
    [] tag = "PRELUDE" -> {"dir"}
    [] tag = "FILENAME" -> FileKinds \cup {"HARDLINK"}
    [] tag = "file" -> {IF Split THEN "PAYLOAD_REF" ELSE "PAYLOAD"}
    [] tag = "symlink" -> {"SYMLINK"}
    [] tag = "device" -> {"DEVICE"}
    [] tag \in {"PAYLOAD", "DATA"} -> More
    [] OTHER -> Rest

MayFollow(d, c) == d.at = EndOf(c) /\ Tag(d.item) \in After(Tag(c.item))

(* No item is without a successor but the last one, whose successors may be  *)
(* those in "next".                                                         *)
Leads(s, next) ==
  \A c \in s.cells :
    \/ \E d \in s.cells : MayFollow(d, c)
    \/ EndOf(c) = s.len /\ next \subseteq After(Tag(c.item))

(* And none but the first one begins an entry, or goes on with it, out of    *)
(* place.                                                                   *)
Preceded(s) ==
  \A d \in s.cells :
    \/ Tag(d.item) \in More
    \/ d.at = 0
    \/ \E c \in s.cells : MayFollow(d, c)

Continues(s, next) ==
  \/ next \subseteq More
  \/ s.len = 0
  \/ \E c \in s.cells : EndOf(c) = s.len /\ next \subseteq After(Tag(c.item))

Solid(s) == \A c \in s.cells : c.item.size # 0

Grammatical(s, next) ==
  Solid(s) /\ Leads(s, next) /\ Preceded(s) /\ Continues(s, next)

(* What an archive begins with.                                             *)
First == IF Split THEN "FORMAT_VERSION" ELSE "dir"

StartsRight(cells) == \E c \in cells : c.at = 0 /\ Tag(c.item) = First

(***************************************************************************)
(* Nesting: which table belongs to which directory.  The root's table leads  *)
(* to offset 0, that of any other directory to its ENTRY.                   *)
(***************************************************************************)
Begins(g) == g.at - g.item.tail.offset

TablesOf(cells) == {c \in cells : c.item.htype = "GOODBYE"}

IsDirEntry(b) == Tag(b.item) = "dir"

(* The ENTRY of a directory that has a name.                                *)
Subdir(cells, x) ==
  \E n, b \in cells : /\ n.item.htype = "FILENAME" /\ EndOf(n) = x
                      /\ IsDirEntry(b) /\ b.at = x

RootEntry(cells, b) ==
  \/ b.at = 0
  \/ \E c \in cells : /\ EndOf(c) = b.at
                      /\ c.item.htype \in {"FORMAT_VERSION", "PRELUDE"}

Spans(cells, g) ==
  /\ g.item.tail.offset \in Nat
  /\ g.item.tail.offset <= g.at
  /\ Begins(g) = 0 \/ Subdir(cells, Begins(g))

(* One of two directories is within the other or they are apart.             *)
Laminar(tables) ==
  \A g, h \in tables :
    g.at < h.at => Begins(h) < Begins(g) \/ g.at < Begins(h)

(* Every directory below the root has a table or will get one.               *)
EveryDirCloses(cells, s) ==
  \A b \in cells :
    IsDirEntry(b) =>
      \/ RootEntry(cells, b)
      \/ \E g \in TablesOf(cells) : Begins(g) = b.at
      \/ \E d \in 2..Len(s) : s[d].entry_offset = b.at

(* The directories that are open, in those around them and with those that   *)
(* are closed within them or behind.                                        *)
OpenDirs(cells, s) ==
  /\ Len(s) > 0 => s[1].entry_offset = 0
  /\ \A d \in 2..Len(s) : Subdir(cells, s[d].entry_offset)
  /\ \A d, e \in 1..Len(s) : d < e => s[d].entry_offset < s[e].entry_offset
  /\ \A d \in 1..Len(s) : \A g \in TablesOf(cells) :
       g.at < s[d].entry_offset \/ s[d].entry_offset < Begins(g)

Nests(cells, s) ==
  /\ \A g \in TablesOf(cells) : Spans(cells, g)
  /\ Laminar(TablesOf(cells))
  /\ EveryDirCloses(cells, s)
  /\ OpenDirs(cells, s)

(* The root's table, behind which there is nothing.                         *)
RootIsClosed(s) ==
  \E g \in TablesOf(s.cells) : Begins(g) = 0 /\ EndOf(g) = s.len

(* The payload stream begins with a marker, which no file overlaps.          *)
Marked(p) ==
  /\ p.len >= HeaderSize
  /\ \E c \in p.cells : c.at = 0 /\ c.item.htype = "PAYLOAD_START_MARKER"
  /\ \A c \in CellsOf(p, "PAYLOAD") : c.at >= HeaderSize

(* What may come next, between two calls.                                   *)
Coming == IF file.open /\ ~Split THEN More ELSE Rest

WellFormed ==
  /\ Grammatical(archive, Coming)
  /\ IsFiniteSet(archive.cells)
  /\ Nests(archive.cells, state)
  /\ phase # "new" => StartsRight(archive.cells)
  /\ phase # "new" /\ state = <<>> => RootIsClosed(archive)
  /\ phase = "new" => archive.cells = {} /\ payload.cells = {}
  /\ phase # "new" /\ Split => Marked(payload)

(* Claimed as long as no call failed.                                       *)
GInv == NInv /\ (faults = {} => WellFormed)

-----------------------------------------------------------------------------
(***************************************************************************)
(* One item more.                                                          *)
(***************************************************************************)
LEMMA AppendIsGrammatical ==
  ASSUME NEW s, Stream(s), NEW item, ItemOK(item), NEW next,
         Grammatical(s, next), Tag(item) \in next,
         Tag(item) = "DATA" => item.size # 0
  PROVE  Grammatical(Append1(s, item), After(Tag(item)))
<1> DEFINE t == Append1(s, item)
           new == [at |-> s.len, item |-> item]
<1>1. /\ t.cells = s.cells \cup {new} /\ t.len = s.len + item.size
      /\ new.at = s.len /\ new.item = item /\ EndOf(new) = t.len
  BY AppendCells DEF EndOf
<1> HIDE DEF t, new
<1>2. Leads(t, After(Tag(item)))
  <2> SUFFICES ASSUME NEW c \in t.cells
               PROVE  \/ \E d \in t.cells : MayFollow(d, c)
                      \/ /\ EndOf(c) = t.len
                         /\ After(Tag(item)) \subseteq After(Tag(c.item))
    BY DEF Leads
  <2>1. CASE c = new
    BY <1>1, <2>1
  <2>2. CASE c \in s.cells
    <3>1. \/ \E d \in s.cells : MayFollow(d, c)
          \/ EndOf(c) = s.len /\ next \subseteq After(Tag(c.item))
      BY <2>2 DEF Grammatical, Leads
    <3>2. CASE EndOf(c) = s.len /\ next \subseteq After(Tag(c.item))
      <4>1. MayFollow(new, c)
        BY <1>1, <3>2 DEF MayFollow
      <4> QED BY <1>1, <4>1
    <3> QED BY <1>1, <3>1, <3>2
  <2> QED BY <1>1, <2>1, <2>2
<1>3. Preceded(t)
  <2> SUFFICES ASSUME NEW d \in t.cells
               PROVE  \/ Tag(d.item) \in More
                      \/ d.at = 0
                      \/ \E c \in t.cells : MayFollow(d, c)
    BY DEF Preceded
  <2>1. CASE d = new
    <3>1. CASE \E c \in s.cells : EndOf(c) = s.len
                                  /\ next \subseteq After(Tag(c.item))
      <4>1. PICK c \in s.cells : EndOf(c) = s.len
                                  /\ next \subseteq After(Tag(c.item))
        BY <3>1
      <4>2. MayFollow(d, c)
        BY <1>1, <2>1, <4>1 DEF MayFollow
      <4> QED BY <1>1, <4>2
    <3> QED BY <1>1, <2>1, <3>1 DEF Grammatical, Continues
  <2>2. CASE d \in s.cells
    BY <1>1, <2>2 DEF Grammatical, Preceded
  <2> QED BY <1>1, <2>1, <2>2
<1>4. Continues(t, After(Tag(item)))
  BY <1>1 DEF Continues
<1>5. Solid(t)
  <2>1. item.size # 0
    BY DEF ItemOK, Tag, HeaderSize
  <2> QED BY <1>1, <2>1 DEF Grammatical, Solid
<1> QED BY <1>2, <1>3, <1>4, <1>5 DEF Grammatical, t

LEMMA GrammaticalFewer ==
  ASSUME NEW s, NEW next, NEW fewer, Grammatical(s, next),
         fewer \subseteq next
  PROVE  Grammatical(s, fewer)
<1>1. Leads(s, fewer)
  BY DEF Grammatical, Leads
<1>2. Continues(s, fewer)
  BY DEF Grammatical, Continues
<1> QED BY <1>1, <1>2 DEF Grammatical

LEMMA Afters ==
  /\ After("FORMAT_VERSION") = {"PRELUDE", "dir"}
  /\ After("PRELUDE") = {"dir"}
  /\ After("FILENAME") = FileKinds \cup {"HARDLINK"}
  /\ After("file") = {IF Split THEN "PAYLOAD_REF" ELSE "PAYLOAD"}
  /\ After("symlink") = {"SYMLINK"}
  /\ After("device") = {"DEVICE"}
  /\ After("PAYLOAD") = More /\ After("DATA") = More
  /\ \A tag \in {"dir", "fifo", "socket", "SYMLINK", "DEVICE", "HARDLINK",
                 "PAYLOAD_REF", "GOODBYE"} : After(tag) = Rest
  BY DEF After

(***************************************************************************)
(* Writers, within a call: what was written since w is neither a directory  *)
(* nor a table.                                                            *)
(***************************************************************************)
Inner(item) == Tag(item) \notin {"dir", "GOODBYE"}

Grown(w, v, next) ==
  /\ IsWriter(v)
  /\ Grammatical(v.out, next)
  /\ IsFiniteSet(v.out.cells)
  /\ w.out.cells \subseteq v.out.cells
  /\ \A c \in v.out.cells \ w.out.cells : Inner(c.item)

LEMMA ItemGrows ==
  ASSUME NEW w, NEW v, NEW next, Grown(w, v, next),
         NEW item, ItemOK(item), Tag(item) \in next, Inner(item),
         Tag(item) = "DATA" => item.size # 0
  PROVE  Grown(w, SeqWrite(v, item), After(Tag(item)))
<1> DEFINE u == SeqWrite(v, item)
           new == [at |-> v.out.len, item |-> item]
<1>1. IsWriter(v) /\ Stream(v.out) /\ Grammatical(v.out, next)
      /\ IsFiniteSet(v.out.cells)
  BY DEF Grown, IsWriter
<1>2. IsWriter(u)
  BY <1>1, SeqWriteExtends DEF Extends
<1>3. u.out = Append1(v.out, item) /\ u.out.cells = v.out.cells \cup {new}
      /\ new.item = item
  BY SeqWriteCells, WriterOut
<1> HIDE DEF u, new
<1>4. Grammatical(u.out, After(Tag(item)))
  BY <1>1, <1>3, AppendIsGrammatical
<1>5. IsFiniteSet(u.out.cells)
  BY <1>1, <1>3, FS_AddElement
<1>6. \A c \in u.out.cells \ w.out.cells : Inner(c.item)
  BY <1>3 DEF Grown
<1> QED BY <1>2, <1>3, <1>4, <1>5, <1>6 DEF Grown, u

LEMMA DataGrows ==
  ASSUME NEW w, NEW v, Grown(w, v, More), NEW k \in Nat
  PROVE  Grown(w, SeqWriteData(v, k), More)
<1>1. /\ ItemOK(Data(k)) /\ Tag(Data(k)) = "DATA" /\ Inner(Data(k))
      /\ After("DATA") = More /\ "DATA" \in More
  BY Afters DEF ItemOK, ItemTypes, Data, Tag, Inner, More
<1>2. k # 0 => Grown(w, SeqWrite(v, Data(k)), More)
  <2>1. Data(k).size = k
    BY DEF Data
  <2> QED BY <1>1, <2>1, ItemGrows
<1> QED BY <1>2 DEF SeqWriteData

LEMMA GrownFewer ==
  ASSUME NEW w, NEW v, NEW next, Grown(w, v, next), NEW fewer,
         fewer \subseteq next
  PROVE  Grown(w, v, fewer)
  BY GrammaticalFewer DEF Grown

-----------------------------------------------------------------------------
(***************************************************************************)
(* Directories, while the current one is written to.                        *)
(***************************************************************************)
LEMMA SubdirMore ==
  ASSUME NEW cells, NEW more, cells \subseteq more
  PROVE  /\ \A x : Subdir(cells, x) => Subdir(more, x)
         /\ \A b : RootEntry(cells, b) => RootEntry(more, b)
         /\ \A g : Spans(cells, g) => Spans(more, g)
<1>1. \A x : Subdir(cells, x) => Subdir(more, x)
  BY DEF Subdir
<1>2. \A b : RootEntry(cells, b) => RootEntry(more, b)
  BY DEF RootEntry
<1> QED BY <1>1, <1>2 DEF Spans

LEMMA NestsMore ==
  ASSUME NEW cells, NEW more, cells \subseteq more,
         \A c \in more \ cells : Inner(c.item),
         NEW s, NEW t, Nests(cells, s), Len(t) = Len(s),
         \A d \in 1..Len(s) : t[d].entry_offset = s[d].entry_offset,
         Len(s) \in Nat
  PROVE  Nests(more, t)
<1>1. TablesOf(more) = TablesOf(cells)
  <2>1. \A c \in more \ cells : c.item.htype # "GOODBYE"
    BY DEF Inner, Tag
  <2> QED BY <2>1 DEF TablesOf
<1>2. \A b \in more : IsDirEntry(b) => b \in cells
  BY DEF Inner, IsDirEntry
<1>3. \A g \in TablesOf(more) : Spans(more, g)
  BY <1>1, SubdirMore DEF Nests
<1>4. Laminar(TablesOf(more))
  BY <1>1 DEF Nests
<1>5. EveryDirCloses(more, t)
  <2> SUFFICES ASSUME NEW b \in more, IsDirEntry(b)
               PROVE  \/ RootEntry(more, b)
                      \/ \E g \in TablesOf(more) : Begins(g) = b.at
                      \/ \E d \in 2..Len(t) : t[d].entry_offset = b.at
    BY DEF EveryDirCloses
  <2>1. \/ RootEntry(cells, b)
        \/ \E g \in TablesOf(cells) : Begins(g) = b.at
        \/ \E d \in 2..Len(s) : s[d].entry_offset = b.at
    BY <1>2 DEF Nests, EveryDirCloses
  <2>2. \A d \in 2..Len(s) : t[d].entry_offset = s[d].entry_offset
    OBVIOUS
  <2> QED BY <1>1, <2>1, <2>2, SubdirMore
<1>6. OpenDirs(more, t)
  <2>1. OpenDirs(cells, s)
    BY DEF Nests
  <2>2. Len(t) > 0 => t[1].entry_offset = 0
    BY <2>1 DEF OpenDirs
  <2>3. \A d \in 2..Len(t) : Subdir(more, t[d].entry_offset)
    <3>1. \A d \in 2..Len(s) : t[d].entry_offset = s[d].entry_offset
      OBVIOUS
    <3> QED BY <2>1, <3>1, SubdirMore DEF OpenDirs
  <2>4. \A d, e \in 1..Len(t) :
          d < e => t[d].entry_offset < t[e].entry_offset
    BY <2>1 DEF OpenDirs
  <2>5. \A d \in 1..Len(t) : \A g \in TablesOf(more) :
          g.at < t[d].entry_offset \/ t[d].entry_offset < Begins(g)
    BY <1>1, <2>1 DEF OpenDirs
  <2> QED BY <2>2, <2>3, <2>4, <2>5 DEF OpenDirs
<1> QED BY <1>3, <1>4, <1>5, <1>6 DEF Nests

LEMMA TopStepNests ==
  ASSUME IInv, IInv', state # <<>>, Nests(archive.cells, state),
         NEW t, SetTop(t), t.entry_offset = Top.entry_offset,
         archive.cells \subseteq archive'.cells,
         \A c \in archive'.cells \ archive.cells : Inner(c.item)
  PROVE  Nests(archive'.cells, state') /\ state' # <<>>
<1>1. /\ Depth \in Nat \ {0} /\ Depth' = Depth /\ Top' = t
      /\ t \in EncoderStates /\ state' # <<>>
  BY TopIsReplaced
<1>2. \A d \in 1..Depth - 1 : state'[d] = state[d]
  BY <1>1, TopIsSet
<1>3. /\ Len(state) = Depth /\ Len(state') = Depth
      /\ state[Depth] = Top /\ state'[Depth] = t
  BY <1>1 DEF Depth, Top
<1>4. \A d \in 1..Len(state) :
        state'[d].entry_offset = state[d].entry_offset
  BY <1>1, <1>2, <1>3
<1> QED BY <1>1, <1>3, <1>4, NestsMore

-----------------------------------------------------------------------------
(***************************************************************************)
(* The calls.                                                              *)
(***************************************************************************)
LEMMA MarkedMore ==
  ASSUME NEW p, Stream(p), Marked(p), NEW item, ItemOK(item)
  PROVE  Marked(Append1(p, item))
<1> DEFINE t == Append1(p, item)
           new == [at |-> p.len, item |-> item]
<1>1. /\ t.cells = p.cells \cup {new} /\ t.len = p.len + item.size
      /\ new.at = p.len /\ p.len \in Nat /\ item.size \in Nat
  BY AppendCells
<1> HIDE DEF t, new
<1>2. t.len >= HeaderSize /\ new.at >= HeaderSize
  BY <1>1 DEF Marked, HeaderSize
<1>3. \E c \in t.cells : c.at = 0 /\ c.item.htype = "PAYLOAD_START_MARKER"
  BY <1>1 DEF Marked
<1>4. \A c \in CellsOf(t, "PAYLOAD") : c.at >= HeaderSize
  BY <1>1, <1>2 DEF Marked, CellsOf
<1> QED BY <1>2, <1>3, <1>4 DEF Marked, t

LEMMA MarkedData ==
  ASSUME NEW w, IsWriter(w), Marked(w.out), NEW k \in Nat
  PROVE  Marked(SeqWriteData(w, k).out)
<1>1. ItemOK(Data(k)) /\ Stream(w.out)
  BY DEF ItemOK, ItemTypes, Data, IsWriter
<1> QED BY <1>1, MarkedMore, WriterOut DEF SeqWriteData

(* Nothing is written yet: what may come next is known.                     *)
LEMMA ArchiveGrown ==
  ASSUME IInv, state # <<>>, WellFormed
  PROVE  /\ Grown(ArchiveWriter, ArchiveWriter, Coming)
         /\ Grown(ArchiveWriter, ArchiveWriter, Rest)
<1>1. IsWriter(ArchiveWriter) /\ ArchiveWriter.out = archive
  BY TopOK DEF ArchiveWriter
<1>2. Grown(ArchiveWriter, ArchiveWriter, Coming)
  BY <1>1 DEF Grown, WellFormed
<1>3. Rest \subseteq Coming
  BY DEF Coming, More
<1> QED BY <1>2, <1>3, GrownFewer

LEMMA NameGrows ==
  ASSUME IInv, state # <<>>, WellFormed, NEW n \in Names
  PROVE  Grown(ArchiveWriter, SeqWrite(ArchiveWriter, Filename(n)),
               After("FILENAME"))
<1>1. /\ ItemOK(Filename(n)) /\ Tag(Filename(n)) = "FILENAME"
      /\ Inner(Filename(n)) /\ "FILENAME" \in Rest
  BY FilenameOK DEF Tag, Inner, Rest
<1>2. Grown(ArchiveWriter, ArchiveWriter, Rest)
  BY ArchiveGrown
<1> QED BY <1>1, <1>2, ItemGrows

LEMMA EntryTag ==
  ASSUME NEW meta \in Metas
  PROVE  /\ ItemOK(Entry(meta)) /\ Tag(Entry(meta)) = meta.kind
         /\ meta.kind \in After("FILENAME")
         /\ meta.kind \notin {"GOODBYE", "DATA"}
<1>1. meta \in Metadata
  BY EncoderAssumption
<1>2. meta.kind \in FileKinds /\ meta.attrs \in Nat
  BY <1>1 DEF Metadata
<1>3. ItemOK(Entry(meta))
  BY <1>2 DEF ItemOK, ItemTypes, Entry, HeaderSize, StatSize
<1> QED BY <1>2, <1>3, Afters DEF Tag, Entry, FileKinds

LEMMA StartGrows ==
  ASSUME IInv, state # <<>>, WellFormed, NEW n \in Names,
         NEW meta \in Metas, meta.kind # "dir"
  PROVE  Grown(ArchiveWriter, StartFile(n, meta), After(meta.kind))
<1>1. Inner(Entry(meta))
  BY EntryTag DEF Inner
<1> QED BY <1>1, NameGrows, EntryTag, ItemGrows DEF StartFile

LEMMA FileGrows ==
  ASSUME IInv, state # <<>>, WellFormed, NEW n \in Names,
         NEW meta \in Metas, meta.kind = "file", NEW size \in FileSizes
  PROVE  Grown(ArchiveWriter, FileArchive(n, meta, size),
               IF Split THEN Rest ELSE More)
<1> DEFINE item == IF Split THEN PayloadRef(Top.payload_write_position, size)
                            ELSE Payload(size)
           tag == IF Split THEN "PAYLOAD_REF" ELSE "PAYLOAD"
<1>1. ItemOK(item) /\ Tag(item) = tag /\ Inner(item)
  <2>1. Top.payload_write_position \in Nat /\ size \in Nat
    BY TopOK, EncoderAssumption
  <2> QED BY <2>1, SizedItemsOK DEF PayloadRef, Payload, Tag, Inner
<1>2. Grown(ArchiveWriter, StartFile(n, meta), After("file"))
  BY StartGrows
<1>3. /\ tag \in After("file") /\ After(tag) = IF Split THEN Rest ELSE More
      /\ tag # "DATA"
  BY Afters
<1> HIDE DEF item, tag
<1>4. Grown(ArchiveWriter, SeqWrite(StartFile(n, meta), item), After(tag))
  BY <1>1, <1>2, <1>3, ItemGrows
<1> QED BY <1>3, <1>4 DEF FileArchive, item

(* A step within the current directory.                                     *)
LEMMA StepIsWellFormed ==
  ASSUME IInv, IInv', state # <<>>, WellFormed,
         NEW t, SetTop(t), t.entry_offset = Top.entry_offset,
         NEW w, NEW next, Grown(ArchiveWriter, w, next), archive' = w.out,
         Coming' \subseteq next, phase' = phase,
         Split /\ Marked(payload) => Marked(payload')
  PROVE  WellFormed'
<1>1. /\ archive.cells \subseteq archive'.cells
      /\ \A c \in archive'.cells \ archive.cells : Inner(c.item)
  BY DEF Grown, ArchiveWriter
<1>2. Nests(archive'.cells, state') /\ state' # <<>>
  BY <1>1, TopStepNests DEF WellFormed
<1>3. phase = "open"
  BY DEF IInv, TypeOK
<1>4. Grammatical(archive', Coming') /\ IsFiniteSet(archive'.cells)
  BY GrownFewer DEF Grown
<1>5. StartsRight(archive'.cells)
  BY <1>1, <1>3 DEF WellFormed, StartsRight
<1> QED BY <1>2, <1>3, <1>4, <1>5 DEF WellFormed

LEMMA FileCallsAreWellFormed ==
  ASSUME IInv, IInv', WellFormed,
         NEW n \in Names, NEW meta \in MetasOf("file"), NEW size \in FileSizes,
         \/ CreateFile(n, meta, size)
         \/ \E got \in 0..size, returned \in BOOLEAN :
              AddFile(n, meta, size, got, returned)
  PROVE  WellFormed'
<1> DEFINE a == FileArchive(n, meta, size)
           p == FilePayload(size)
           next == IF Split THEN Rest ELSE More
<1>1. /\ state # <<>> /\ ~file.open /\ Top \in EncoderStates /\ DirOK(Top)
      /\ meta \in Metas /\ meta.kind = "file" /\ size \in Nat
      /\ Stream(payload) /\ PayloadWriter.out = payload
  <2>1. state # <<>> /\ ~file.open
    BY DEF CreateFile, AddFile, CanCreateFile, Check, Usable
  <2> QED BY <2>1, TopOK, EncoderAssumption
          DEF MetasOf, DirOK, IInv, TypeOK, PayloadWriter
<1>2. Grown(ArchiveWriter, a, next)
  BY <1>1, FileGrows
<1>3. Extends(ArchiveWriter, a) /\ Extends(PayloadWriter, p)
  BY <1>1, FileWritersOK
<1>4. Split /\ Marked(payload) => Marked(p.out)
  <2>1. ItemOK(Payload(size))
    BY <1>1, SizedItemsOK
  <2> QED BY <1>1, <2>1, MarkedMore, WriterOut DEF FilePayload
<1> HIDE DEF a, p
<1>5. CASE CreateFile(n, meta, size)
  <2> DEFINE t == PayloadAt(At(Top, a.position), p.position)
  <2>1. /\ archive' = a.out /\ payload' = p.out /\ SetTop(t)
        /\ phase' = phase
    BY <1>5 DEF CreateFile, a, p
  <2>2. Coming' \subseteq next
    BY DEF Coming, More
  <2>3. t.entry_offset = Top.entry_offset
    BY <1>1, MovedFields
  <2> HIDE DEF t
  <2> QED BY <1>1, <1>2, <1>4, <2>1, <2>2, <2>3, StepIsWellFormed
<1>6. ASSUME NEW got \in 0..size, NEW returned \in BOOLEAN,
             AddFile(n, meta, size, got, returned)
      PROVE  WellFormed'
  <2> DEFINE a2 == IF Split THEN a ELSE SeqWriteData(a, got)
             p2 == IF Split THEN SeqWriteData(p, got) ELSE p
             written == PayloadAt(At(Top, a2.position), p2.position)
             t == DropInto(written, FileItem(n, meta, size), size - got)
  <2>1. /\ archive' = a2.out /\ payload' = p2.out /\ SetTop(t)
        /\ phase' = phase /\ file' = file
    BY <1>6 DEF AddFile, a, p
  <2>2. Coming' \subseteq next /\ got \in Nat
    BY <1>1, <2>1 DEF Coming, More
  <2>3. Grown(ArchiveWriter, a2, next)
    BY <1>2, <2>2, DataGrows
  <2>4. Split /\ Marked(payload) => Marked(p2.out)
    BY <1>3, <1>4, <2>2, MarkedData DEF Extends
  <2>5. Extends(ArchiveWriter, a2) /\ Extends(PayloadWriter, p2)
    <3>1. /\ Extends(ArchiveWriter, SeqWriteData(a, got))
          /\ Extends(PayloadWriter, SeqWriteData(p, got))
      <4>1. IsWriter(a) /\ IsWriter(p)
        BY <1>3 DEF Extends
      <4>2. IsWriter(ArchiveWriter) /\ IsWriter(PayloadWriter)
        BY <1>1, TopOK
      <4> QED BY <1>3, <2>2, <4>1, <4>2, SeqWriteDataExtends,
                 ExtendsTransitive
    <3> QED BY <1>3, <3>1
  <2> HIDE DEF a2, p2
  <2>6. DirOK(written) /\ written.entry_offset = Top.entry_offset
    BY <1>1, <2>5, MovedOnOK, MovedFields
  <2> HIDE DEF written
  <2>7. t.entry_offset = Top.entry_offset
    BY <2>6, DropIntoFields
  <2> HIDE DEF t
  <2> QED BY <1>1, <2>1, <2>2, <2>3, <2>4, <2>7, StepIsWellFormed
<1> QED BY <1>5, <1>6

(* The archive is left alone, or more of the file's contents goes to it.    *)
LEMMA WritesAreWellFormed ==
  ASSUME ~(Split /\ TokioIo), OInv, IInv', faults = {}, WellFormed,
         \/ \E k \in WriteSizes : Write(k) \/ PollWrite(k)
         \/ DropFile \/ Advance
  PROVE  WellFormed'
<1>1. /\ state # <<>> /\ IInv /\ DirOK(Top) /\ Top \in EncoderStates
      /\ IsWriter(PayloadWriter) /\ PayloadWriter.out = payload
      /\ Stream(payload) /\ ArchiveWriter.out = archive
  <2>1. state # <<>> /\ IInv
    BY DEF Write, PollWrite, DropFile, Advance, OInv, IInv, TypeOK, Usable
  <2> QED BY <2>1, TopOK DEF DirOK, PayloadWriter, ArchiveWriter, IInv, TypeOK
<1>2. Grown(ArchiveWriter, ArchiveWriter, Coming)
  BY <1>1, ArchiveGrown
<1>3. /\ \A wp : At(Top, wp).entry_offset = Top.entry_offset
      /\ \A pp : PayloadAt(Top, pp).entry_offset = Top.entry_offset
  BY <1>1 DEF At, PayloadAt, EncoderStates
<1>4. ASSUME NEW k \in WriteSizes, Write(k) \/ PollWrite(k)
      PROVE  WellFormed'
  <2>1. k \in Nat /\ file.open /\ file'.open /\ phase' = phase
    BY <1>1, <1>4, EncoderAssumption DEF Write, PollWrite, IInv, TypeOK
  <2>2. CASE ~Split
    <3> DEFINE w == SeqWriteData(ArchiveWriter, k)
    <3>1. PutToArchive(k)
      BY <1>4, <2>2 DEF Write, PollWrite, PutContent
    <3>2. Coming = More /\ Coming' = More
      BY <2>1, <2>2 DEF Coming
    <3>3. Grown(ArchiveWriter, w, More)
      BY <1>2, <2>1, <3>2, DataGrows
    <3>4. archive' = w.out /\ SetTop(At(Top, w.position))
      BY <3>1 DEF PutToArchive
    <3> HIDE DEF w
    <3> QED BY <1>1, <1>3, <2>1, <2>2, <3>2, <3>3, <3>4, StepIsWellFormed
  <2>3. CASE Split
    <3> DEFINE w == SeqWriteData(PayloadWriter, k)
    <3>1. /\ archive' = archive /\ payload' = w.out
          /\ SetTop(PayloadAt(Top, w.position))
      BY <1>4, <2>3 DEF Write, PollWrite, PutContent, PutToPayload
    <3>2. Marked(payload) => Marked(payload')
      BY <1>1, <2>1, <3>1, MarkedData
    <3>3. Coming' \subseteq Coming
      BY <2>1 DEF Coming
    <3> HIDE DEF w
    <3> QED BY <1>1, <1>2, <1>3, <2>1, <3>1, <3>2, <3>3, StepIsWellFormed
  <2> QED BY <2>2, <2>3
<1>5. CASE DropFile
  <2> DEFINE t == DropInto(Top, file.item, file.remaining_size)
  <2>1. /\ archive' = archive /\ payload' = payload /\ phase' = phase
        /\ SetTop(t) /\ ~file'.open
    BY <1>5 DEF DropFile, NoFile
  <2>2. t.entry_offset = Top.entry_offset
    BY <1>1, DropIntoFields
  <2>3. Coming' \subseteq Coming
    BY <2>1 DEF Coming, More
  <2> HIDE DEF t
  <2> QED BY <1>1, <1>2, <2>1, <2>2, <2>3, StepIsWellFormed
<1>6. CASE Advance
  <2> DEFINE w1 == SeqWrite(PayloadWriter, Payload(promised[1].content))
             w == SeqWriteData(w1, promised[1].content)
  <2>1. /\ archive' = archive /\ payload' = w.out /\ phase' = phase
        /\ SetTop(PayloadAt(Top, w.position)) /\ file' = file
    BY <1>6 DEF Advance
  <2>2. promised[1].content \in FileSizes /\ promised[1].content \in Nat
    <3>1. promised # <<>> /\ promised \in Seq(PayloadRefs)
      BY <1>1, <1>6 DEF Advance, IInv, TypeOK
    <3>2. promised[1] \in PayloadRefs
      BY <3>1
    <3> QED BY <3>2, EncoderAssumption DEF PayloadRefs
  <2>3. IsWriter(w1) /\ (Marked(payload) => Marked(w1.out))
    <3>1. ItemOK(Payload(promised[1].content))
      BY <2>2, SizedItemsOK
    <3> QED BY <1>1, <3>1, SeqWriteExtends, MarkedMore, WriterOut DEF Extends
  <2> HIDE DEF w1
  <2>4. Marked(payload) => Marked(payload')
    BY <2>1, <2>2, <2>3, MarkedData
  <2>5. Coming' = Coming
    BY <2>1 DEF Coming
  <2> HIDE DEF w
  <2> QED BY <1>1, <1>2, <1>3, <2>1, <2>4, <2>5, StepIsWellFormed
<1> QED BY <1>4, <1>5, <1>6

(* The calls that add an entry without contents of its own.                 *)
LEMMA EntryIsWellFormed ==
  ASSUME IInv, IInv', WellFormed, Usable, NEW n \in Names, NEW full,
         EntryAdded(n, full), Grown(ArchiveWriter, full, Rest),
         UNCHANGED <<payload, file, phase>>
  PROVE  WellFormed'
<1> DEFINE item == [hash   |-> HashOf[n],
                    offset |-> Top.write_position,
                    size   |-> full.position - Top.write_position]
           t == Listing(At(Top, full.position), item)
<1>1. archive' = full.out /\ SetTop(t)
  BY DEF EntryAdded
<1>2. /\ Top \in EncoderStates /\ DirOK(Top) /\ state # <<>>
      /\ full.position \in Nat
  BY TopOK DEF DirOK, Usable, Grown, IsWriter
<1>3. t.entry_offset = Top.entry_offset
  <2>1. At(Top, full.position) \in EncoderStates
    BY <1>2 DEF At, EncoderStates
  <2> HIDE DEF item
  <2> QED BY <1>2, <2>1, ListingFields, AtFields
<1>4. Coming' \subseteq Rest
  BY DEF Coming, Usable
<1> HIDE DEF t, item
<1> QED BY <1>1, <1>2, <1>3, <1>4, StepIsWellFormed

LEMMA EntriesAreWellFormed ==
  ASSUME OInv, IInv', faults = {}, faults' = {}, WellFormed, NEW n \in Names,
         \/ \E meta \in Metas :
              AddDevice(n, meta) \/ AddFifo(n, meta) \/ AddSocket(n, meta)
         \/ \E meta \in MetasOf("symlink"), len \in TargetLens :
              AddSymlink(n, meta, len)
         \/ \E len \in TargetLens, target \in links :
              AddHardlink(n, len, target)
         \/ \E meta \in MetasOf("file"),
               ref \in KnownPayloads \cup NextPayloads :
              AddPayloadRef(n, meta, ref)
  PROVE  WellFormed'
<1>1. IInv /\ \A full : ~CallFails(full)
  BY FaultsStay DEF CallFails, OInv
<1>2. ASSUME NEW full, AddFileEntry(n, full),
             Usable => Grown(ArchiveWriter, full, Rest)
      PROVE  WellFormed'
  BY <1>1, <1>2, EntryIsWellFormed DEF AddFileEntry, Check
<1>3. ASSUME NEW meta \in Metas, Usable, NEW item, ItemOK(item),
             meta.kind # "dir", Tag(item) # "DATA",
             Tag(item) \in After(meta.kind), Inner(item),
             After(Tag(item)) = Rest
      PROVE  Grown(ArchiveWriter, SeqWrite(StartFile(n, meta), item), Rest)
  <2>1. Grown(ArchiveWriter, StartFile(n, meta), After(meta.kind))
    BY <1>1, <1>3, StartGrows DEF Usable
  <2> QED BY <1>3, <2>1, ItemGrows
<1>4. ASSUME NEW meta \in Metas,
             AddDevice(n, meta) \/ AddFifo(n, meta) \/ AddSocket(n, meta)
      PROVE  WellFormed'
  <2>1. CASE AddDevice(n, meta)
    <3>1. /\ ItemOK(Device) /\ Tag(Device) = "DEVICE" /\ Inner(Device)
      BY FixedItemsOK DEF Device, Tag, Inner
    <3>2. /\ meta.kind = "device" /\ Tag(Device) \in After(meta.kind)
          /\ After(Tag(Device)) = Rest
      BY <2>1, <3>1, Afters DEF AddDevice
    <3> QED BY <1>2, <1>3, <2>1, <3>1, <3>2 DEF AddDevice
  <2>2. CASE AddFifo(n, meta) \/ AddSocket(n, meta)
    <3>1. /\ AddFileEntry(n, StartFile(n, meta)) /\ After(meta.kind) = Rest
          /\ meta.kind # "dir"
      BY <2>2, Afters DEF AddFifo, AddSocket
    <3>2. Usable => Grown(ArchiveWriter, StartFile(n, meta), Rest)
      BY <1>1, <3>1, StartGrows DEF Usable
    <3> QED BY <1>2, <3>1, <3>2
  <2> QED BY <1>4, <2>1, <2>2
<1>5. ASSUME NEW meta \in MetasOf("symlink"), NEW len \in TargetLens,
             AddSymlink(n, meta, len)
      PROVE  WellFormed'
  <2>1. /\ ItemOK(Symlink(len)) /\ Tag(Symlink(len)) = "SYMLINK"
        /\ Inner(Symlink(len))
    BY EncoderAssumption, SizedItemsOK DEF Symlink, Tag, Inner
  <2>2. /\ meta \in Metas /\ meta.kind = "symlink"
        /\ Tag(Symlink(len)) \in After(meta.kind)
        /\ After(Tag(Symlink(len))) = Rest
    BY <2>1, Afters DEF MetasOf
  <2> QED BY <1>2, <1>3, <1>5, <2>1, <2>2 DEF AddSymlink
<1>6. ASSUME NEW len \in TargetLens, NEW target \in links,
             AddHardlink(n, len, target)
      PROVE  WellFormed'
  <2> DEFINE item == Hardlink(Top.write_position - target, target, len)
             named == SeqWrite(ArchiveWriter, Filename(n))
  <2>1. ItemOK(item) /\ Tag(item) = "HARDLINK" /\ Inner(item)
    BY EncoderAssumption, SizedItemsOK DEF Hardlink, Tag, Inner
  <2>2. Tag(item) \in After("FILENAME") /\ After(Tag(item)) = Rest
    BY <2>1, Afters
  <2>3. AddFileEntry(n, SeqWrite(named, item))
    BY <1>6 DEF AddHardlink
  <2>4. Usable => Grown(ArchiveWriter, named, After("FILENAME"))
    BY <1>1, NameGrows DEF Usable
  <2> HIDE DEF item, named
  <2>5. Usable => Grown(ArchiveWriter, SeqWrite(named, item), Rest)
    BY <2>1, <2>2, <2>4, ItemGrows
  <2> QED BY <1>2, <2>3, <2>5
<1>7. ASSUME NEW meta \in MetasOf("file"),
             NEW ref \in KnownPayloads \cup NextPayloads,
             AddPayloadRef(n, meta, ref)
      PROVE  WellFormed'
  <2> DEFINE item == PayloadRef(ref.offset, ref.content)
             full == SeqWrite(StartFile(n, meta), item)
  <2>1. /\ EntryAdded(n, full) /\ Usable /\ Split
        /\ UNCHANGED <<payload, file, phase>>
    BY <1>1, <1>7 DEF AddPayloadRef, Check
  <2>2. ItemOK(item) /\ Tag(item) = "PAYLOAD_REF" /\ Inner(item)
    BY <1>7, RefIsNext DEF PayloadRef, Tag, Inner
  <2>3. /\ meta \in Metas /\ meta.kind = "file"
        /\ Tag(item) \in After(meta.kind) /\ After(Tag(item)) = Rest
    BY <2>1, <2>2, Afters DEF MetasOf
  <2> HIDE DEF item
  <2>4. Grown(ArchiveWriter, full, Rest)
    BY <1>3, <2>1, <2>2, <2>3
  <2> HIDE DEF full
  <2> QED BY <1>1, <2>1, <2>4, EntryIsWellFormed
<1> QED BY <1>4, <1>5, <1>6, <1>7

-----------------------------------------------------------------------------
(***************************************************************************)
(* Directories are opened and closed.                                      *)
(***************************************************************************)
LEMMA NestsPushed ==
  ASSUME NEW cells, NEW more, NEW x, NEW b, more = cells \cup {x, b},
         Inner(x.item), IsDirEntry(b), Subdir(more, b.at),
         NEW s, NEW t, Nests(cells, s), Len(s) \in Nat \ {0},
         Len(t) = Len(s) + 1,
         \A d \in 1..Len(s) : t[d].entry_offset = s[d].entry_offset,
         t[Len(s) + 1].entry_offset = b.at, b.at \in Nat,
         \A g \in TablesOf(cells) : g.at < b.at,
         \A d \in 1..Len(s) : s[d].entry_offset < b.at
  PROVE  Nests(more, t)
<1>1. TablesOf(more) = TablesOf(cells)
  <2>1. x.item.htype # "GOODBYE" /\ b.item.htype # "GOODBYE"
    BY DEF Inner, IsDirEntry, Tag
  <2> QED BY <2>1 DEF TablesOf
<1>2. cells \subseteq more
  OBVIOUS
<1>3. \A g \in TablesOf(more) : Spans(more, g)
  BY <1>1, <1>2, SubdirMore DEF Nests
<1>4. Laminar(TablesOf(more))
  BY <1>1 DEF Nests
<1>5. EveryDirCloses(more, t)
  <2> SUFFICES ASSUME NEW c \in more, IsDirEntry(c)
               PROVE  \/ RootEntry(more, c)
                      \/ \E g \in TablesOf(more) : Begins(g) = c.at
                      \/ \E d \in 2..Len(t) : t[d].entry_offset = c.at
    BY DEF EveryDirCloses
  <2>1. CASE c = b
    <3>1. Len(s) + 1 \in 2..Len(t)
      OBVIOUS
    <3> QED BY <2>1, <3>1
  <2>2. CASE c # b
    <3>1. c \in cells
      BY <2>2 DEF Inner, IsDirEntry
    <3>2. \/ RootEntry(cells, c)
          \/ \E g \in TablesOf(cells) : Begins(g) = c.at
          \/ \E d \in 2..Len(s) : s[d].entry_offset = c.at
      BY <3>1 DEF Nests, EveryDirCloses
    <3>3. ASSUME NEW d \in 2..Len(s)
          PROVE  d \in 2..Len(t) /\ t[d].entry_offset = s[d].entry_offset
      OBVIOUS
    <3> QED BY <1>1, <1>2, <3>2, <3>3, SubdirMore
  <2> QED BY <2>1, <2>2
<1>6. OpenDirs(more, t)
  <2>1. OpenDirs(cells, s)
    BY DEF Nests
  <2>2. t[1].entry_offset = 0
    BY <2>1 DEF OpenDirs
  <2>3. ASSUME NEW d \in 2..Len(t) PROVE Subdir(more, t[d].entry_offset)
    <3>1. CASE d \in 2..Len(s)
      <4>1. d \in 1..Len(s)
        BY <3>1
      <4> QED BY <1>2, <2>1, <3>1, <4>1, SubdirMore DEF OpenDirs
    <3>2. CASE d = Len(s) + 1
      BY <3>2
    <3> QED BY <3>1, <3>2
  <2>4. ASSUME NEW d \in 1..Len(t), NEW e \in 1..Len(t), d < e
        PROVE  t[d].entry_offset < t[e].entry_offset
    <3>1. CASE e \in 1..Len(s)
      BY <2>1, <2>4, <3>1 DEF OpenDirs
    <3>2. CASE e = Len(s) + 1
      BY <2>4, <3>2
    <3> QED BY <3>1, <3>2
  <2>5. ASSUME NEW d \in 1..Len(t), NEW g \in TablesOf(more)
        PROVE  g.at < t[d].entry_offset \/ t[d].entry_offset < Begins(g)
    <3>1. CASE d \in 1..Len(s)
      BY <1>1, <2>1, <3>1 DEF OpenDirs
    <3>2. CASE d = Len(s) + 1
      BY <1>1, <3>2
    <3> QED BY <3>1, <3>2
  <2> QED BY <2>2, <2>3, <2>4, <2>5 DEF OpenDirs
<1> QED BY <1>3, <1>4, <1>5, <1>6 DEF Nests

LEMMA NestsPopped ==
  ASSUME NEW cells, NEW more, NEW g, more = cells \cup {g},
         g.item.htype = "GOODBYE", g.at \in Nat,
         g.item.tail.offset \in Nat, g.item.tail.offset <= g.at,
         NEW s, NEW t, Nests(cells, s), Len(s) \in Nat \ {0},
         Begins(g) = s[Len(s)].entry_offset,
         Len(t) = Len(s) - 1,
         \A d \in 1..Len(t) : t[d].entry_offset = s[d].entry_offset,
         \A h \in TablesOf(cells) : h.at \in Nat /\ h.at < g.at
  PROVE  /\ Nests(more, t)
         /\ t = <<>> => Begins(g) = 0
<1>1. TablesOf(more) = TablesOf(cells) \cup {g}
  BY DEF TablesOf
<1>2. cells \subseteq more /\ OpenDirs(cells, s)
  BY DEF Nests
<1>3. Len(s) = 1 => Begins(g) = 0
  BY <1>2 DEF OpenDirs
<1>4. Len(s) # 1 => Subdir(more, Begins(g))
  <2> SUFFICES ASSUME Len(s) # 1 PROVE Subdir(more, Begins(g))
    OBVIOUS
  <2>1. Len(s) \in 2..Len(s)
    OBVIOUS
  <2>2. Subdir(cells, s[Len(s)].entry_offset)
    BY <1>2, <2>1 DEF OpenDirs
  <2> QED BY <1>2, <2>2, SubdirMore
<1>5. \A h \in TablesOf(more) : Spans(more, h)
  <2>1. Spans(more, g)
    BY <1>3, <1>4 DEF Spans
  <2> QED BY <1>1, <1>2, <2>1, SubdirMore DEF Nests
<1>6. \A h \in TablesOf(cells) :
        h.at < Begins(g) \/ Begins(g) < Begins(h)
  BY <1>2 DEF OpenDirs
<1>7. Laminar(TablesOf(more))
  <2> SUFFICES ASSUME NEW h \in TablesOf(more), NEW k \in TablesOf(more),
                      h.at < k.at
               PROVE  Begins(k) < Begins(h) \/ h.at < Begins(k)
    BY DEF Laminar
  <2>1. CASE k = g
    <3>1. h # g
      BY <2>1
    <3>2. h \in TablesOf(cells)
      BY <1>1, <3>1
    <3> QED BY <1>6, <2>1, <3>2
  <2>2. CASE k # g
    <3>1. k \in TablesOf(cells)
      BY <1>1, <2>2
    <3>2. k.at \in Nat /\ k.at < g.at
      BY <3>1
    <3>3. h # g
      BY <3>2
    <3>4. h \in TablesOf(cells)
      BY <1>1, <3>3
    <3> QED BY <3>1, <3>4 DEF Nests, Laminar
  <2> QED BY <2>1, <2>2
<1>8. EveryDirCloses(more, t)
  <2> SUFFICES ASSUME NEW c \in more, IsDirEntry(c)
               PROVE  \/ RootEntry(more, c)
                      \/ \E h \in TablesOf(more) : Begins(h) = c.at
                      \/ \E d \in 2..Len(t) : t[d].entry_offset = c.at
    BY DEF EveryDirCloses
  <2>1. c \in cells
    BY DEF IsDirEntry, Tag
  <2>2. \/ RootEntry(cells, c)
        \/ \E h \in TablesOf(cells) : Begins(h) = c.at
        \/ \E d \in 2..Len(s) : s[d].entry_offset = c.at
    BY <2>1 DEF Nests, EveryDirCloses
  <2>3. ASSUME NEW d \in 2..Len(s), s[d].entry_offset = c.at
        PROVE  \/ Begins(g) = c.at
               \/ d \in 2..Len(t) /\ t[d].entry_offset = c.at
    BY <2>3
  <2> QED BY <1>1, <1>2, <2>2, <2>3, SubdirMore
<1>9. OpenDirs(more, t)
  <2>1. Len(t) > 0 => t[1].entry_offset = 0
    BY <1>2 DEF OpenDirs
  <2>2. ASSUME NEW d \in 2..Len(t) PROVE Subdir(more, t[d].entry_offset)
    <3>1. d \in 1..Len(t) /\ d \in 2..Len(s)
      OBVIOUS
    <3> QED BY <1>2, <3>1, SubdirMore DEF OpenDirs
  <2>3. ASSUME NEW d \in 1..Len(t), NEW e \in 1..Len(t), d < e
        PROVE  t[d].entry_offset < t[e].entry_offset
    <3>1. d \in 1..Len(s) /\ e \in 1..Len(s)
      OBVIOUS
    <3> QED BY <1>2, <2>3, <3>1 DEF OpenDirs
  <2>4. ASSUME NEW d \in 1..Len(t), NEW h \in TablesOf(more)
        PROVE  h.at < t[d].entry_offset \/ t[d].entry_offset < Begins(h)
    <3>1. d \in 1..Len(s) /\ Len(s) \in 1..Len(s) /\ d < Len(s)
      OBVIOUS
    <3>2. CASE h = g
      BY <1>2, <3>1, <3>2 DEF OpenDirs
    <3>3. CASE h \in TablesOf(cells)
      BY <1>2, <3>1, <3>3 DEF OpenDirs
    <3> QED BY <1>1, <3>2, <3>3
  <2> QED BY <2>1, <2>2, <2>3, <2>4 DEF OpenDirs
<1>10. t = <<>> => Begins(g) = 0
  <2> SUFFICES ASSUME t = <<>> PROVE Begins(g) = 0
    OBVIOUS
  <2>1. Len(t) = 0
    OBVIOUS
  <2>2. Len(s) = 1
    BY <2>1
  <2> QED BY <1>3, <2>2
<1> QED BY <1>5, <1>7, <1>8, <1>9, <1>10 DEF Nests

LEMMA CreateDirectoryIsWellFormed ==
  ASSUME OInv, faults = {}, faults' = {}, WellFormed,
         NEW n \in Names, NEW meta \in Metas, CreateDirectory(n, meta)
  PROVE  WellFormed'
<1> DEFINE named == SeqWrite(ArchiveWriter, Filename(n))
           full == SeqWrite(named, Entry(meta))
           x == [at |-> archive.len, item |-> Filename(n)]
           b == [at |-> named.out.len, item |-> Entry(meta)]
<1>1. /\ IInv /\ ~CallFails(StartFile(n, meta)) /\ state # <<>>
      /\ meta.kind = "dir" /\ ~file'.open /\ phase = "open"
      /\ UNCHANGED <<payload, phase>>
  BY FaultsStay
     DEF CallFails, OInv, CreateDirectory, Check, Usable
<1>2. /\ Depth \in Nat \ {0} /\ Depth' = Depth + 1 /\ archive' = full.out
      /\ \A d \in 1..Depth - 1 : state'[d] = state[d]
      /\ state'[Depth].entry_offset = Top.entry_offset
      /\ state'[Depth + 1].entry_offset = named.position
      /\ state' # <<>>
  BY <1>1, DirectoryOpens
<1>3. /\ Grown(ArchiveWriter, named, After("FILENAME"))
      /\ ItemOK(Entry(meta)) /\ Tag(Entry(meta)) = "dir"
      /\ "dir" \in After("FILENAME") /\ After("dir") = Rest
      /\ ItemOK(Filename(n)) /\ Filename(n).htype = "FILENAME"
  BY <1>1, NameGrows, EntryTag, FilenameOK, Afters
<1>4. /\ ArchiveWriter.out = archive /\ archive.len \in Nat
      /\ ArchiveWriter.position = archive.len
      /\ Stream(archive) /\ DirOK(Top) /\ Top.write_position = archive.len
  BY <1>1, TopLeads, TopOK DEF ArchiveWriter, IInv, TypeOK
<1>5. /\ named.out.cells = archive.cells \cup {x}
      /\ named.out.len = archive.len + Filename(n).size
      /\ named.position = named.out.len
      /\ named.out = Append1(archive, Filename(n))
  BY <1>4, SeqWriteCells, WriterOut
<1>6. /\ Filename(n).size \in Nat \ {0} /\ named.out.len \in Nat
      /\ archive.len < named.out.len
  <2>1. Filename(n).size \in Nat \ {0}
    BY NamesAssumption DEF Filename, HeaderSize
  <2> HIDE DEF named
  <2> QED BY <1>4, <1>5, <2>1
<1>7. archive' = Append1(named.out, Entry(meta))
      /\ archive'.cells = named.out.cells \cup {b}
  BY <1>2, SeqWriteCells, WriterOut
<1>8. /\ x.item = Filename(n) /\ x.at = archive.len
      /\ b.item = Entry(meta) /\ b.at = named.out.len
  OBVIOUS
<1> HIDE DEF named, full, x, b
<1>9. Grammatical(archive', Rest) /\ IsFiniteSet(archive'.cells)
  <2>1. IsWriter(named) /\ Stream(named.out)
        /\ Grammatical(named.out, After("FILENAME"))
        /\ IsFiniteSet(named.out.cells)
    BY <1>3 DEF Grown, IsWriter
  <2>2. Grammatical(archive', Rest)
    BY <1>3, <1>7, <2>1, AppendIsGrammatical
  <2> QED BY <1>7, <2>1, <2>2, FS_AddElement
<1>10. Nests(archive'.cells, state')
  <2>1. /\ archive'.cells = archive.cells \cup {x, b}
        /\ Inner(x.item) /\ IsDirEntry(b)
    BY <1>3, <1>5, <1>7, <1>8 DEF Inner, Tag, IsDirEntry
  <2>2. Subdir(archive'.cells, b.at)
    <3>1. x.item.htype = "FILENAME" /\ EndOf(x) = b.at
      BY <1>3, <1>5, <1>8 DEF EndOf
    <3> QED BY <2>1, <3>1 DEF Subdir
  <2>3. Nests(archive.cells, state)
    BY DEF WellFormed
  <2>4. Len(state) = Depth /\ Len(state') = Depth + 1 /\ state[Depth] = Top
    BY <1>2 DEF Depth, Top
  <2>5. \A d \in 1..Depth : state'[d].entry_offset = state[d].entry_offset
    BY <1>2, <2>4
  <2>6. state'[Depth + 1].entry_offset = b.at /\ b.at \in Nat
    BY <1>2, <1>5, <1>6, <1>8
  <2>7. \A g \in TablesOf(archive.cells) : g.at < b.at
    <3> SUFFICES ASSUME NEW g \in TablesOf(archive.cells) PROVE g.at < b.at
      OBVIOUS
    <3>1. g.at \in Nat /\ g.item.size \in Nat /\ g.at + g.item.size <= archive.len
      BY <1>4 DEF TablesOf, Stream, ItemOK
    <3> QED BY <1>4, <1>6, <1>8, <3>1
  <2>8. \A d \in 1..Depth : state[d].entry_offset < b.at
    <3> SUFFICES ASSUME NEW d \in 1..Depth
                 PROVE  state[d].entry_offset < b.at
      OBVIOUS
    <3>1. Top.entry_offset <= archive.len /\ Top.entry_offset \in Nat
      BY <1>4 DEF DirOK, BehindPosition, EncoderStates
    <3>2. state \in Seq(EncoderStates) /\ state[d].entry_offset \in Nat
      <4>1. state \in Seq(EncoderStates)
        BY <1>1 DEF IInv, TypeOK
      <4>2. state[d] \in EncoderStates
        BY <2>4, <4>1
      <4> QED BY <4>1, <4>2 DEF EncoderStates
    <3>3. d < Depth => state[d].entry_offset < Top.entry_offset
      <4>1. OpenDirs(archive.cells, state) /\ Depth \in 1..Depth
        BY <1>2, <2>3 DEF Nests
      <4> QED BY <2>4, <4>1 DEF OpenDirs
    <3>4. d = Depth => state[d].entry_offset = Top.entry_offset
      BY <2>4
    <3> QED BY <1>2, <1>4, <1>6, <1>8, <3>1, <3>2, <3>3, <3>4
  <2> QED BY <1>2, <2>1, <2>2, <2>3, <2>4, <2>5, <2>6, <2>7, <2>8, NestsPushed
<1>11. StartsRight(archive'.cells)
  BY <1>1, <1>5, <1>7 DEF WellFormed, StartsRight
<1>12. Coming' = Rest
  BY <1>1 DEF Coming
<1> QED BY <1>1, <1>2, <1>9, <1>10, <1>11, <1>12 DEF WellFormed

LEMMA FinishIsWellFormed ==
  ASSUME OInv, faults = {}, WellFormed, Finish
  PROVE  WellFormed'
<1>1. /\ IInv /\ state # <<>> /\ ~file.open /\ ~file'.open
      /\ phase = "open" /\ UNCHANGED <<payload, phase>>
  BY DEF OInv, Finish, Usable
<1>2. PICK p : /\ archive' = SeqWrite(ArchiveWriter, GoodbyeTable(Top, p)).out
               /\ ItemOK(GoodbyeTable(Top, p))
               /\ Depth = 1 => state' = <<>>
               /\ Depth # 1 =>
                    /\ Depth - 1 \in Nat \ {0}
                    /\ Depth' = Depth - 1 /\ state' # <<>>
                    /\ \A d \in 1..Depth - 2 : state'[d] = state[d]
                    /\ state'[Depth - 1] = Top'
                    /\ Top'.entry_offset = state[Depth - 1].entry_offset
  BY <1>1, DirectoryCloses
<1> DEFINE item == GoodbyeTable(Top, p)
           g == [at |-> archive.len, item |-> item]
<1>3. /\ ArchiveWriter.out = archive /\ archive.len \in Nat
      /\ Stream(archive) /\ Top.write_position = archive.len
      /\ Depth \in Nat \ {0}
      /\ Top.entry_offset \in Nat /\ Top.entry_offset <= archive.len
  <2>1. /\ ArchiveWriter.out = archive /\ archive.len \in Nat
        /\ Stream(archive) /\ DirOK(Top) /\ Top.write_position = archive.len
        /\ Depth \in Nat \ {0}
    BY <1>1, TopLeads, TopOK DEF ArchiveWriter, IInv, TypeOK
  <2> QED BY <2>1 DEF DirOK, BehindPosition, EncoderStates
<1>4. /\ item.htype = "GOODBYE"
      /\ item.tail.offset = archive.len - Top.entry_offset
  BY <1>3 DEF GoodbyeTable, Goodbye, GoodbyeTail
<1> HIDE DEF item
<1>5. Tag(item) = "GOODBYE" /\ ItemOK(item) /\ "GOODBYE" \in Rest
      /\ After("GOODBYE") = Rest
  BY <1>2, <1>4, Afters DEF Tag, Rest, item
<1>6. archive' = Append1(archive, item)
      /\ archive'.cells = archive.cells \cup {g}
      /\ g.at = archive.len /\ g.item = item
  BY <1>2, <1>3, SeqWriteCells, WriterOut DEF item
<1> HIDE DEF g
<1>7. Grammatical(archive', Rest) /\ IsFiniteSet(archive'.cells)
  <2>1. Grammatical(archive, Rest) /\ IsFiniteSet(archive.cells)
    BY <1>1 DEF WellFormed, Coming
  <2> QED BY <1>3, <1>5, <1>6, <2>1, AppendIsGrammatical, FS_AddElement
<1>8. /\ Nests(archive'.cells, state')
      /\ state' = <<>> => RootIsClosed(archive')
  <2>1. Begins(g) = Top.entry_offset /\ g.item.tail.offset \in Nat
        /\ g.item.tail.offset <= g.at
    BY <1>3, <1>4, <1>6 DEF Begins
  <2>2. Len(state) = Depth /\ state[Depth] = Top
    BY DEF Depth, Top
  <2>3. Len(state') = Depth - 1
    <3>1. Depth = 1 => Len(state') = 0
      BY <1>2
    <3>2. Len(state') = Depth'
      BY DEF Depth
    <3> QED BY <1>2, <1>3, <3>1, <3>2
  <2>4. \A d \in 1..Len(state') : state'[d].entry_offset = state[d].entry_offset
    <3> SUFFICES ASSUME NEW d \in 1..Len(state')
                 PROVE  state'[d].entry_offset = state[d].entry_offset
      OBVIOUS
    <3>1. d \in 1..Depth - 1 /\ Depth # 1
      BY <1>3, <2>3
    <3>2. CASE d = Depth - 1
      BY <1>2, <3>1, <3>2
    <3>3. CASE d \in 1..Depth - 2
      BY <1>2, <3>1, <3>3
    <3> QED BY <1>3, <3>1, <3>2, <3>3
  <2>5. \A h \in TablesOf(archive.cells) : h.at \in Nat /\ h.at < g.at
    <3> SUFFICES ASSUME NEW h \in TablesOf(archive.cells)
                 PROVE  h.at \in Nat /\ h.at < g.at
      OBVIOUS
    <3>1. /\ h.at \in Nat /\ h.item.size \in Nat
          /\ h.at + h.item.size <= archive.len /\ h.item.size >= 16
      BY <1>3 DEF TablesOf, Stream, ItemOK, HeaderSize
    <3> QED BY <1>3, <1>6, <3>1
  <2>6. Nests(archive.cells, state)
    BY DEF WellFormed
  <2>7. /\ Nests(archive'.cells, state')
        /\ state' = <<>> => Begins(g) = 0
    <3>1. /\ archive'.cells = archive.cells \cup {g} /\ g.at \in Nat
          /\ g.item.htype = "GOODBYE"
      BY <1>3, <1>4, <1>6
    <3>2. /\ Len(state) \in Nat \ {0} /\ Len(state') = Len(state) - 1
          /\ Begins(g) = state[Len(state)].entry_offset
      BY <1>3, <2>1, <2>2, <2>3
    <3> QED BY <2>1, <2>4, <2>5, <2>6, <3>1, <3>2, NestsPopped
  <2>8. g \in TablesOf(archive'.cells) /\ EndOf(g) = archive'.len
    BY <1>4, <1>6 DEF TablesOf, EndOf, Append1
  <2> QED BY <2>7, <2>8 DEF RootIsClosed
<1>9. StartsRight(archive'.cells)
  BY <1>1, <1>6 DEF WellFormed, StartsRight
<1>10. Coming' = Rest
  BY <1>1 DEF Coming
<1> QED BY <1>1, <1>7, <1>8, <1>9, <1>10 DEF WellFormed

-----------------------------------------------------------------------------
(***************************************************************************)
(* EncoderImpl::new writes what may stand before the root.                  *)
(***************************************************************************)
Heads(w) ==
  /\ IsWriter(w)
  /\ Grammatical(w.out, {"dir"})
  /\ IsFiniteSet(w.out.cells)
  /\ \A c \in w.out.cells : c.item.htype \in {"FORMAT_VERSION", "PRELUDE"}
  /\ \/ w.out.len = 0 /\ ~Split
     \/ \E c \in w.out.cells : EndOf(c) = w.out.len
  /\ Split => StartsRight(w.out.cells)

LEMMA StreamBegins ==
  ASSUME NEW item, ItemOK(item), Tag(item) # "DATA"
  PROVE  LET s == Append1(EmptyStream, item)
             c == [at |-> 0, item |-> item]
         IN /\ Stream(EmptyStream) /\ Stream(s)
            /\ s.cells = {c} /\ s.len = item.size
            /\ Grammatical(EmptyStream, {Tag(item)})
            /\ Grammatical(s, After(Tag(item)))
            /\ IsFiniteSet(s.cells)
<1> DEFINE s == Append1(EmptyStream, item)
           c == [at |-> 0, item |-> item]
<1>1. /\ Stream(EmptyStream) /\ EmptyStream.len = 0
      /\ EmptyStream.cells = {}
  BY DEF Stream, EmptyStream
<1>2. Grammatical(EmptyStream, {Tag(item)})
  BY <1>1 DEF Grammatical, Solid, Leads, Preceded, Continues
<1>3. Grammatical(s, After(Tag(item))) /\ Stream(s)
  BY <1>1, <1>2, AppendIsGrammatical, AppendCells
<1>4. s.cells = {c} /\ s.len = item.size
  <2>1. item.size \in Nat
    BY DEF ItemOK
  <2> QED BY <2>1 DEF Append1, EmptyStream
<1>5. IsFiniteSet({c})
  BY FS_Singleton
<1> QED BY <1>1, <1>2, <1>3, <1>4, <1>5

LEMMA NewHeads ==
  ASSUME NEW prelude \in Preludes, prelude # <<>> => Split
  PROVE  LET start == [out |-> EmptyStream, position |-> 0]
             w1 == IF Split THEN SeqWrite(start, Version) ELSE start
             w2 == IF prelude = <<>> THEN w1
                   ELSE SeqWrite(w1, PreludeItem(prelude[1]))
         IN Heads(w2)
<1> DEFINE start == [out |-> EmptyStream, position |-> 0]
           w1 == IF Split THEN SeqWrite(start, Version) ELSE start
           w2 == IF prelude = <<>> THEN w1
                 ELSE SeqWrite(w1, PreludeItem(prelude[1]))
<1> SUFFICES Heads(w2)
  OBVIOUS
<1>1. IsWriter(start) /\ start.out = EmptyStream
  BY DEF IsWriter, Stream, EmptyStream
<1>2. CASE ~Split
  <2>1. w2 = start
    BY <1>2
  <2> HIDE DEF w2, start
  <2>2. EmptyStream.cells = {} /\ EmptyStream.len = 0
    BY DEF EmptyStream
  <2>3. Grammatical(EmptyStream, {"dir"}) /\ IsFiniteSet(EmptyStream.cells)
    BY <2>2, FS_EmptySet DEF Grammatical, Solid, Leads, Preceded, Continues
  <2> QED BY <1>1, <1>2, <2>1, <2>2, <2>3 DEF Heads, w2, start
<1>3. CASE Split
  <2> DEFINE v == [at |-> 0, item |-> Version]
             s == Append1(EmptyStream, Version)
  <2>1. /\ ItemOK(Version) /\ Tag(Version) = "FORMAT_VERSION"
        /\ Version.htype = "FORMAT_VERSION"
    BY FixedItemsOK DEF Version, Tag
  <2>2. /\ s.cells = {v} /\ s.len = Version.size /\ IsFiniteSet(s.cells)
        /\ Grammatical(s, {"PRELUDE", "dir"})
    <3>1. /\ s.cells = {v} /\ s.len = Version.size /\ IsFiniteSet(s.cells)
          /\ Grammatical(s, After(Tag(Version)))
      BY <2>1, StreamBegins
    <3>2. After(Tag(Version)) = {"PRELUDE", "dir"}
      BY <2>1, Afters
    <3> HIDE DEF s
    <3> QED BY <3>1, <3>2
  <2>3. /\ w1.out = s /\ IsWriter(w1)
    BY <1>1, <1>3, <2>1, SeqWriteExtends, WriterOut DEF Extends
  <2>4. StartsRight(s.cells) /\ EndOf(v) = s.len /\ v.item = Version
    <3>1. Version.size \in Nat /\ v.at = 0 /\ v.item = Version
      BY <2>1 DEF ItemOK
    <3> HIDE DEF v, s
    <3> QED BY <1>3, <2>1, <2>2, <3>1 DEF StartsRight, First, EndOf
  <2> HIDE DEF w1, s, v, start
  <2>5. CASE prelude = <<>>
    <3>1. Grammatical(s, {"dir"})
      BY <2>2, GrammaticalFewer
    <3>2. w2 = w1
      BY <2>5
    <3> HIDE DEF w2
    <3>3. Heads(w2)
      BY <2>1, <2>2, <2>3, <2>4, <3>1, <3>2 DEF Heads
    <3> QED BY <3>3 DEF w2
  <2>6. CASE prelude # <<>>
    <3> DEFINE item == PreludeItem(prelude[1])
               c == [at |-> s.len, item |-> item]
    <3>1. prelude[1] \in Nat
      BY <2>6, EncoderAssumption
    <3>2. /\ ItemOK(item) /\ Tag(item) = "PRELUDE"
          /\ item.htype = "PRELUDE"
      BY <3>1, SizedItemsOK DEF PreludeItem, Tag
    <3> HIDE DEF item
    <3>3. w2 = SeqWrite(w1, item)
      BY <2>6 DEF item
    <3>4. IsWriter(w2) /\ w2.out = Append1(s, item) /\ Stream(s)
      BY <2>3, <3>2, <3>3, SeqWriteExtends, WriterOut DEF Extends, IsWriter
    <3>5. /\ w2.out.cells = s.cells \cup {c} /\ w2.out.len = s.len + item.size
          /\ c.at = s.len /\ c.item = item
      BY <3>2, <3>4, AppendCells
    <3> HIDE DEF w2, c
    <3>6. Grammatical(w2.out, {"dir"})
      <4>1. Grammatical(w2.out, After(Tag(item)))
        BY <2>2, <3>2, <3>4, AppendIsGrammatical
      <4> QED BY <3>2, <4>1, Afters
    <3>7. IsFiniteSet(w2.out.cells)
      BY <2>2, <3>5, FS_AddElement
    <3>8. EndOf(c) = w2.out.len /\ c \in w2.out.cells
      BY <3>5 DEF EndOf
    <3>9. StartsRight(w2.out.cells)
      BY <2>4, <3>5 DEF StartsRight
    <3>10. \A d \in w2.out.cells :
             d.item.htype \in {"FORMAT_VERSION", "PRELUDE"}
      BY <2>1, <2>2, <2>4, <3>2, <3>5
    <3>11. Heads(w2)
      BY <3>4, <3>6, <3>7, <3>8, <3>9, <3>10 DEF Heads
    <3> QED BY <3>11 DEF w2
  <2> QED BY <2>5, <2>6
<1> QED BY <1>2, <1>3

LEMMA NewIsWellFormed ==
  ASSUME IInv, NEW meta \in Metas, NEW prelude \in Preludes,
         New(meta, prelude)
  PROVE  WellFormed'
<1> DEFINE start == [out |-> EmptyStream, position |-> 0]
           p == IF Split THEN SeqWrite(start, Marker("PAYLOAD_START_MARKER"))
                ELSE start
           w1 == IF Split THEN SeqWrite(start, Version) ELSE start
           w2 == IF prelude = <<>> THEN w1
                 ELSE SeqWrite(w1, PreludeItem(prelude[1]))
           w3 == SeqWrite(w2, Entry(meta))
           root == [at |-> w2.out.len, item |-> Entry(meta)]
<1>1. /\ prelude # <<>> => Split
      /\ archive' = w3.out /\ payload' = p.out
      /\ state' = <<EncoderState(0, w3.position, 0, 0, w3.position,
                                 p.position)>>
      /\ meta.kind = "dir" /\ phase' = "open" /\ file' = file
      /\ phase = "new"
  BY DEF New
<1>2. Heads(w2)
  BY <1>1, NewHeads
<1>3. Split => Marked(payload')
  <2> SUFFICES ASSUME Split PROVE Marked(payload')
    OBVIOUS
  <2> DEFINE item == Marker("PAYLOAD_START_MARKER")
             c == [at |-> 0, item |-> item]
  <2>1. ItemOK(item) /\ item.htype = "PAYLOAD_START_MARKER"
        /\ item.size = HeaderSize
    BY FixedItemsOK DEF Marker
  <2> Tag(item) # "DATA"
    BY <2>1 DEF Tag, Marker
  <2>2. payload' = Append1(EmptyStream, item)
    BY <1>1, WriterOut
  <2> HIDE DEF item
  <2>3. payload'.cells = {c} /\ payload'.len = HeaderSize
    BY <2>1, <2>2, StreamBegins
  <2>4. c.at = 0 /\ c.item = item
    OBVIOUS
  <2> HIDE DEF c
  <2> QED BY <2>1, <2>3, <2>4 DEF Marked, CellsOf, HeaderSize
<1> HIDE DEF p, w2
<1>4. /\ Len(state') = 1 /\ state'[1].entry_offset = 0 /\ state' # <<>>
  BY <1>1 DEF EncoderState
<1>5. /\ ItemOK(Entry(meta)) /\ Tag(Entry(meta)) = "dir"
      /\ After("dir") = Rest
  BY <1>1, EntryTag, Afters
<1>6. /\ archive' = Append1(w2.out, Entry(meta))
      /\ archive'.cells = w2.out.cells \cup {root}
      /\ root.at = w2.out.len /\ root.item = Entry(meta)
  BY <1>1, SeqWriteCells, WriterOut
<1> HIDE DEF root, w3
<1>7. Grammatical(archive', Rest) /\ IsFiniteSet(archive'.cells)
  <2>1. Stream(w2.out)
    BY <1>2 DEF Heads, IsWriter
  <2> QED BY <1>2, <1>5, <1>6, <2>1, AppendIsGrammatical, FS_AddElement
          DEF Heads
<1>8. TablesOf(archive'.cells) = {}
  <2>1. \A c \in archive'.cells : Tag(c.item) # "GOODBYE"
    BY <1>2, <1>5, <1>6 DEF Heads, Tag
  <2> QED BY <2>1 DEF TablesOf, Tag
<1>9. Nests(archive'.cells, state')
  <2>1. RootEntry(archive'.cells, root)
    <3>1. CASE w2.out.len = 0 /\ ~Split
      BY <1>6, <3>1 DEF RootEntry
    <3>2. ASSUME NEW c \in w2.out.cells, EndOf(c) = w2.out.len
          PROVE  RootEntry(archive'.cells, root)
      <4>1. c.item.htype \in {"FORMAT_VERSION", "PRELUDE"}
        BY <1>2, <3>2 DEF Heads
      <4> QED BY <1>6, <3>2, <4>1 DEF RootEntry
    <3> QED BY <1>2, <3>1, <3>2 DEF Heads
  <2>2. \A c \in archive'.cells : IsDirEntry(c) => c = root
    BY <1>2, <1>6 DEF Heads, IsDirEntry, Tag
  <2>3. EveryDirCloses(archive'.cells, state')
    BY <2>1, <2>2 DEF EveryDirCloses
  <2>4. OpenDirs(archive'.cells, state')
    BY <1>4, <1>8 DEF OpenDirs
  <2> QED BY <1>8, <2>3, <2>4 DEF Nests, Laminar
<1>10. StartsRight(archive'.cells)
  <2>1. CASE Split
    BY <1>2, <1>6, <2>1 DEF Heads, StartsRight
  <2>2. CASE ~Split
    <3>1. w2.out.len = 0
      BY <1>1, <2>2 DEF w2, EmptyStream
    <3> QED BY <1>5, <1>6, <2>2, <3>1 DEF StartsRight, First
  <2> QED BY <2>1, <2>2
<1>11. Coming' = Rest
  BY <1>1 DEF Coming, IInv, TypeOK
<1> QED BY <1>1, <1>3, <1>4, <1>7, <1>9, <1>10, <1>11 DEF WellFormed

-----------------------------------------------------------------------------
LEMMA NextIsWellFormed ==
  ASSUME ~(Split /\ TokioIo), GInv, NInv', [Next]_vars
  PROVE  GInv'
<1> SUFFICES ASSUME faults' = {} PROVE WellFormed'
  BY DEF GInv
<1>1. /\ faults = {} /\ OInv /\ IInv /\ IInv' /\ WellFormed
      /\ \A kind : ~Fail(kind)
  BY FaultsGrow, FaultsStay DEF GInv, NInv, OInv
<1>2. ASSUME NEW meta \in Metas, NEW prelude \in Preludes, New(meta, prelude)
      PROVE  WellFormed'
  BY <1>1, <1>2, NewIsWellFormed
<1>3. CASE FileCalls
  <2>1. ASSUME NEW n, NEW meta, NEW size
        PROVE  ~CreateFileFails(n, meta, size)
    BY <1>1 DEF CreateFileFails
  <2> QED BY <1>1, <1>3, <2>1, FileCallsAreWellFormed DEF FileCalls
<1>4. CASE WriteCalls
  <2>1. ASSUME NEW k PROVE ~WriteAllFails(k)
    BY <1>1 DEF WriteAllFails
  <2> QED BY <1>1, <1>4, <2>1, WritesAreWellFormed DEF WriteCalls
<1>5. CASE RefCalls
  BY <1>1, <1>5, EntriesAreWellFormed, WritesAreWellFormed DEF RefCalls
<1>6. CASE EntryCalls
  <2>1. ASSUME NEW n \in Names, NEW meta \in Metas, CreateDirectory(n, meta)
        PROVE  WellFormed'
    BY <1>1, <2>1, CreateDirectoryIsWellFormed
  <2> QED BY <1>1, <1>6, <2>1, EntriesAreWellFormed DEF EntryCalls
<1>7. CASE Finish
  BY <1>1, <1>7, FinishIsWellFormed
<1>8. CASE FinishFails
  BY <1>1, <1>8 DEF FinishFails
<1>9. CASE Close
  <2>1. /\ UNCHANGED <<archive, state, file>>
        /\ phase = "open" /\ phase' = "closed"
        /\ payload' = IF Split
                        THEN Append1(payload, Marker("PAYLOAD_TAIL_MARKER"))
                        ELSE payload
    BY <1>1, <1>9 DEF Close
  <2>2. Split => Marked(payload')
    <3>1. ItemOK(Marker("PAYLOAD_TAIL_MARKER")) /\ Stream(payload)
      BY <1>1, FixedItemsOK DEF IInv, TypeOK
    <3> QED BY <1>1, <2>1, <3>1, MarkedMore DEF WellFormed
  <2> QED BY <1>1, <2>1, <2>2 DEF WellFormed, Coming
<1>10. CASE UNCHANGED vars
  BY <1>1, <1>10 DEF vars, WellFormed, Coming
<1> QED BY <1>2, <1>3, <1>4, <1>5, <1>6, <1>7, <1>8, <1>9, <1>10
        DEF Next, Terminated

(* As long as no call failed part way, the archive reads like one: what      *)
(* follows an item, at the byte where it ends, is what may follow it, up to  *)
(* the last item; the tables lead to nested directories, none of them        *)
(* missing but those that are still open; and the payload stream begins      *)
(* with its marker.  For any sequence of calls.                             *)
THEOREM ArchivesAreWellFormed ==
  ASSUME ~(Split /\ TokioIo)
  PROVE  Spec => []GInv
<1>1. Init => GInv
  <2> SUFFICES ASSUME Init PROVE GInv
    OBVIOUS
  <2>1. /\ OInv /\ archive.cells = {} /\ archive.len = 0
        /\ payload.cells = {} /\ state = <<>> /\ phase = "new"
    BY InitLeads DEF Init, EmptyStream
  <2>2. NInv
    BY <2>1 DEF NInv, LaidOut, Apart, VersionFirst, LinksKept
  <2>3. Grammatical(archive, Coming)
    BY <2>1 DEF Grammatical, Solid, Leads, Preceded, Continues
  <2>4. Nests(archive.cells, state)
    <3>1. TablesOf(archive.cells) = {} /\ Len(state) = 0
      BY <2>1 DEF TablesOf
    <3> QED BY <2>1, <3>1 DEF Nests, Laminar, EveryDirCloses, OpenDirs
  <2> QED BY <2>1, <2>2, <2>3, <2>4, FS_EmptySet DEF GInv, WellFormed
<1>2. GInv /\ [Next]_vars => GInv'
  BY NextKeeps, NextLeads, NextLaysOut, NextIsWellFormed DEF GInv, NInv, OInv
<1> QED BY <1>1, <1>2, PTL DEF Spec
=============================================================================
