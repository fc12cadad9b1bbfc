----------------------- MODULE PxarEncoderProperties ------------------------
(***************************************************************************)
(* What the encoder promises about the streams it writes.                  *)
(***************************************************************************)
EXTENDS PxarEncoder

(***************************************************************************)
(* Types.                                                                  *)
(***************************************************************************)
ItemTypes ==
  {"FORMAT_VERSION", "PRELUDE", "FILENAME", "ENTRY", "SYMLINK", "HARDLINK",
   "DEVICE", "PAYLOAD", "PAYLOAD_REF", "DATA", "GOODBYE",
   "PAYLOAD_START_MARKER", "PAYLOAD_TAIL_MARKER"}

ItemOK(item) ==
  /\ item.htype \in ItemTypes
  /\ item.size \in Nat
  /\ item.htype # "DATA" => item.size >= HeaderSize
  /\ item.htype = "FILENAME" => item.name \in Names
  /\ item.htype = "ENTRY" => item.kind \in FileKinds
  /\ item.htype \in {"PAYLOAD", "PAYLOAD_REF"} => item.content \in FileSizes
  /\ item.htype = "PAYLOAD_REF" => item.offset \in Nat

Stream(s) ==
  /\ s.len \in Nat
  /\ \A c \in s.cells : c.at \in Nat /\ ItemOK(c.item)
  /\ \A c \in s.cells : c.at + c.item.size <= s.len

EncoderStates ==
  [items : Seq(GoodbyeItem), encode_error : EncodeErrors,
   entry_offset : Nat, files_offset : Nat, file_offset : Nat,
   file_hash : Nat, write_position : Nat, payload_write_position : Nat]

PayloadRefs == [offset : Nat, content : FileSizes]

(* The type invariant: every offset and position is a natural number (none   *)
(* of the subtractions of the code underflows), every item lies within its  *)
(* stream, an open file has a directory to go to.                           *)
TypeOK ==
  /\ Stream(archive)
  /\ Stream(payload)
  /\ state \in Seq(EncoderStates)
  /\ file \in [open : BOOLEAN, remaining_size : Nat, item : GoodbyeItem]
  /\ phase \in {"new", "open", "closed"}
  /\ result \in {"none", "ok", "incomplete", "io_error"}
  /\ links \subseteq Nat
  /\ promised \in Seq(PayloadRefs)
  /\ faults \subseteq FaultKinds
  /\ file.open => state # <<>>
  /\ state # <<>> => phase = "open"

(***************************************************************************)
(* Positions.                                                              *)
(***************************************************************************)
BehindPosition(st) ==
  /\ st.file_offset <= st.write_position
  /\ st.entry_offset <= st.write_position
  /\ \A i \in 1..Len(st.items) : st.items[i].offset <= st.write_position

(* Offsets in a goodbye table are counted backwards: the code subtracts what *)
(* a directory has recorded from its position, unsigned.  So at any time     *)
(* all it has recorded lies behind its position, an outer directory is never *)
(* ahead of an inner one (whose position it takes over, or falls back from   *)
(* when finish() fails), and an open file began before the current position. *)
NothingUnderflows ==
  /\ \A d \in 1..Depth : BehindPosition(state[d])
  /\ \A d \in 1..Depth - 1 :
       state[d].write_position <= state[d + 1].write_position
  /\ file.open => file.item.offset <= Top.write_position

(* The position the current directory tracks for each stream is the length   *)
(* of that stream: after every call, failed ones included, whatever          *)
(* directories were entered and left in between.  Only a failed finish()     *)
(* may break this.                                                          *)
PositionsTrackStreams ==
  state # <<>> /\ "finish" \notin faults =>
    /\ Top.write_position = archive.len
    /\ Top.payload_write_position = payload.len

(***************************************************************************)
(* Goodbye tables.                                                         *)
(***************************************************************************)
FilenameAt(offset, hash) ==
  \E c \in archive.cells :
    c.at = offset /\ c.item.htype = "FILENAME" /\ HashOf[c.item.name] = hash

PendingResolve ==
  /\ \A d \in 1..Depth : \A i \in 1..Len(state[d].items) :
       FilenameAt(state[d].items[i].offset, state[d].items[i].hash)
  /\ \A d \in 2..Depth : FilenameAt(state[d].file_offset, state[d].file_hash)
  /\ file.open => FilenameAt(file.item.offset, file.item.hash)

RowsResolve ==
  \A g \in CellsOf(archive, "GOODBYE") : \A i \in 1..Len(g.item.rows) :
    /\ g.item.rows[i].offset <= g.at
    /\ FilenameAt(g.at - g.item.rows[i].offset, g.item.rows[i].hash)

(* Every row of every goodbye table leads backwards to a FILENAME whose hash *)
(* is the row's, and so will everything that is waiting to become a row.     *)
GoodbyeTablesResolve == "finish" \notin faults => PendingResolve /\ RowsResolve

(* Who knows where a FILENAME is: items, open directories, the open file,    *)
(* rows.                                                                    *)
Owners(offset) ==
  {<<"item", d, i>> : d \in {x \in 1..Depth :
                        \E j \in 1..Len(state[x].items) :
                          state[x].items[j].offset = offset},
                      i \in {0}}
    \cup {<<"dir", d, 0>> : d \in {x \in 2..Depth :
                                     state[x].file_offset = offset}}
    \cup (IF file.open /\ file.item.offset = offset
            THEN {<<"file", 0, 0>>} ELSE {})
    \cup UNION {{<<"row", g.at, i>> :
                   i \in {j \in 1..Len(g.item.rows) :
                            g.item.rows[j].offset = g.at - offset}} :
                g \in CellsOf(archive, "GOODBYE")}

(* No entry is lost and none is listed twice: at any time exactly one place  *)
(* accounts for each FILENAME written, and in the end one table row does.    *)
EveryNameListedOnce ==
  faults = {} =>
    \A c \in CellsOf(archive, "FILENAME") : Cardinality(Owners(c.at)) = 1

(* Where the directory begins that a GOODBYE ends: with one of the ENTRYs of *)
(* directories.  The tail leads there, except that for the root of an       *)
(* archive with a FORMAT_VERSION it leads to offset 0 (format/mod.rs on      *)
(* GoodbyeItem.offset has it lead to the ENTRY there too).                  *)
DirectoryEntries == {c \in CellsOf(archive, "ENTRY") : c.item.kind = "dir"}

IsRootEntry(e) == \A x \in CellsOf(archive, "ENTRY") : e.at <= x.at

TailLeadsTo(g, e) ==
  \/ g.item.tail.offset + e.at = g.at
  \/ Split /\ g.item.tail.offset = g.at /\ IsRootEntry(e)

(* Like a pair of brackets: a directory that begins between the two ends     *)
(* there, and what ends between them began there.                           *)
Encloses(e, g) ==
  /\ e.at < g.at
  /\ \A x \in DirectoryEntries :
       e.at < x.at /\ x.at < g.at =>
         \E h \in CellsOf(archive, "GOODBYE") :
           x.at < h.at /\ h.at < g.at /\ TailLeadsTo(h, x)
  /\ \A h \in CellsOf(archive, "GOODBYE") :
       e.at < h.at /\ h.at < g.at =>
         \E x \in DirectoryEntries : e.at < x.at /\ TailLeadsTo(h, x)

(* The tail of every goodbye table leads to the ENTRY of its own directory,  *)
(* neither that of a parent, a sibling or a child, whatever calls failed in  *)
(* between, and carries the size of the table.                              *)
TailsLeadToDirectory ==
  "finish" \notin faults =>
    \A g \in CellsOf(archive, "GOODBYE") :
      /\ g.item.tail.size = g.item.size
      /\ \E e \in DirectoryEntries : TailLeadsTo(g, e) /\ Encloses(e, g)

(***************************************************************************)
(* Extents.                                                                *)
(***************************************************************************)
Starts(g) == {g.at - g.item.rows[i].offset : i \in 1..Len(g.item.rows)}

Ends(g) ==
  {g.at - g.item.rows[i].offset + g.item.rows[i].size :
     i \in 1..Len(g.item.rows)}

Tainted == \E d \in 1..Depth : state[d].encode_error # "none"

(* In an archive with its contents inline the rows of a table tile the       *)
(* directory: each entry ends where another begins, the last one where the   *)
(* GOODBYE begins.  A random access reader takes its ranges from these.      *)
RowsTileDirectory ==
  ~Split /\ faults = {} /\ ~Tainted /\ result # "incomplete" =>
    \A g \in CellsOf(archive, "GOODBYE") :
      \E e \in CellsOf(archive, "ENTRY") :
        /\ e.at = g.at - g.item.tail.offset
        /\ Starts(g) \cup {g.at} = Ends(g) \cup {e.at + e.item.size}

(***************************************************************************)
(* Contents.                                                               *)
(***************************************************************************)

(* The content declared by a PAYLOAD header is there in full, and whatever   *)
(* comes next begins right after it.                                        *)
ContentComplete(s, c) ==
  LET begin == c.at + HeaderSize
      end == begin + c.item.content
  IN /\ \A d \in s.cells :
          begin <= d.at /\ d.at < end => d.item.htype = "DATA"
     /\ \/ end = s.len
        \/ \E d \in s.cells : d.at = end /\ d.item.htype # "DATA"

ContentsComplete(s) ==
  \A c \in CellsOf(s, "PAYLOAD") : ContentComplete(s, c)

(* If no call failed and finish() of the root says Ok then every file has    *)
(* exactly the content its header declares, by whichever of create_file,     *)
(* write, write_all and add_file the caller wrote it.  (In a split archive   *)
(* AsyncWrite puts it elsewhere, see ContentsInPayloadStream.)               *)
FinishedOkIsComplete ==
  result = "ok" /\ faults = {} =>
    ContentsComplete(archive) /\ ContentsComplete(payload)

(***************************************************************************)
(* The encoder implements the abstract builder.  "tainted" is mapped to the *)
(* streams, not to the encoder's own error flags: a file nobody writes to   *)
(* any more lacks content.                                                  *)
(***************************************************************************)
ShortFile(s) ==
  ~file.open /\ \E c \in CellsOf(s, "PAYLOAD") : ~ContentComplete(s, c)

Builder == INSTANCE ArchiveBuilder WITH
  depth   <- Depth,
  names   <- Cardinality(CellsOf(archive, "FILENAME")),
  tainted <- ShortFile(archive) \/ ShortFile(payload),
  outcome <- result,
  closed  <- phase = "closed"

(* Once a file was left short of its content no call adds an entry any more, *)
(* and finish() of the root reports "incomplete" exactly then.               *)
ImplementsBuilder == Builder!Spec

(***************************************************************************)
(* References.                                                             *)
(***************************************************************************)

(* Every payload reference leads to a PAYLOAD header of the same size in the *)
(* payload stream, unless the caller still owes the encoder that payload.    *)
PayloadRefsResolve ==
  "finish" \notin faults =>
    \A c \in CellsOf(archive, "PAYLOAD_REF") :
      \/ \E x \in CellsOf(payload, "PAYLOAD") :
           x.at = c.item.offset /\ x.item.content = c.item.content
      \/ /\ promised # <<>>
         /\ promised[1].offset = c.item.offset
         /\ promised[1].content = c.item.content

(* A decoder that can only read forward finds the contents in the order of   *)
(* the entries: each reference begins behind the end of the one before.      *)
PayloadRefsAscend ==
  "finish" \notin faults =>
    \A c, d \in CellsOf(archive, "PAYLOAD_REF") :
      c.at < d.at =>
        c.item.offset + HeaderSize + c.item.content <= d.item.offset

(* A hardlink's offset, counted back from the FILENAME it belongs to, leads  *)
(* to the FILENAME of a regular file: of the one its path names.             *)
HardlinksResolve ==
  "finish" \notin faults =>
    \A c \in CellsOf(archive, "HARDLINK") :
      \E own, target, entry \in archive.cells :
        /\ own.item.htype = "FILENAME" /\ own.at + own.item.size = c.at
        /\ target.item.htype = "FILENAME"
        /\ target.at = c.item.target
        /\ target.at + c.item.offset = own.at
        /\ entry.item.htype = "ENTRY" /\ entry.item.kind = "file"
        /\ entry.at = target.at + target.item.size

(***************************************************************************)
(* The archive as its goodbye tables describe it.                          *)
(***************************************************************************)
Filenames == CellsOf(archive, "FILENAME")

(* The n-th FILENAME of the archive.                                        *)
NthName(n) ==
  CHOOSE c \in Filenames : Cardinality({x \in Filenames : x.at < c.at}) = n - 1

(* The directories a FILENAME is in, by the extents of the tables: from the  *)
(* ENTRY the tail of a table leads to, to the table.                        *)
Holding(c) ==
  {x \in Filenames :
     \E g \in CellsOf(archive, "GOODBYE") :
       /\ g.at - g.item.tail.offset = x.at + x.item.size
       /\ x.at < c.at /\ c.at < g.at}

(* The path of a FILENAME: the names of those, outermost first, and its own. *)
PathOf(c) ==
  LET dirs == Holding(c) IN
  [k \in 1..Cardinality(dirs) + 1 |->
     IF k > Cardinality(dirs)
       THEN c.item.name
       ELSE (CHOOSE x \in dirs :
               Cardinality({y \in dirs : y.at < x.at}) = k - 1).item.name]

(* What the item behind the FILENAME and its ENTRY says the entry is.         *)
Behind(c) == {x.item : x \in {y \in archive.cells : y.at = c.at + c.item.size}}

KindOf(c) ==
  IF \E item \in Behind(c) : item.htype = "HARDLINK"
    THEN "Hardlink"
    ELSE LET kind == (CHOOSE item \in Behind(c) : TRUE).kind IN
         CASE kind = "dir" -> "Directory"
           [] kind = "file" -> "File"
           [] kind = "symlink" -> "Symlink"
           [] kind = "device" -> "Device"
           [] kind = "fifo" -> "Fifo"
           [] kind = "socket" -> "Socket"

(***************************************************************************)
(* What the documentation of the code says, where the code does otherwise.  *)
(***************************************************************************)

(* encoder/mod.rs on FileImpl.output: "Optional write redirection of file    *)
(* payloads to this sequential stream".                                     *)
ContentsInPayloadStream == Split => CellsOf(archive, "DATA") = {}

(* encoder/sync.rs on create_directory: "Note that the subdirectory has to   *)
(* be finished by calling the `finish()` method, otherwise the entire        *)
(* archive will be in an error state."                                      *)
UnfinishedDirectoryIsError ==
  "finish" \in faults => result # "ok"
=============================================================================
