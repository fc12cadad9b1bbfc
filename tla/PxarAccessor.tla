---------------------------- MODULE PxarAccessor ----------------------------
(***************************************************************************)
(* The random access reader: AccessorImpl and the objects it hands out      *)
(* (DirectoryImpl, ReadDirImpl, DirEntryImpl, FileEntryImpl,                *)
(* FileContentsImpl).                                                      *)
(*                                                                         *)
(* Tasks call these objects; an object is a value, and a task keeps the one *)
(* it got last.  What tasks share is the cache of goodbye tables.  A call   *)
(* that opens a directory awaits two reads, of the table's tail and of the  *)
(* table, and a lookup one more for each row it looks at; between these the *)
(* other tasks, and the cache, may do anything.  The other calls only read  *)
(* the archive, which does not change: each is one step.                    *)
(*                                                                         *)
(* Operators return a set of results, empty when the code returns an error. *)
(***************************************************************************)
EXTENDS PxarFormat, BinaryTreeArray

CONSTANTS
  Tasks,         \* who uses the accessor
  PayloadSource, \* the caller passes PxarVariant::Split
  CallKinds,     \* the calls callers make
  Paths,         \* the paths they look up: names, "/" or "." first, ".."
  SkipCounts,    \* what they pass to ReadDir::skip
  Caches         \* the caches they pass to set_goodbye_table_cache

AllCalls ==
  {"open_root", "open_dir_at_end", "enter_directory", "lookup", "lookup_self",
   "read_dir", "skip", "next", "decode_entry", "follow_hardlink",
   "open_file_at_range", "contents"}

ASSUME AccessorAssumption ==
  /\ PayloadSource \in BOOLEAN
  /\ CallKinds \subseteq AllCalls
  /\ SkipCounts \subseteq Nat

VARIABLES
  input,          \* the archive
  payload_input,  \* the payload stream, if PayloadSource
  accessor,       \* AccessorImpl: whether it was created, its cache
  stored,         \* what each cache holds: goodbye offsets with tables
  tasks           \* what each task holds, is waiting for, asked and got

accessorVars == <<input, payload_input, accessor, stored, tasks>>

(* An Option is a set of at most one element.                               *)
NoAccessor == [open |-> FALSE, size |-> 0, cache |-> {}]

NoObject == [is |-> "nothing"]
NoJob == [is |-> "none"]
NoCall == [call |-> "none", receiver |-> NoObject, path |-> <<>>]

IdleTask ==
  [object |-> NoObject, job |-> NoJob, asked |-> NoCall, answer |-> "none"]

-----------------------------------------------------------------------------
(***************************************************************************)
(* Decoding one entry, by a DecoderImpl over a part of the archive.         *)
(***************************************************************************)
Upto(end) ==
  [len   |-> IF end < input.len THEN end ELSE input.len,
   cells |-> {c \in input.cells : c.at < end}]

(* An adapter knows its position, so a PAYLOAD_REF does not move the payload *)
(* input: for the decoder it is as if there was none.                       *)
Over(end) == INSTANCE PxarDecoder WITH
  input <- Upto(end), payload_input <- EmptyStream, PayloadInput <- FALSE,
  GoodbyeModes <- {}, ReadSizes <- {},
  decoder <- NoObject, call <- "none", seen <- <<>>

(* Deviation: a part that ends behind an ENTRY always ends too early.         *)
NeverAtRangeEnd(end, d) == {}

(* eof_after_entry: the part ends behind an ENTRY that has no item of its own *)
AtRangeEnd(end, d) ==
  {Over(end)!Outcome(
     Over(end)!Enter(Over(end)!ReadItem(d, item), "Default"),
     Over(end)!EntryAt(d, CASE item.kind = "fifo" -> "Fifo"
                            [] item.kind = "socket" -> "Socket"
                            [] OTHER -> "Directory")) :
     item \in {x \in Over(end)!Items(d, {"ENTRY"}) :
                 d.pos + x.size = Upto(end).len}}

(* DecoderImpl::next() while it is before the first entry.                   *)
NextEntryOf(end, d) == Over(end)!ReadNextEntry(d) \cup AtRangeEnd(end, d)

DecoderAt(end, start, path) ==
  [Over(end)!NewDecoder EXCEPT !.pos = start, !.path = path]

(* A version and a prelude in front of the root are passed over.             *)
DecodeOneEntry(start, end, path) ==
  LET follow(o, state) ==
        NextEntryOf(end, Over(end)!Enter(o.decoder, state))
      second(o) ==
        UNION {IF p.entry.kind = "Prelude" THEN follow(p, "Root")
               ELSE {x \in {p} : p.entry.kind = "Directory"} :
                 p \in follow(o, "Prelude")}
  IN UNION {IF o.entry.kind = "Version" THEN second(o) ELSE {o} :
              o \in NextEntryOf(end, DecoderAt(end, start, path))}

(* Deviation: the PAYLOAD header is taken for contents.                      *)
OffsetOfHeader(o) ==
  IF o.entry.kind # "File" THEN 0 ELSE o.decoder.pos - HeaderSize

(***************************************************************************)
(* FileEntryImpl: Entry with what its EntryKind carries, and                *)
(* EntryRangeInfo.  "offset" is the position behind the PAYLOAD or           *)
(* PAYLOAD_REF header.                                                      *)
(***************************************************************************)
ContentsOffset(o) ==
  IF o.entry.kind # "File" THEN 0
  ELSE IF o.entry.payload_offset = <<>> THEN o.decoder.pos
  ELSE o.decoder.pos - PayloadRefSize

FileEntry(o, filename_header_offset, start, end, cache) ==
  [is |-> "entry", kind |-> o.entry.kind, path |-> o.entry.path,
   size |-> o.entry.size, offset |-> ContentsOffset(o),
   payload_offset |-> o.entry.payload_offset,
   link |-> IF o.entry.kind = "Hardlink" THEN o.decoder.header.offset ELSE 0,
   filename_header_offset |-> filename_header_offset,
   start |-> start, end |-> end, cache |-> cache]

FileEntries(filename_header_offset, start, end, path, cache) ==
  {FileEntry(o, filename_header_offset, start, end, cache) :
     o \in DecodeOneEntry(start, end, path)}

-----------------------------------------------------------------------------
(***************************************************************************)
(* Directories.                                                            *)
(***************************************************************************)
EndOffset(dir) == dir.entry_ofs + dir.size

(* read_tail_entry: the last row of the table that ends at the offset.       *)
TailEntries(end) ==
  {g.item.tail : g \in {x \in CellsOf(input, "GOODBYE") :
                          x.at + x.item.size = end /\ end <= input.len}}

Directory(tail, end, path, cache) ==
  [is |-> "directory", entry_ofs |-> end - tail.size - tail.offset,
   goodbye_ofs |-> end - tail.size, size |-> tail.size + tail.offset,
   table |-> <<>>, path |-> path, cache |-> cache]

(* The directory that ends at the offset, without its table.                 *)
DirectoriesAtEnd(end, path, cache) ==
  {Directory(tail, end, path, cache) :
     tail \in {x \in TailEntries(end) : x.size + x.offset <= end}}

(* Deviation: there is room for the tail as well.                            *)
TablesWithTail(dir) ==
  {Append(g.item.rows, g.item.tail) : g \in CellsOf(input, "GOODBYE")}

(* load_table: as many rows as there is room for, but for the tail.          *)
Tables(dir) ==
  {g.item.rows : g \in {x \in CellsOf(input, "GOODBYE") :
                          /\ x.at = dir.goodbye_ofs
                          /\ x.at + x.item.size = EndOffset(dir)}}

Fetch(dir) ==
  {e.table : e \in {x \in UNION {stored[c] : c \in dir.cache} :
                      x.key = dir.goodbye_ofs}}

(* lookup_hash_position                                                     *)
HashPosition(dir, hash, start, skip) ==
  SearchBy([i \in DOMAIN dir.table |-> dir.table[i].hash], hash, start, skip)

(* get_cursor, read_filename_entry                                          *)
FilenamesAt(offset) ==
  {c \in CellsOf(input, "FILENAME") :
     c.at = offset /\ c.at + c.item.size <= input.len}

(* Deviation: the size of a row is taken to begin behind the FILENAME.       *)
CursorsBehindName(dir, index) ==
  LET row == dir.table[index + 1] IN
  {[file_name |-> c.item.name, filename_header_offset |-> c.at,
    start |-> c.at + c.item.size, end |-> c.at + c.item.size + row.size] :
     c \in FilenamesAt(dir.goodbye_ofs - row.offset)}

Cursors(dir, index) ==
  LET row == dir.table[index + 1] IN
  {[file_name |-> c.item.name, filename_header_offset |-> c.at,
    start |-> c.at + c.item.size, end |-> c.at + row.size] :
     c \in {x \in FilenamesAt(dir.goodbye_ofs - row.offset) :
              row.offset <= dir.goodbye_ofs /\ x.item.size <= row.size}}

(* DirEntryImpl::decode_entry                                               *)
Decoded(dir, cursor) ==
  FileEntries({cursor.filename_header_offset}, cursor.start, cursor.end,
              Append(dir.path, cursor.file_name), dir.cache)

(* lookup_self                                                              *)
Itself(dir) ==
  FileEntries({}, dir.entry_ofs, EndOffset(dir), dir.path, dir.cache)

-----------------------------------------------------------------------------
(***************************************************************************)
(* What becomes of a task: its call returns, or it awaits a read.           *)
(***************************************************************************)
Returns(task, object) ==
  [task EXCEPT !.object = object, !.job = NoJob, !.answer = "ok"]

ReturnsNone(task) == [task EXCEPT !.job = NoJob, !.answer = "not_found"]

ReturnsError(task) == [task EXCEPT !.job = NoJob, !.answer = "error"]

Awaits(task, job) == [task EXCEPT !.job = job]

(* open_at_end: "rest" are the names still to be looked up, none if the      *)
(* caller wants the directory.                                              *)
AwaitsTail(task, end, path, cache, rest) ==
  Awaits(task, [is |-> "tail", end |-> end, path |-> path, cache |-> cache,
                rest |-> rest])

AwaitsTable(task, dir, rest) ==
  Awaits(task, [is |-> "table", dir |-> dir, rest |-> rest])

(* enter_directory                                                          *)
Enters(task, entry, rest) ==
  IF entry.kind = "Directory"
    THEN AwaitsTail(task, entry.end, entry.path, entry.cache, rest)
    ELSE ReturnsError(task)

(* lookup_component, up to the first row.                                   *)
Searches(task, dir, rest) ==
  LET first == HashPosition(dir, HashOf[rest[1]], 0, 0) IN
  IF first = None
    THEN ReturnsNone(task)
    ELSE Awaits(task, [is |-> "probe", dir |-> dir, rest |-> rest,
                       first |-> first, dup |-> 0])

(* lookup: a component was found.                                           *)
Finds(task, entry, rest) ==
  IF rest = <<>> THEN Returns(task, entry)
  ELSE IF rest[1] = ".." THEN ReturnsError(task)
  ELSE Enters(task, entry, rest)

(* The directory is open.                                                   *)
Opens(task, dir, rest) ==
  IF rest = <<>> THEN Returns(task, dir) ELSE Searches(task, dir, rest)

Put(t, task) == tasks' = [tasks EXCEPT ![t] = task]

PutOneOf(t, outcomes, task) ==
  \/ \E x \in outcomes : Put(t, x)
  \/ outcomes = {} /\ Put(t, ReturnsError(task))

ReturnOneOf(t, objects, task) ==
  PutOneOf(t, {Returns(task, x) : x \in objects}, task)

OnlyTasks == UNCHANGED <<input, payload_input, accessor, stored>>

-----------------------------------------------------------------------------
(***************************************************************************)
(* Calls.  "Asking" is the task that makes a call on the object it holds.    *)
(***************************************************************************)
Asking(t, call, path) ==
  [tasks[t] EXCEPT
     !.asked = [call |-> call, receiver |-> tasks[t].object, path |-> path],
     !.answer = "none"]

Idle(t, call) ==
  /\ call \in CallKinds
  /\ accessor.open
  /\ tasks[t].job = NoJob

Holds(t, call, kinds) == Idle(t, call) /\ tasks[t].object.is \in kinds

Held(t) == tasks[t].object

(* AccessorImpl::new: some item begins at 0.  A version is read too.         *)
NewAccessor(size) ==
  /\ ~accessor.open
  /\ size >= GoodbyeItemSize
  /\ \E c \in input.cells : c.at = 0 /\ HeaderSize <= input.len
  /\ accessor' = [NoAccessor EXCEPT !.open = TRUE, !.size = size]
  /\ UNCHANGED <<input, payload_input, stored, tasks>>

(* Takes the accessor for itself: no call that borrows it is under way.      *)
SetGoodbyeTableCache(cache) ==
  /\ accessor.open
  /\ \A t \in Tasks :
       tasks[t].job # NoJob =>
         tasks[t].asked.call \notin {"open_root", "open_dir_at_end"}
  /\ accessor' = [accessor EXCEPT !.cache = cache]
  /\ UNCHANGED <<input, payload_input, stored, tasks>>

OpenRoot(t) ==
  /\ Idle(t, "open_root")
  /\ Put(t, AwaitsTail(Asking(t, "open_root", <<>>), accessor.size, <<>>,
                       accessor.cache, <<>>))
  /\ OnlyTasks

(* The offset is one the caller has kept, of a directory it knew.            *)
OpenDirAtEnd(t) ==
  /\ Holds(t, "open_dir_at_end", {"entry"})
  /\ Held(t).kind = "Directory"
  /\ Put(t, AwaitsTail(Asking(t, "open_dir_at_end", <<>>), Held(t).end, <<>>,
                       accessor.cache, <<>>))
  /\ OnlyTasks

EnterDirectory(t) ==
  /\ Holds(t, "enter_directory", {"entry"})
  /\ Put(t, Enters(Asking(t, "enter_directory", <<>>), Held(t), <<>>))
  /\ OnlyTasks

Lookup(t, path) ==
  /\ Holds(t, "lookup", {"directory"})
  /\ LET task == Asking(t, "lookup", path) IN
     IF path = <<>>
       THEN Put(t, ReturnsNone(task))
     ELSE IF path[1] = "/"
       THEN PutOneOf(t, {Finds(task, entry, Tail(path)) :
                           entry \in Itself(Held(t))}, task)
     ELSE IF path[1] = ".."
       THEN Put(t, ReturnsError(task))
       ELSE Put(t, Searches(task, Held(t), path))
  /\ OnlyTasks

LookupSelf(t) ==
  /\ Holds(t, "lookup_self", {"directory"})
  /\ ReturnOneOf(t, Itself(Held(t)), Asking(t, "lookup_self", <<>>))
  /\ OnlyTasks

(***************************************************************************)
(* read_dir: "at" is the next row; "listed" and "skipped" are what the       *)
(* caller has got and what it has told the iterator to leave out.           *)
(***************************************************************************)
ReadDir(t) ==
  /\ Holds(t, "read_dir", {"directory"})
  /\ Put(t, Returns(Asking(t, "read_dir", <<>>),
                    [is |-> "read_dir", dir |-> Held(t), at |-> 0,
                     skipped |-> 0, listed |-> {}]))
  /\ OnlyTasks

(* An entry does not stop the iterator it came from.                         *)
Reader(object) == IF object.is = "read_dir" THEN object ELSE object.reader

(* Deviation: the iterator skips from its start.                             *)
SkippingFromStart(reader, n) ==
  LET rows == Len(reader.dir.table)
      at == IF n < rows THEN n ELSE rows
  IN [reader EXCEPT !.at = at, !.skipped = @ + (at - reader.at)]

Skipping(reader, n) ==
  LET rows == Len(reader.dir.table)
      at == IF reader.at + n < rows THEN reader.at + n ELSE rows
  IN [reader EXCEPT !.at = at, !.skipped = @ + (at - reader.at)]

SkipEntries(t, n) ==
  /\ Holds(t, "skip", {"read_dir", "dir_entry"})
  /\ Put(t, Returns(Asking(t, "skip", <<>>), Skipping(Reader(Held(t)), n)))
  /\ OnlyTasks

DirEntry(reader, cursor) ==
  [is |-> "dir_entry", cursor |-> cursor,
   reader |-> [reader EXCEPT !.at = @ + 1,
                             !.listed = @ \cup {cursor.filename_header_offset}]]

NextEntry(t) ==
  /\ Holds(t, "next", {"read_dir", "dir_entry"})
  /\ LET reader == Reader(Held(t))
         task == Asking(t, "next", <<>>)
     IN IF reader.at = Len(reader.dir.table)
          THEN Put(t, ReturnsNone(task))
          ELSE ReturnOneOf(t, {DirEntry(reader, cursor) :
                                 cursor \in Cursors(reader.dir, reader.at)},
                           task)
  /\ OnlyTasks

DecodeEntry(t) ==
  /\ Holds(t, "decode_entry", {"dir_entry"})
  /\ ReturnOneOf(t, Decoded(Held(t).reader.dir, Held(t).cursor),
                 Asking(t, "decode_entry", <<>>))
  /\ OnlyTasks

(***************************************************************************)
(* follow_hardlink: the target's FILENAME, and the entry behind it; where    *)
(* that entry ends is computed from where its contents begin.               *)
(***************************************************************************)
LinkTargets(entry) ==
  UNION {FilenamesAt(offset - entry.link) :
           offset \in {x \in entry.filename_header_offset : entry.link <= x}}

FilesBehind(c, size) ==
  LET start == c.at + c.item.size IN
  {FileEntry(o, {c.at}, start, ContentsOffset(o) + o.entry.size,
             accessor.cache) :
     o \in {x \in NextEntryOf(size, DecoderAt(size, start, <<>>)) :
              start < size /\ x.entry.kind = "File"}}

FollowHardlink(t) ==
  /\ Holds(t, "follow_hardlink", {"entry"})
  /\ LET entry == Held(t) IN
     ReturnOneOf(t, UNION {FilesBehind(c, accessor.size) :
                             c \in {x \in LinkTargets(entry) :
                                      entry.kind = "Hardlink"}},
                 Asking(t, "follow_hardlink", <<>>))
  /\ OnlyTasks

(* The range is one the caller has kept, of an entry it knew.                *)
Reopened(entry) ==
  FileEntries(entry.filename_header_offset, entry.start, entry.end, <<>>,
              accessor.cache)

OpenFileAtRange(t) ==
  /\ Holds(t, "open_file_at_range", {"entry"})
  /\ ReturnOneOf(t, Reopened(Held(t)), Asking(t, "open_file_at_range", <<>>))
  /\ OnlyTasks

(***************************************************************************)
(* contents: content_range, then FileContentsImpl::new, which checks the     *)
(* PAYLOAD header in the payload stream and that the contents lie in it.     *)
(***************************************************************************)
(* Deviation: the contents begin where the reference leads.                  *)
RangeFromHeader(entry) ==
  LET start == IF entry.payload_offset = <<>>
                 THEN entry.offset ELSE entry.payload_offset[1]
  IN [is |-> "contents", source |-> IF PayloadSource THEN "payload" ELSE "archive",
      start |-> start, end |-> start + entry.size]

ContentRange(entry) ==
  LET start == IF entry.payload_offset = <<>>
                 THEN entry.offset
                 ELSE entry.payload_offset[1] + HeaderSize
  IN [is |-> "contents", source |-> IF PayloadSource THEN "payload" ELSE "archive",
      start |-> start, end |-> start + entry.size]

PayloadHeaderFits(entry) ==
  entry.payload_offset # <<>> =>
    \E c \in CellsOf(payload_input, "PAYLOAD") :
      c.at = entry.payload_offset[1] /\ c.item.content = entry.size

FileContents(entry) ==
  {range \in {ContentRange(entry)} :
     /\ entry.kind = "File"
     /\ PayloadSource => /\ PayloadHeaderFits(entry)
                         /\ range.end <= payload_input.len}

Contents(t) ==
  /\ Holds(t, "contents", {"entry"})
  /\ ReturnOneOf(t, FileContents(Held(t)), Asking(t, "contents", <<>>))
  /\ OnlyTasks

-----------------------------------------------------------------------------
(***************************************************************************)
(* Waiting calls.                                                          *)
(***************************************************************************)
Job(t, kind) == accessor.open /\ tasks[t].job.is = kind

(* The tail is read; then the cache is asked.                                *)
ReadTail(t) ==
  /\ Job(t, "tail")
  /\ LET job == tasks[t].job
         dirs == DirectoriesAtEnd(job.end, job.path, job.cache)
         known == UNION {{[dir EXCEPT !.table = table] :
                            table \in Fetch(dir)} : dir \in dirs}
     IN PutOneOf(t,
          IF known # {} THEN {Opens(tasks[t], dir, job.rest) : dir \in known}
          ELSE {AwaitsTable(tasks[t], dir, job.rest) : dir \in dirs},
          tasks[t])
  /\ OnlyTasks

(* Deviation: the table is inserted under the offset of its end.             *)
InsertUnderEnd(dir) ==
  \/ UNCHANGED stored
  \/ stored' =
       [c \in Caches |->
          IF c \in dir.cache
            THEN {e \in stored[c] : e.key # EndOffset(dir)}
                   \cup {[key |-> EndOffset(dir), table |-> dir.table]}
            ELSE stored[c]]

(* It is up to the cache whether it stores what it is given.                 *)
Insert(dir) ==
  \/ UNCHANGED stored
  \/ stored' =
       [c \in Caches |->
          IF c \in dir.cache
            THEN {e \in stored[c] : e.key # dir.goodbye_ofs}
                   \cup {[key |-> dir.goodbye_ofs, table |-> dir.table]}
            ELSE stored[c]]

(* The cache had no such table: it is read, and the cache is told.           *)
LoadTable(t) ==
  /\ Job(t, "table")
  /\ LET job == tasks[t].job
         loaded == {[job.dir EXCEPT !.table = table] :
                      table \in Tables(job.dir)}
     IN \/ \E dir \in loaded :
             Put(t, Opens(tasks[t], dir, job.rest)) /\ Insert(dir)
        \/ /\ loaded = {}
           /\ Put(t, ReturnsError(tasks[t]))
           /\ UNCHANGED stored
  /\ UNCHANGED <<input, payload_input, accessor>>

(* Deviation: a row with another name does not count as skipped.             *)
ProbedSameRow(task, cursor) ==
  IF cursor.file_name # task.job.rest[1] THEN {task}
  ELSE {Finds(task, entry, Tail(task.job.rest)) :
          entry \in Decoded(task.job.dir, cursor)}

(* A row of the hash looked for was read: is it the name's, too?             *)
Probed(task, cursor) ==
  IF cursor.file_name # task.job.rest[1]
    THEN {Awaits(task, [task.job EXCEPT !.dup = @ + 1])}
    ELSE {Finds(task, entry, Tail(task.job.rest)) :
            entry \in Decoded(task.job.dir, cursor)}

(* One turn of the loop in lookup_component.                                 *)
Probe(t) ==
  /\ Job(t, "probe")
  /\ LET job == tasks[t].job
         index == HashPosition(job.dir, HashOf[job.rest[1]], job.first, job.dup)
     IN IF index = None
          THEN Put(t, ReturnsNone(tasks[t]))
          ELSE PutOneOf(t, UNION {Probed(tasks[t], cursor) :
                                    cursor \in Cursors(job.dir, index)},
                        tasks[t])
  /\ OnlyTasks

(* The caller drops the future, or a read fails.                             *)
Interrupt(t) ==
  /\ tasks[t].job # NoJob
  /\ Put(t, [IdleTask EXCEPT !.object = tasks[t].object])
  /\ OnlyTasks

(* A cache may forget whatever it likes.                                     *)
Evict(c, e) ==
  /\ stored' = [stored EXCEPT ![c] = @ \ {e}]
  /\ UNCHANGED <<input, payload_input, accessor, tasks>>

-----------------------------------------------------------------------------
AccessorInit ==
  /\ accessor = NoAccessor
  /\ stored = [c \in Caches |-> {}]
  /\ tasks = [t \in Tasks |-> IdleTask]

AccessorCalls(t) ==
  \/ OpenRoot(t)
  \/ OpenDirAtEnd(t)
  \/ EnterDirectory(t)
  \/ \E path \in Paths : Lookup(t, path)
  \/ LookupSelf(t)
  \/ ReadDir(t)
  \/ \E n \in SkipCounts : SkipEntries(t, n)
  \/ NextEntry(t)
  \/ DecodeEntry(t)
  \/ FollowHardlink(t)
  \/ OpenFileAtRange(t)
  \/ Contents(t)

Goes(t) == ReadTail(t) \/ LoadTable(t) \/ Probe(t)

AccessorNext ==
  \/ NewAccessor(input.len)
  \/ \E cache \in {{}} \cup {{c} : c \in Caches} : SetGoodbyeTableCache(cache)
  \/ \E t \in Tasks : AccessorCalls(t)
  \/ \E t \in Tasks : Goes(t)
  \/ \E t \in Tasks : Interrupt(t)
  \/ \E c \in Caches : \E e \in stored[c] : Evict(c, e)
=============================================================================
