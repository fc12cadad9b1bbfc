---------------------------- MODULE RandomAccess ----------------------------
(***************************************************************************)
(* An archive is written by the encoder, kept if its finish() said Ok, and  *)
(* then read by tasks that share an accessor.                              *)
(***************************************************************************)
EXTENDS PxarEncoderProperties, PxarAccessor

CONSTANT NameUses   \* bound: uses of one name in an archive that is read

ASSUME NameUsesAssumption == NameUses \in Nat

randomAccessVars ==
  <<archive, payload, state, file, phase, result, links, promised, faults,
    input, payload_input, accessor, stored, tasks>>

RandomAccessInit ==
  /\ Init
  /\ input = EmptyStream
  /\ payload_input = EmptyStream
  /\ AccessorInit

Encode == Next /\ UNCHANGED accessorVars

Uses(name) == Cardinality({c \in Filenames : c.item.name = name})

Keep ==
  /\ phase = "closed"
  /\ result = "ok" /\ promised = <<>> /\ faults = {}
  /\ input = EmptyStream
  /\ \A name \in Names : Uses(name) <= NameUses
  /\ input' = archive
  /\ payload_input' = IF PayloadSource THEN payload ELSE EmptyStream
  /\ UNCHANGED <<accessor, stored, tasks>>
  /\ UNCHANGED vars

Access == input # EmptyStream /\ AccessorNext /\ UNCHANGED vars

RandomAccessNext == Encode \/ Keep \/ Access

(* The caller of a call that waits polls its future to the end, or drops it. *)
RandomAccessSpec ==
  /\ RandomAccessInit
  /\ [][RandomAccessNext]_randomAccessVars
  /\ \A t \in Tasks :
       WF_randomAccessVars(input # EmptyStream /\ Goes(t) /\ UNCHANGED vars)

-----------------------------------------------------------------------------
(***************************************************************************)
(* The directories of the archive, by the GOODBYE items they end with.       *)
(***************************************************************************)
Goodbyes == CellsOf(archive, "GOODBYE")

DirStart(g) == g.at - g.item.tail.offset
DirEnd(g) == g.at + g.item.size

Within(c, g) == DirStart(g) <= c.at /\ c.at < g.at

(* What is in a directory and in none of its subdirectories.                 *)
Members(g) ==
  {c \in Filenames :
     /\ Within(c, g)
     /\ \A x \in Goodbyes : Within(c, x) => ~(Within(x, g) /\ x # g)}

DirName(g) == {c \in Filenames : c.at + c.item.size = DirStart(g)}

DirPath(g) == IF DirName(g) = {} THEN <<>>
              ELSE PathOf(CHOOSE c \in DirName(g) : TRUE)

IsSuffix(s, path) ==
  Len(s) <= Len(path)
    /\ s = SubSeq(path, Len(path) - Len(s) + 1, Len(path))

(* No name is there twice: the encoder leaves that to its caller.            *)
DistinctNames ==
  \A c, x \in Filenames : PathOf(c) = PathOf(x) => c = x

(* A lookup can tell two names of equal hash apart, but not more.            *)
FewCollisions ==
  \A g \in Goodbyes : \A c \in Members(g) :
    Cardinality({x \in Members(g) :
                   HashOf[x.item.name] = HashOf[c.item.name]}) <= 2

-----------------------------------------------------------------------------
(***************************************************************************)
(* Properties.                                                             *)
(***************************************************************************)
Returned(t, call) ==
  tasks[t].job = NoJob /\ tasks[t].answer = "ok" /\ tasks[t].asked.call = call

(* Whatever was read, inserted and evicted by whomever: a cache holds, under *)
(* the offset of a GOODBYE item, the rows of that item.                     *)
CachedTablesAreTables ==
  \A c \in Caches : \A e \in stored[c] :
    \E g \in CellsOf(input, "GOODBYE") : g.at = e.key /\ g.item.rows = e.table

(* The directories a task holds, lists or searches.                          *)
OpenDirectories(t) ==
  (IF Held(t).is = "directory" THEN {Held(t)} ELSE {})
    \cup (IF Held(t).is = "read_dir" THEN {Held(t).dir} ELSE {})
    \cup (IF tasks[t].job.is = "probe" THEN {tasks[t].job.dir} ELSE {})

DirectoryIs(dir, g) ==
  /\ dir.goodbye_ofs = g.at
  /\ dir.entry_ofs = DirStart(g)
  /\ EndOffset(dir) = DirEnd(g)
  /\ dir.table = g.item.rows
  /\ IsSuffix(dir.path, DirPath(g))

(* An open directory has extents, table and path of one in the archive,      *)
(* whether its table was read or came from a cache; the root is the last.    *)
DirectoriesAreTheirs ==
  \A t \in Tasks :
    /\ \A dir \in OpenDirectories(t) : \E g \in Goodbyes : DirectoryIs(dir, g)
    /\ Returned(t, "open_root") => EndOffset(Held(t)) = archive.len

(* What follows the FILENAME of an entry: its end, if it is no directory.     *)
EntryEnds(c) ==
  {x.at : x \in {y \in archive.cells :
                   /\ y.item.htype \in {"FILENAME", "GOODBYE"}
                   /\ y.at > c.at
                   /\ \A z \in archive.cells :
                        z.item.htype \in {"FILENAME", "GOODBYE"} /\ z.at > c.at
                          => z.at >= y.at}}

(* The item that holds, or refers to, the contents of an entry.              *)
ContentItems(c) ==
  {x \in archive.cells :
     /\ x.item.htype \in {"PAYLOAD", "PAYLOAD_REF"}
     /\ x.at > c.at
     /\ \A end \in EntryEnds(c) : x.at < end}

NamedEntryIs(entry, c) ==
  /\ entry.filename_header_offset = {c.at}
  /\ entry.kind = KindOf(c)
  /\ entry.start = c.at + c.item.size
  /\ IsSuffix(entry.path, PathOf(c))
  /\ entry.kind = "Directory" =>
       \E g \in Goodbyes : entry.start = DirStart(g) /\ entry.end = DirEnd(g)
  /\ entry.kind # "Directory" /\ ~(Split /\ entry.kind = "File") =>
       entry.end \in EntryEnds(c)
  /\ entry.kind = "File" =>
       \E x \in ContentItems(c) :
         /\ entry.offset = x.at + HeaderSize
         /\ entry.size = x.item.content
         /\ entry.payload_offset =
              IF x.item.htype = "PAYLOAD" THEN <<>> ELSE <<x.item.offset>>

(* An entry, however a task came by it (a lookup, a listing, a hardlink, a    *)
(* kept range), is one of the archive: the name it belongs to, its kind, its *)
(* extent and where its contents begin all fit together.                     *)
EntriesAreTheirs ==
  \A t \in Tasks :
    LET entry == Held(t) IN
    entry.is = "entry" =>
      IF entry.filename_header_offset = {}
        THEN /\ entry.kind = "Directory"
             /\ \E g \in Goodbyes :
                  entry.start = DirStart(g) /\ entry.end = DirEnd(g)
        ELSE \E c \in Filenames : NamedEntryIs(entry, c)

(* The names a path leads over, from the directory it starts in.             *)
PathNames(path) ==
  IF path # <<>> /\ path[1] = "/" THEN Tail(path) ELSE path

(* What lies under a path, in the directory a lookup was called on.          *)
Under(dir, names) ==
  {c \in Filenames :
     \E g \in Goodbyes : /\ g.at = dir.goodbye_ofs
                         /\ Within(c, g)
                         /\ PathOf(c) = DirPath(g) \o names}

(* A lookup gives the entry under its path if there is one, says None if      *)
(* there is none, and fails only if the path leads over what is no directory *)
(* or leaves the archive.                                                   *)
LookupsAreRight ==
  \A t \in Tasks :
    LET asked == tasks[t].asked
        answer == tasks[t].answer
        names == PathNames(asked.path)
    IN tasks[t].job = NoJob /\ asked.call = "lookup" /\ DistinctNames =>
         /\ answer = "ok" =>
              /\ Held(t).path = asked.receiver.path \o names
              /\ names = <<>> => Held(t).end = EndOffset(asked.receiver)
              /\ names # <<>> =>
                   \E c \in Under(asked.receiver, names) :
                     Held(t).filename_header_offset = {c.at}
         /\ answer = "not_found" /\ FewCollisions =>
              asked.path = <<>> \/ Under(asked.receiver, names) = {}
         /\ answer = "error" =>
              \E k \in 1..Len(names) :
                \/ names[k] = ".."
                \/ \E c \in Under(asked.receiver, SubSeq(names, 1, k - 1)) :
                     KindOf(c) # "Directory"

(* Each call on an entry fails for entries of the wrong kind only; the calls *)
(* on directories never do.                                                 *)
ErrorsHaveReasons ==
  \A t \in Tasks :
    LET asked == tasks[t].asked IN
    tasks[t].answer = "error" =>
      /\ asked.call \in {"lookup", "enter_directory", "follow_hardlink",
                         "contents"}
      /\ asked.call = "enter_directory" => asked.receiver.kind # "Directory"
      /\ asked.call = "follow_hardlink" => asked.receiver.kind # "Hardlink"
      /\ asked.call = "contents" => asked.receiver.kind # "File"

Listed(t) ==
  IF Held(t).is \in {"read_dir", "dir_entry"} THEN {Reader(Held(t))} ELSE {}

(* A listing gives each entry of its directory once, under its own name, and *)
(* all of them if nothing was skipped.                                       *)
ListingsAreComplete ==
  \A t \in Tasks : \A reader \in Listed(t) :
    \E g \in Goodbyes :
      LET members == {c.at : c \in Members(g)} IN
      /\ g.at = reader.dir.goodbye_ofs
      /\ reader.listed \subseteq members
      /\ Cardinality(reader.listed) + reader.skipped = reader.at
      /\ reader.at = Cardinality(members) /\ reader.skipped = 0 =>
           reader.listed = members
      /\ tasks[t].answer = "not_found" => reader.at = Cardinality(members)
      /\ Held(t).is = "dir_entry" =>
           \E c \in Members(g) :
             /\ Held(t).cursor.filename_header_offset = c.at
             /\ Held(t).cursor.file_name = c.item.name

(* Contents, opened for an entry found in any way (also by following a       *)
(* hardlink), are those of the file the entry belongs to: what follows the   *)
(* PAYLOAD header, all of it and nothing else.                               *)
OpenedContentsAreTheFiles ==
  \A t \in Tasks :
    LET opened == Held(t)
        name == tasks[t].asked.receiver.filename_header_offset
        stream == IF PayloadSource THEN payload ELSE archive
    IN Returned(t, "contents") =>
         \E c \in Filenames, p \in CellsOf(stream, "PAYLOAD") :
           /\ name = {c.at}
           /\ KindOf(c) = "File"
           /\ IF PayloadSource
                THEN \E x \in ContentItems(c) : x.item.offset = p.at
                ELSE p \in ContentItems(c)
           /\ opened.start = p.at + HeaderSize
           /\ opened.end = opened.start + p.item.content
           /\ ContentComplete(stream, p)

(* Following a hardlink leads to the file it was made for: of all files the   *)
(* caller got LinkOffsets of, the one whose path is in the HARDLINK item.    *)
HardlinksLeadToFiles ==
  \A t \in Tasks :
    Returned(t, "follow_hardlink") =>
      /\ Held(t).kind = "File"
      /\ \E own \in Filenames, link \in CellsOf(archive, "HARDLINK") :
           /\ own.at \in tasks[t].asked.receiver.filename_header_offset
           /\ link.at = own.at + own.item.size
           /\ Held(t).filename_header_offset = {link.item.target}
           /\ link.item.target \in links

(* The range of an entry, kept and given to open_file_at_range(), yields the *)
(* entry again.                                                             *)
RangesReopen ==
  \A t \in Tasks :
    LET entry == Held(t) IN
    entry.is = "entry" =>
      Reopened(entry) = {[entry EXCEPT !.path = <<>>,
                                       !.cache = accessor.cache]}

(* Every call returns: the loop over rows of equal hash and the descent along *)
(* a path come to an end.                                                   *)
CallsReturn == \A t \in Tasks : tasks[t].job # NoJob ~> tasks[t].job = NoJob
=============================================================================
