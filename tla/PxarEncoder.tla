----------------------------- MODULE PxarEncoder ----------------------------
(***************************************************************************)
(* The encoder state machine: EncoderImpl and FileImpl.                    *)
(*                                                                         *)
(* The encoder writes one archive stream and, in the split variant, a      *)
(* second stream for the contents of regular files.  It keeps a stack of   *)
(* EncoderState, one per directory that is still open, and tracks its      *)
(* position in both streams itself, because the outputs cannot be asked.   *)
(* Whatever the archive says about offsets comes from these counters.      *)
(*                                                                         *)
(* One action is one call of the public interface.  A call that the code   *)
(* rejects before it writes or changes anything is not a step.  A call     *)
(* that fails later (the output returns an error, the caller drops the     *)
(* future at an await, check_header_size rejects an oversized item) leaves *)
(* a prefix of its output behind: these are the "Fails" alternatives.      *)
(***************************************************************************)
EXTENDS PxarFormat

CONSTANTS
  Split,       \* PxarVariant::Split: file contents go to a payload stream
  TokioIo,     \* feature "tokio-io": callers write through AsyncWrite
  Preludes,    \* what the caller passes as prelude: <<>> or <<its length>>
  Metas,       \* the metadata callers use
  FileSizes,   \* the sizes of regular files
  WriteSizes,  \* how many bytes one write to a file may put out
  TargetLens,  \* the lengths of symlink and hardlink targets
  Layout,      \* binary_tree_array::copy: Layout[n][dest] = src, 1-based
  MaxItems,    \* bound: entries in one directory
  MaxDepth,    \* bound: directories open at a time
  MaxNames,    \* bound: FILENAME items in the archive
  TornBytes,   \* how many bytes of an item a failing write may get out
  FaultKinds   \* the failures explored; each happens at most once

ASSUME EncoderAssumption ==
  /\ Split \in BOOLEAN
  /\ TokioIo \in BOOLEAN
  /\ Preludes \subseteq Seq(Nat)
  /\ Metas \subseteq Metadata
  /\ FileSizes \subseteq Nat
  /\ WriteSizes \subseteq Nat \ {0}
  /\ TargetLens \subseteq Nat
  /\ MaxItems \in Nat
  /\ MaxDepth \in Nat
  /\ MaxNames \in Nat
  /\ TornBytes \subseteq Nat
  /\ FaultKinds \subseteq {"call", "write", "finish", "close"}

(* binary_tree_array::copy visits every source and every destination once.  *)
ASSUME LayoutAssumption ==
  \A n \in 0..MaxItems :
    /\ Layout[n] \in [1..n -> 1..n]
    /\ \A i, j \in 1..n : Layout[n][i] = Layout[n][j] => i = j

VARIABLES
  archive,   \* what reached the archive stream
  payload,   \* what reached the payload stream (split variant)
  state,     \* EncoderImpl.state, the stack of EncoderState; last is current
  file,      \* the FileImpl borrowed from the encoder, or NoFile
  phase,     \* "new", "open", or "closed": closed or dropped
  result,    \* what finish() of the root directory returned
  links,     \* the LinkOffsets handed to the caller
  promised,  \* payload the caller has referenced and has yet to inject
  faults     \* the failures that happened

vars == <<archive, payload, state, file, phase, result, links, promised,
          faults>>

NoFile ==
  [open |-> FALSE, remaining_size |-> 0,
   item |-> [hash |-> 0, offset |-> 0, size |-> 0]]

(* EncoderState.  The root has no FILENAME: its file_offset is None in the  *)
(* code and never read, here 0.  IncompleteDirectory is never constructed.  *)
EncodeErrors == {"none", "IncompleteFile"}

EncoderState(entry_offset, files_offset, file_offset, file_hash, wp, pp) ==
  [items |-> <<>>, encode_error |-> "none", entry_offset |-> entry_offset,
   files_offset |-> files_offset, file_offset |-> file_offset,
   file_hash |-> file_hash, write_position |-> wp,
   payload_write_position |-> pp]

Depth == Len(state)
Top == state[Depth]

(* Changes to one EncoderState.                                             *)
At(st, wp) == [st EXCEPT !.write_position = wp]
PayloadAt(st, pp) == [st EXCEPT !.payload_write_position = pp]
Listing(st, item) == [st EXCEPT !.items = Append(@, item)]

SetTop(st) == state' = [state EXCEPT ![Depth] = st]

-----------------------------------------------------------------------------
(***************************************************************************)
(* Writing.  A writer pairs an output with the position tracked for it, as *)
(* the arguments of seq_write and the functions above it do.               *)
(***************************************************************************)
ArchiveWriter == [out |-> archive, position |-> Top.write_position]
PayloadWriter == [out |-> payload, position |-> Top.payload_write_position]

SeqWrite(w, item) ==
  [out |-> Append1(w.out, item), position |-> w.position + item.size]

(* Content bytes; writing none leaves no trace.                             *)
SeqWriteData(w, k) == IF k = 0 THEN w ELSE SeqWrite(w, Data(k))

StartFile(n, meta) ==
  SeqWrite(SeqWrite(ArchiveWriter, Filename(n)), Entry(meta))

(* Where a call that would turn w into full may stop.                       *)
CutPoints(w, full) ==
  {c.at + b : c \in full.out.cells \ w.out.cells, b \in TornBytes}
    \cap (w.out.len .. full.out.len - 1)

Interrupted(w, full) ==
  {[out |-> Prefix(full.out, n), position |-> w.position + (n - w.out.len)] :
     n \in CutPoints(w, full)}

MayFail(kind) == kind \in FaultKinds \ faults

Fail(kind) == faults' = faults \cup {kind}

-----------------------------------------------------------------------------
(***************************************************************************)
(* check() passes, and no FileImpl holds the encoder's mutable borrow.      *)
(***************************************************************************)
Usable ==
  /\ phase = "open"
  /\ state # <<>>
  /\ ~file.open

(* Deviation: an error recorded for the directory does not stop the call.   *)
CheckWithoutError == Usable

Check == Usable /\ Top.encode_error = "none"

Room ==
  /\ Len(Top.items) < MaxItems
  /\ Cardinality(CellsOf(archive, "FILENAME")) < MaxNames

(***************************************************************************)
(* EncoderImpl::new.  Only the split variant writes a version, and only a  *)
(* versioned archive takes a prelude.  The root's entry_offset keeps its    *)
(* default 0.                                                              *)
(***************************************************************************)
New(meta, prelude) ==
  /\ phase = "new"
  /\ meta.kind = "dir"
  /\ prelude # <<>> => Split
  /\ LET start == [out |-> EmptyStream, position |-> 0]
         p  == IF Split
                 THEN SeqWrite(start, Marker("PAYLOAD_START_MARKER"))
                 ELSE start
         w1 == IF Split THEN SeqWrite(start, Version) ELSE start
         w2 == IF prelude = <<>>
                 THEN w1
                 ELSE SeqWrite(w1, PreludeItem(prelude[1]))
         w3 == SeqWrite(w2, Entry(meta))
     IN /\ archive' = w3.out
        /\ payload' = p.out
        /\ state' = <<EncoderState(0, w3.position, 0, 0, w3.position,
                                   p.position)>>
  /\ phase' = "open"
  /\ UNCHANGED <<file, result, links, promised, faults>>

-----------------------------------------------------------------------------
(***************************************************************************)
(* create_file: FILENAME and metadata, then the PAYLOAD header, to the      *)
(* archive or, in the split variant, to the payload stream with a          *)
(* PAYLOAD_REF to it in the archive.  Archive, Payload are the writers      *)
(* after all of it.                                                        *)
(***************************************************************************)
(* Deviation: the reference leads behind the PAYLOAD header.                *)
FileArchiveBehindHeader(n, meta, size) ==
  SeqWrite(StartFile(n, meta),
           IF Split
             THEN PayloadRef(Top.payload_write_position + HeaderSize, size)
             ELSE Payload(size))

FileArchive(n, meta, size) ==
  SeqWrite(StartFile(n, meta),
           IF Split THEN PayloadRef(Top.payload_write_position, size)
                    ELSE Payload(size))

FilePayload(size) ==
  IF Split THEN SeqWrite(PayloadWriter, Payload(size)) ELSE PayloadWriter

(* The goodbye item counts the content even when it is not in the archive.  *)
FileItem(n, meta, size) ==
  [hash   |-> HashOf[n],
   offset |-> Top.write_position,
   size   |-> size + (FileArchive(n, meta, size).position
                        - Top.write_position)]

CanCreateFile == Check /\ Room /\ promised = <<>>

CreateFile(n, meta, size) ==
  /\ CanCreateFile
  /\ LET a == FileArchive(n, meta, size)
         p == FilePayload(size)
     IN /\ archive' = a.out
        /\ payload' = p.out
        /\ SetTop(PayloadAt(At(Top, a.position), p.position))
  /\ file' = [open |-> TRUE, remaining_size |-> size,
              item |-> FileItem(n, meta, size)]
  /\ links' = links \cup {Top.write_position}
  /\ UNCHANGED <<phase, result, promised, faults>>

(* In order: the name and metadata, the PAYLOAD header in the payload       *)
(* stream (split), the last item in the archive.                            *)
CreateFileFails(n, meta, size) ==
  /\ CanCreateFile
  /\ MayFail("call")
  /\ LET named == StartFile(n, meta)
         a == FileArchive(n, meta, size)
         p == FilePayload(size)
     IN \E x \in (Interrupted(ArchiveWriter, named) \X {PayloadWriter})
                   \cup ({named} \X Interrupted(PayloadWriter, p))
                   \cup (Interrupted(named, a) \X {p}) :
          /\ archive' = x[1].out
          /\ payload' = x[2].out
          /\ SetTop(PayloadAt(At(Top, x[1].position), x[2].position))
  /\ Fail("call")
  /\ UNCHANGED <<file, phase, result, links, promised>>

-----------------------------------------------------------------------------
(***************************************************************************)
(* FileImpl.  A write goes to the payload stream if there is one.          *)
(***************************************************************************)
PutToArchive(k) ==
  LET w == SeqWriteData(ArchiveWriter, k) IN
  /\ archive' = w.out
  /\ SetTop(At(Top, w.position))
  /\ UNCHANGED payload

PutToPayload(k) ==
  LET w == SeqWriteData(PayloadWriter, k) IN
  /\ payload' = w.out
  /\ SetTop(PayloadAt(Top, w.position))
  /\ UNCHANGED archive

PutContent(k) == IF Split THEN PutToPayload(k) ELSE PutToArchive(k)

(* Deviation: write() without check_remaining.                              *)
WriteUnchecked(k) ==
  /\ file.open
  /\ PutContent(k)
  /\ file' = [file EXCEPT !.remaining_size = @ - k]
  /\ UNCHANGED <<phase, result, links, promised, faults>>

(* write(), which may be short, or a whole write_all(); check_remaining     *)
(* rejects what is more than the file has left.                             *)
Write(k) ==
  /\ file.open
  /\ k <= file.remaining_size
  /\ PutContent(k)
  /\ file' = [file EXCEPT !.remaining_size = @ - k]
  /\ UNCHANGED <<phase, result, links, promised, faults>>

(* write_all() that fails after k bytes: remaining_size is only reduced     *)
(* once everything is written.                                              *)
WriteAllFails(k) ==
  /\ file.open
  /\ MayFail("write")
  /\ k < file.remaining_size
  /\ PutContent(k)
  /\ Fail("write")
  /\ UNCHANGED <<file, phase, result, links, promised>>

(* tokio's AsyncWrite: poll_write() knows only the archive.                 *)
PollWrite(k) ==
  /\ TokioIo
  /\ file.open
  /\ k <= file.remaining_size
  /\ PutToArchive(k)
  /\ file' = [file EXCEPT !.remaining_size = @ - k]
  /\ UNCHANGED <<phase, result, links, promised, faults>>

(* merge_error keeps the first error.                                       *)
MergeError(st, error) ==
  [st EXCEPT !.encode_error = IF @ = "none" THEN error ELSE @]

(* Deviations checked against DropInto: the error is not recorded; the item *)
(* of an incomplete file is not.                                            *)
DropIntoWithoutError(st, item, remaining) == Listing(st, item)

DropIntoWithoutItem(st, item, remaining) ==
  IF remaining # 0
    THEN MergeError(st, "IncompleteFile")
    ELSE Listing(st, item)

(* Drop of FileImpl, given the directory and what was left to write.        *)
DropInto(st, item, remaining) ==
  Listing(IF remaining # 0 THEN MergeError(st, "IncompleteFile") ELSE st,
          item)

DropFile ==
  /\ file.open
  /\ SetTop(DropInto(Top, file.item, file.remaining_size))
  /\ file' = NoFile
  /\ UNCHANGED <<archive, payload, phase, result, links, promised, faults>>

(***************************************************************************)
(* add_file: create_file, copy the reader's content, drop the file.  The    *)
(* content may end early, after "got" bytes: that is not an error of the   *)
(* call, only of the directory.  It may be too long, or the reader or the  *)
(* output may fail: then the caller gets no LinkOffset, but the file is     *)
(* dropped all the same.                                                   *)
(***************************************************************************)
AddFile(n, meta, size, got, returned) ==
  /\ CanCreateFile
  /\ got \in 0..size
  /\ LET a == FileArchive(n, meta, size)
         p == FilePayload(size)
         a2 == IF Split THEN a ELSE SeqWriteData(a, got)
         p2 == IF Split THEN SeqWriteData(p, got) ELSE p
         written == PayloadAt(At(Top, a2.position), p2.position)
     IN /\ archive' = a2.out
        /\ payload' = p2.out
        /\ SetTop(DropInto(written, FileItem(n, meta, size), size - got))
  /\ links' = IF returned THEN links \cup {Top.write_position} ELSE links
  /\ UNCHANGED <<file, phase, result, promised, faults>>

-----------------------------------------------------------------------------
(***************************************************************************)
(* add_file_entry, the shared end of the calls below: everything to the    *)
(* archive, then the goodbye item of the new entry.                        *)
(***************************************************************************)
EntryAddedWithoutName(n, full) ==   \* Deviation: FILENAME is not counted
  /\ archive' = full.out
  /\ SetTop(Listing(At(Top, full.position),
                    [hash   |-> HashOf[n],
                     offset |-> Top.write_position,
                     size   |-> full.position - Top.write_position
                                  - Filename(n).size]))
  /\ UNCHANGED faults

EntryAdded(n, full) ==
  /\ archive' = full.out
  /\ SetTop(Listing(At(Top, full.position),
                    [hash   |-> HashOf[n],
                     offset |-> Top.write_position,
                     size   |-> full.position - Top.write_position]))
  /\ UNCHANGED faults

CallFails(full) ==
  /\ MayFail("call")
  /\ \E cut \in Interrupted(ArchiveWriter, full) :
       /\ archive' = cut.out
       /\ SetTop(At(Top, cut.position))
  /\ Fail("call")

AddFileEntry(n, full) ==
  /\ Check /\ Room
  /\ EntryAdded(n, full) \/ CallFails(full)
  /\ UNCHANGED <<payload, file, phase, result>>

(***************************************************************************)
(* add_payload_ref: the content is in the payload stream already or will be *)
(* injected by the caller, behind the encoder's back, before the next      *)
(* content is written.  The caller in the model keeps that contract: one    *)
(* reference to the current position at a time, followed by advance().      *)
(* It may also try to refer to contents it knows from earlier files.        *)
(***************************************************************************)
KnownPayloads ==
  {[offset |-> c.at, content |-> c.item.content] :
     c \in CellsOf(payload, "PAYLOAD")}

NextPayloads ==
  {[offset |-> Top.payload_write_position, content |-> size] :
     size \in FileSizes}

(* Deviation: any offset is accepted.                                       *)
AddPayloadRefUnordered(n, meta, ref) ==
  /\ Split
  /\ Check /\ Room
  /\ promised = <<>>
  /\ EntryAdded(n, SeqWrite(StartFile(n, meta),
                            PayloadRef(ref.offset, ref.content)))
  /\ promised' = IF ref \in NextPayloads THEN <<ref>> ELSE promised
  /\ UNCHANGED <<payload, file, phase, result, links>>

AddPayloadRef(n, meta, ref) ==
  /\ Split
  /\ Check /\ Room
  /\ promised = <<>>
  /\ ref.offset >= Top.payload_write_position
  /\ LET full == SeqWrite(StartFile(n, meta),
                          PayloadRef(ref.offset, ref.content))
     IN \/ /\ EntryAdded(n, full)
           /\ links' = links \cup {Top.write_position}
           /\ promised' = <<ref>>
        \/ /\ CallFails(full)
           /\ UNCHANGED <<links, promised>>
  /\ UNCHANGED <<payload, file, phase, result>>

(* advance(): the caller has injected the promised PAYLOAD and its content. *)
Advance ==
  /\ Usable
  /\ promised # <<>>
  /\ LET w == SeqWriteData(SeqWrite(PayloadWriter,
                                    Payload(promised[1].content)),
                           promised[1].content)
     IN /\ payload' = w.out
        /\ SetTop(PayloadAt(Top, w.position))
  /\ promised' = <<>>
  /\ UNCHANGED <<archive, file, phase, result, links, faults>>

AddSymlink(n, meta, len) ==
  /\ AddFileEntry(n, SeqWrite(StartFile(n, meta), Symlink(len)))
  /\ UNCHANGED <<links, promised>>

(* Deviation: the offset is counted from the HARDLINK item.                 *)
AddHardlinkFromItem(n, len, target) ==
  /\ Usable
  /\ Top.write_position > target
  /\ LET named == SeqWrite(ArchiveWriter, Filename(n)) IN
     AddFileEntry(n, SeqWrite(named, Hardlink(named.position - target, target,
                                              len)))
  /\ UNCHANGED <<links, promised>>

(* Deviation: the offset leads to the file added last, whatever was asked.   *)
AddHardlinkToNewest(n, len, target) ==
  /\ Usable
  /\ Top.write_position > target
  /\ \E newest \in links :
       /\ \A l \in links : l <= newest
       /\ AddFileEntry(n, SeqWrite(SeqWrite(ArchiveWriter, Filename(n)),
                                   Hardlink(Top.write_position - newest,
                                            target, len)))
  /\ UNCHANGED <<links, promised>>

(* A hardlink has no metadata and may only refer to what came before it.  The *)
(* caller passes the path of a file together with the LinkOffset of it.      *)
AddHardlink(n, len, target) ==
  /\ Usable
  /\ Top.write_position > target
  /\ AddFileEntry(n, SeqWrite(SeqWrite(ArchiveWriter, Filename(n)),
                              Hardlink(Top.write_position - target, target,
                                       len)))
  /\ UNCHANGED <<links, promised>>

AddDevice(n, meta) ==
  /\ meta.kind = "device"
  /\ AddFileEntry(n, SeqWrite(StartFile(n, meta), Device))
  /\ UNCHANGED <<links, promised>>

AddFifo(n, meta) ==
  /\ meta.kind = "fifo"
  /\ AddFileEntry(n, StartFile(n, meta))
  /\ UNCHANGED <<links, promised>>

AddSocket(n, meta) ==
  /\ meta.kind = "socket"
  /\ AddFileEntry(n, StartFile(n, meta))
  /\ UNCHANGED <<links, promised>>

-----------------------------------------------------------------------------
(***************************************************************************)
(* create_directory: the new directory writes on from the positions of its *)
(* parent, which learns of them again when finish() pops the directory.     *)
(***************************************************************************)
(* Deviation: the write position was read before anything was written.      *)
SubdirectoryBeforeEntry(n, named, full) ==
  EncoderState(named.position, full.position, Top.write_position, HashOf[n],
               Top.write_position, Top.payload_write_position)

(* Deviation: the new directory keeps the entry_offset of its parent.        *)
SubdirectoryAtParentEntry(n, named, full) ==
  EncoderState(Top.entry_offset, full.position, Top.write_position, HashOf[n],
               full.position, Top.payload_write_position)

(* The new directory, "named" the writer after its FILENAME.                *)
Subdirectory(n, named, full) ==
  EncoderState(named.position, full.position, Top.write_position, HashOf[n],
               full.position, Top.payload_write_position)

CreateDirectory(n, meta) ==
  /\ Check /\ Room
  /\ Depth < MaxDepth
  /\ meta.kind = "dir"
  /\ LET named == SeqWrite(ArchiveWriter, Filename(n))
         full  == SeqWrite(named, Entry(meta))
     IN \/ /\ archive' = full.out
           /\ state' = Append([state EXCEPT ![Depth] = At(Top, full.position)],
                              Subdirectory(n, named, full))
           /\ UNCHANGED faults
        \/ CallFails(full)
  /\ UNCHANGED <<payload, file, phase, result, links, promised>>

(***************************************************************************)
(* finish_goodbye_table: the items sorted by hash, in any order among equal *)
(* hashes, laid out as a search tree, with offsets counted backwards from  *)
(* the GOODBYE item.                                                       *)
(***************************************************************************)
(* Deviation: the rows are in descending order.                             *)
SortedOrdersDescending(items) ==
  {p \in [1..Len(items) -> 1..Len(items)] :
     \A i, j \in 1..Len(items) :
       i < j => p[i] # p[j] /\ items[p[i]].hash >= items[p[j]].hash}

SortedOrders(items) ==
  {p \in [1..Len(items) -> 1..Len(items)] :
     \A i, j \in 1..Len(items) :
       i < j => p[i] # p[j] /\ items[p[i]].hash <= items[p[j]].hash}

(* Deviation: offsets from the start of the archive.                        *)
GoodbyeRowsAbsolute(st, p) ==
  [dest \in 1..Len(st.items) |->
     st.items[p[Layout[Len(st.items)][dest]]]]

GoodbyeRows(st, p) ==
  [dest \in 1..Len(st.items) |->
     LET item == st.items[p[Layout[Len(st.items)][dest]]]
     IN [item EXCEPT !.offset = st.write_position - @]]

GoodbyeTail(st) ==
  [offset |-> st.write_position - st.entry_offset,
   size   |-> GoodbyeSize(Len(st.items))]

GoodbyeTable(st, p) == Goodbye(GoodbyeRows(st, p), GoodbyeTail(st))

(* The item by which the parent lists the directory.                        *)
DirectoryItem(st, position) ==
  [hash   |-> st.file_hash,
   offset |-> st.file_offset,
   size   |-> position - st.file_offset]

(* Deviation: the parent writes on from its old position.                   *)
PopIntoOldPosition(parent, st, position) ==
  MergeError(Listing(PayloadAt(parent, st.payload_write_position),
                     DirectoryItem(st, position)),
             st.encode_error)

(* The parent takes over the positions, the item and the error.             *)
PopInto(parent, st, position) ==
  MergeError(Listing(PayloadAt(At(parent, position),
                               st.payload_write_position),
                     DirectoryItem(st, position)),
             st.encode_error)

Parents == SubSeq(state, 1, Depth - 1)

Finish ==
  /\ Usable
  /\ \E p \in SortedOrders(Top.items) :
       LET w == SeqWrite(ArchiveWriter, GoodbyeTable(Top, p)) IN
       /\ archive' = w.out
       /\ state' = IF Depth = 1
                     THEN <<>>
                     ELSE [Parents EXCEPT
                             ![Depth - 1] = PopInto(state[Depth - 1], Top,
                                                    w.position)]
  /\ result' = IF Depth > 1 THEN result
               ELSE IF Top.encode_error = "none" THEN "ok" ELSE "incomplete"
  /\ UNCHANGED <<payload, file, phase, links, promised, faults>>

(* The directory has left the stack before its table is written, so a       *)
(* failing write takes its position, its items and its error along.         *)
FinishFails ==
  /\ Usable
  /\ MayFail("finish")
  /\ \E p \in SortedOrders(Top.items) :
       \E cut \in Interrupted(ArchiveWriter,
                              SeqWrite(ArchiveWriter, GoodbyeTable(Top, p))) :
         archive' = cut.out
  /\ state' = Parents
  /\ result' = IF Depth > 1 THEN result ELSE "io_error"
  /\ Fail("finish")
  /\ UNCHANGED <<payload, file, phase, links, promised>>

(* close() consumes the encoder, also when it fails.                        *)
Close ==
  /\ phase = "open"
  /\ state = <<>>
  /\ \/ /\ payload' = IF Split
                        THEN Append1(payload, Marker("PAYLOAD_TAIL_MARKER"))
                        ELSE payload
        /\ UNCHANGED faults
     \/ /\ Split
        /\ MayFail("close")
        /\ \E b \in TornBytes \cap 0..HeaderSize - 1 :
             payload' = [len |-> payload.len + b, cells |-> payload.cells]
        /\ Fail("close")
  /\ phase' = "closed"
  /\ UNCHANGED <<archive, state, file, result, links, promised>>

-----------------------------------------------------------------------------
Init ==
  /\ archive = EmptyStream
  /\ payload = EmptyStream
  /\ state = <<>>
  /\ file = NoFile
  /\ phase = "new"
  /\ result = "none"
  /\ links = {}
  /\ promised = <<>>
  /\ faults = {}

(* The calls for files and symlinks do not look at the kind of metadata they *)
(* are given: that it fits is left to the caller.                           *)
MetasOf(kind) == {meta \in Metas : meta.kind = kind}

FileCalls ==
  \E n \in Names, meta \in MetasOf("file"), size \in FileSizes :
    \/ CreateFile(n, meta, size)
    \/ CreateFileFails(n, meta, size)
    \/ \E got \in 0..size, returned \in BOOLEAN :
         AddFile(n, meta, size, got, returned)

RefCalls ==
  \/ Advance
  \/ /\ Usable
     /\ \E n \in Names, meta \in MetasOf("file"),
           ref \in KnownPayloads \cup NextPayloads : AddPayloadRef(n, meta, ref)

EntryCalls ==
  \E n \in Names :
    \/ \E meta \in Metas :
         \/ AddDevice(n, meta)
         \/ AddFifo(n, meta)
         \/ AddSocket(n, meta)
         \/ CreateDirectory(n, meta)
    \/ \E meta \in MetasOf("symlink"), len \in TargetLens :
         AddSymlink(n, meta, len)
    \/ \E len \in TargetLens, target \in links : AddHardlink(n, len, target)

WriteCalls ==
  \/ \E k \in WriteSizes :
       Write(k) \/ WriteAllFails(k) \/ PollWrite(k)
  \/ DropFile

Terminated == phase = "closed" /\ UNCHANGED vars

Next ==
  \/ \E meta \in Metas, prelude \in Preludes : New(meta, prelude)
  \/ FileCalls
  \/ WriteCalls
  \/ RefCalls
  \/ EntryCalls
  \/ Finish
  \/ FinishFails
  \/ Close
  \/ Terminated

Spec == Init /\ [][Next]_vars
=============================================================================
