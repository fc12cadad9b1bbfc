# A formal model of pxar

pxar is the archive format of Proxmox Backup: a library (`src/src`) with an
encoder that writes archives front to back, a decoder that reads them front to
back, and an accessor that reads them at random.  This directory holds a TLA+
model of its core logic, the TLC runs that check it on small instances, and
proofs, checked by TLAPS, that hold for every instance.

Paths below are relative to the repository (`src/src/encoder/mod.rs` is the
file called `src/encoder/mod.rs` in the crate).

## 1. The system

### Components

| component | code | state | operations |
|---|---|---|---|
| Encoder | `encoder/mod.rs` | a stack of `EncoderState` (one per open directory: goodbye items, error, offsets, positions in two streams), the `FileImpl` that borrows it | `new`, `create_file`, `add_file`, `add_payload_ref`, `advance`, `add_symlink`, `add_hardlink`, `add_device`, `add_fifo`, `add_socket`, `create_directory`, `finish`, `close`; on the file `write`, `write_all`, `poll_write`, `drop` |
| Format | `format/mod.rs`, `format/acl.rs` | none | headers and their sizes, stat, goodbye items, checks |
| Goodbye table layout | `binary_tree_array.rs` | none | `copy`: sorted array to search tree; `search_by` |
| Decoder | `decoder/mod.rs` | `DecoderImpl`: `State`, the current header, the path and the lengths to cut it back to, how much of the payload stream was consumed | `new`, `next`, `content_reader`, `content_size`, reads through `Contents`, `enable_goodbye_entries` |
| Accessor | `accessor/mod.rs` | the archive's size and streams, its cache; directories with their tables, iterators, entries with their ranges | `new`, `open_root`, `open_dir_at_end`, `lookup`, `lookup_self`, `enter_directory`, `read_dir`, `skip`, `next`, `decode_entry`, `follow_hardlink`, `open_file_at_range`, `contents` |
| Goodbye table cache | `accessor/cache.rs` | tables by offset | `fetch`, `insert`; `set_goodbye_table_cache` |
| Readers over ReadAt | `accessor/mod.rs`, `accessor/read_at.rs`, `FileContents` in `accessor/{sync,aio}.rs` | a range, a position in it, and the operation in flight | `poll_seq_read`, `update_range`, `poll_read`, `read_at`, `read_exact_at`, `start_read_at`, `poll_complete` |
| Wrappers | `encoder/{sync,aio}.rs`, `decoder/{sync,aio}.rs`, `accessor/{sync,aio}.rs` | none of their own | forward to the above |
| Metadata | `lib.rs` | none | plain data and conversions |

### How they interact

The encoder is the only writer.  It writes an *archive* stream and, for
`PxarVariant::Split`, a *payload* stream for the contents of regular files;
the archive then refers to the payload by offset (`PAYLOAD_REF`).  It cannot
ask its outputs where they are, so every offset in an archive comes from the
positions it counts itself.  A directory that is entered takes the positions
of its parent along and hands them back in `finish()`, together with an item
for the parent's goodbye table and any error.  A `FileImpl` borrows the
encoder mutably and does its accounting when dropped.  The caller may inject
data into the payload stream behind the encoder's back and announces it with
`advance()`.

The decoder and the accessor share nothing with the encoder but the streams.
The accessor uses a goodbye table as a search tree by hash, reads the
FILENAME a row leads to, and decodes single entries with a decoder confined
to a range, over a `SeqReadAtAdapter`.

Every operation is an `async fn` that also serves the synchronous wrappers.
Nothing runs concurrently inside one encoder or decoder (`&mut self`); what
makes the code hard is *failure and abandonment in the middle of a call* (an
output error, a dropped future), *protocol sequences* (files dropped early,
directories finished in any depth, references handed out before their
payload), and *offset arithmetic that several calls have to agree on*.  The
accessor is different: it takes `&self` and is cloned freely, so that several
tasks use one, and what they share is the cache, which belongs to the caller.

### What makes each component correct

* Encoder: tracked positions are the stream lengths; all recorded offsets
  resolve and never underflow; each entry is listed exactly once, with the
  right extent; an archive whose root `finish()` said Ok, and no call
  for which failed, is complete.
* Layout and lookup: `copy` is a permutation onto a search tree; `search_by`
  decides membership; a lookup ends and finds names whose hashes collide.
* Decoder: every sound archive is decoded, in order, with the right paths
  and contents whatever the caller reads; nothing unsound ends cleanly.
* Accessor: what is found, listed, followed or opened again is an entry of
  the archive, with the kind, extent and contents it was written with; what is
  not found is not there; an error has a reason; every call returns.
* Cache: under an offset lies the table that is in the archive there.
* Readers over ReadAt: the bytes returned are those of the range, each once
  and in order, whatever buffers the caller comes with, and whichever reads
  end early or fail.

`PROJECT.json` lists the hazards of the code at their lines, with the
properties that watch each one.

## 2. Modules

| module | models |
|---|---|
| `PxarFormat` | items, their sizes, streams as sets of items at offsets |
| `PxarEncoder` | `EncoderImpl`, `EncoderState`, `FileImpl`: one action per public call, with its failures |
| `PxarEncoderProperties` | what the encoder promises, and what its documentation says |
| `ArchiveBuilder` | the abstract specification of the encoder |
| `BinaryTreeArray` | `copy` and `search_by` as recursive functions |
| `TreeSizes` | layout and search for all sizes up to a bound |
| `PxarDecoder` | `DecoderImpl`, `Contents`: one action per turn of the loop in `next_do` and per other call |
| `RoundTrip` | encoder, storage that may lose the end of a stream, decoder |
| `SeqReadAt` | `SeqReadAtAdapter`, `FileContents` and `read_exact_at` over `ReadAt`: one action per step of a read |
| `RangeReader` | the abstract specification of these readers |
| `PxarAccessor` | `AccessorImpl` and the objects it hands out, used by tasks that share a cache: one action per call and per read a call waits for |
| `RandomAccess` | encoder, then accessor over the archive it wrote |
| `PxarEncoderProofs`, `EncoderOffsetsProofs`, `EncoderContentsProofs`, `EncoderListingProofs`, `EncoderExtentsProofs` | theorems about the encoder, each module built on the one before |
| `RoundTripProofs`, `SeqReadAtProofs`, `RandomAccessProofs` | theorems about the decoder, the readers and the accessor |
| `MC...` | constants for TLC |

### Correspondence with the code

*Streams.*  An archive is `[len, cells]`: how many bytes, and which items
start where.  Sizes are the real ones (16 for a header, 40 for `Stat`, 24 for
a `GoodbyeItem`, ...), so offsets in the model are offsets in an archive.
Bytes are not modelled: an ENTRY stands for the stat and its attribute items
(`attrs` bytes), a name for itself, `HashOf` for SipHash.  The path in a
HARDLINK item is the file it names, told by its `LinkOffset` (`target`), and a
length.  A torn item is a gap.

*Encoder.*  `state` is `EncoderImpl.state`; the fields of `EncoderState` keep
their names.  `file` is the borrowed `FileImpl`; while it is open no other
call is possible, as in Rust.  `links` are the `LinkOffset`s the caller holds,
`promised` the payload it has referenced and still has to inject.  A call
that the code rejects before changing anything is not a step.  Each call that
writes has an alternative in which it stops somewhere inside its output
(`CallFails`, `CreateFileFails`, `WriteAllFails`, `FinishFails`, `Close`):
that is an I/O error, `check_header_size`, or a future dropped at an await.
In `FinishFails` the popped directory is gone, as in the code, where
`self.state.pop()` precedes the write.  `DropFile` is `Drop for FileImpl`.
`finish_goodbye_table` sorts unstably; the model takes every order of equal
hashes.

*Accessor.*  A directory, iterator, entry or contents is a value, as in Rust,
and a task holds the one it got last (`object`); what it waits for is `job`.
`job` is the state of the one `async fn` in which waiting matters: a path is
resolved by `Enters` and `Opens` in turn, where `open_at_end` first reads the
tail of a table (`ReadTail`), asks the cache, and on a miss reads the table
and tells the cache (`LoadTable`); `Probe` is one turn of the loop in
`lookup_component`, with the read of one FILENAME.  All other reads are of an
archive that does not change, so it does not matter what happens between
them, and such a call is one step.  `Interrupt` is a future that is dropped
or a read that fails.  The decoder confined to a range is `PxarDecoder` over
the part of the archive before the end of the range (`Over`), with what is
special to a range, an ENTRY that ends with it, in `AtRangeEnd`.  Ranges and
offsets given to `open_file_at_range` and `open_dir_at_end` are ones the
caller got from entries earlier.  `contents` opens what `SeqReadAt` then reads.

*Cache.*  `Cache` is a trait; the cache behind it belongs to the caller.  So
`stored` may take what it is given or not (`Insert`) and forget anything at
any time (`Evict`), but it does not invent tables.
`set_goodbye_table_cache` takes `&mut self`: no call that borrows the
accessor is under way.  Directories carry the cache they were opened with.

*Decoder.*  `decoder` is `DecoderImpl` with the positions of its inputs.
`state` is `State`, `contents` the fields of `InPayload`.  `call = "next"`
while `next()` runs; each turn of the loop in `next_do` is a step.  The
operators return a set of results, empty when the code returns an error.

*Readers over ReadAt.*  `reader` is a reader's range and position: an adapter
moves `range.start`, contents move `at`, and `read_exact_at` moves `offset`.
`read` is the read that is being polled, `io` what the source does behind its
cookie.  `ReadAtState::poll` does not return while the source says Pending: it
asks again (`AskAgain`).  So a future never outlives the poll that made it,
the branch of `poll_seq_read` that stores one for later is never taken, and
the model has no step for it; nor can `update_range` meet a read in flight.
`passed` is the part of the source whose bytes the caller got last.

## 3. Runs

| run | instance | shows |
|---|---|---|
| `encoder_faults` | 2 names of different length and hash, which may repeat, 3 levels, tables of up to 2 rows, a payload stream, all kinds of entry, every way to write, each kind of failure, torn at several places | types, `NothingUnderflows`, `PositionsTrackStreams`, `EveryNameListedOnce`, tables, tails, references, hardlinks |
| `tree_sizes` | all sizes to 260 | `copy` is a permutation and a search tree; `search_by` decides membership and finds both of two equal elements |
| `roundtrip_unified` | contents inline, all kinds of entry, 2 names, 3 levels, 3 entries, partial reads, `poll_write`, outputs that do not fail | `RowsTileDirectory`; `SoundArchivesDecode`, `SeenAsListed`, `ContentsAreTheFiles`, `NextReturns` |
| `roundtrip_split` | a payload stream, preludes, injected payloads, references to known ones, 3 levels, files of 0 or 2 bytes written at once, in parts or not fully; outputs that do not fail, no `AsyncWrite` | `FinishedOkIsComplete`, `PayloadRefsAscend`; refines `ArchiveBuilder`; `SoundArchivesDecode`, `SeenAsListed`, `ContentsAreTheFiles`, `ConsumedIsPosition` |
| `roundtrip_losses` | failed calls and finishes, files of 2 bytes torn by a `write_all` that fails half way, and perhaps written on; streams that end early | `DecoderTypeOK`, `CleanEndMeansWhole` |
| `accessor_unified` | all calls of one task on all archives of 3 entries: directories in 3 levels, files, hardlinks, fifos, 3 names, two with equal hashes and one with another, each used once; tables of up to 3 rows; all paths of up to two names, "/", ".." | `EntriesAreTheirs`, `LookupsAreRight`, `ErrorsHaveReasons`, `ListingsAreComplete`, `OpenedContentsAreTheFiles`, `HardlinksLeadToFiles` |
| `accessor_split` | 2 tasks, a cache, a payload stream, version and prelude, 2 levels | `CachedTablesAreTables`, `DirectoriesAreTheirs`, `OpenedContentsAreTheFiles`, `CallsReturn` |
| `random_reads` | a source of 4 bytes, all ranges in it and one byte beyond, callers' buffers of 0, 1, 2 and 4 bytes, a temporary one of 3 | `ReadTypeOK`, `ReadsStayInRange`, `PositionIsWhatWasRead`, `ReadReturns`; refines `RangeReader` |

Why the bounds are enough.  Positions are handed over between a directory and
its parent only, so three levels show a hand-over that is itself handed over.
Tables of three rows, with both children, occur in `accessor_unified`, and of
all sizes in `tree_sizes`, which also searches them; in the other runs a
directory has at most two.  Rows with different hashes, which the sort has to
put in order and the lookup to tell apart, occur in `encoder_faults`, two of
the round trips and `accessor_unified`.  Rows with equal hashes exercise the
sort, which may leave them in either order, and the loop of the lookup: those
of two names in `accessor_unified`, of a name that is used twice in the
encoder's runs.  That a hardlink leads to its own target shows only where
there is another file; `accessor_unified` has two files and a hardlink,
`encoder_faults` hardlinks behind failed calls.  Two file sizes, 0 and 2, with
writes of 1 and 2, give an empty file, a file written at once, in two parts,
and left short.  A `write_all` that fails leaves nothing or one byte of a file
of two.  Two hundred and sixty sizes cover every shape of the last level
through eight levels.  Each kind of failure happens at most once in a
behaviour; the proofs of section 5 have no such bound.  In `roundtrip_losses`
one name is enough, as names may repeat and the property is about structure.

The accessor is checked with one task where the question is what a call
returns, because tasks share nothing but the cache, and with two where it is
what the cache holds; the proofs of section 5 are for any number.  An archive
with a name twice is not handed to it (`NameUses`); with three names and three
entries this leaves out only repetitions, in one directory or in nested ones,
which the round trips have.  An accessor that finds its way in an archive of
three levels has entered a directory by its entry, by its end and from the
cache.  In `accessor_split` each directory has one entry, but a table of the
wrong directory is found out by `DirectoriesAreTheirs` as soon as there are
two directories.

In `random_reads` the source answers in pieces of any size up to what was
asked, ends within some ranges, and fails any number of times; four bytes
allow three reads in a row, and buffers below, at and above what is left.

Fairness.  `CallsReturn` and `NextReturns` assume that a caller that has called
polls the future to its end (the synchronous wrappers do: `poll_result_once`);
that is weak fairness of the steps inside the call, of each task on its own
(`Goes(t)`, `Turns`).  It may as well be dropped or fail (`Interrupt`), but
nothing relies on that.  No caller is assumed to call anything, and no cache to
store or to forget anything.  `ReadReturns` assumes that the loop in `ReadAtState::poll` goes
on, and that the source completes its operations on its own, in the kernel or
in another thread (section 4).  The encoder's specification has no fairness: its properties
are safety and a refinement of safety.

Assumptions about callers, from the interface's contract: a reference to a
payload not yet written is followed by its injection and `advance()` before
more content is written; the metadata given to `create_file`, `add_file` and
`add_symlink` fits the call; contents do not look like pxar items where a
broken archive makes the decoder read them as such; a caller that got an
error from the decoder stops; the accessor gets an archive whose `finish()`
said Ok, with its payload stream if there is one, and the size it has.

Deadlock is checked in every run: a behaviour ends only in a stuttering step
named for it.

## 4. Where code and documentation disagree

Each of these is a run with `expect: violation`; the property is what a
comment in the code says.

* `finding_poll_write`: `FileImpl::poll_write` ignores the payload output, so
  in a split archive contents written through `tokio::io::AsyncWrite` land in
  the archive stream, behind a `PAYLOAD_REF`.
* `finding_finish`: a failed `finish()` of a subdirectory leaves no error
  behind; the root can finish Ok.  (`CleanEndMeansWhole` shows that a decoder
  notices.)
* `finding_skip`: of three equal elements in an array, `search_by` never
  returns the third, so that of three entries with equal hashes the lookup may
  miss one.  (`LookupsAreRight` therefore asks for "not found" to be true only
  where at most two names of a directory collide.)
* `finding_reopen`: the end of the range that `follow_hardlink` gives its target
  is computed from where the contents begin and how long they are.  In a split
  archive they are not in the archive, and the range of a small file ends
  within its `PAYLOAD_REF`; `open_file_at_range` on it fails.

More, which no run is spent on: in a split archive a file's goodbye item
counts the content that is not in the archive, so that the range of a row may
reach beyond its directory, where `format/mod.rs` has `GoodbyeItem::size` be
the size of the directory item (`EntriesAreTheirs` allows for it; a decoder
confined to the range stops at the entry all the same); a split archive opened
by an accessor without its payload stream hands out bytes of the archive as
contents, without an error, because `content_range` then takes the payload
offset for one in the archive (`ContentRange`); an archive that was cut right
behind the table of a subdirectory opens without an error, with that
subdirectory as its root, since nothing checks that the root begins at 0
(`DirectoriesAtEnd`; the decoder notices, `CleanEndMeansWhole`); a split archive decoded without its
payload stream, an input that `decoder/sync.rs` calls optional, fails at the
entry after the first regular file, because `next()` skips the body of the
`PAYLOAD_REF` item, which has been read, a second time (`LeaveContents`); `ReadAtState::poll` calls
`poll_complete` again at once where `ReadAt` says it "should be called" after
the task "will be notified via `cx.waker()`" (`accessor/read_at.rs`,
`start_read_at`), so that a read which takes time keeps its thread busy, and a
source that is served by the same single-threaded executor never completes
(`AskAgain`); in an archive with a version, the tail of
the root's goodbye table leads to offset 0 instead of the root's ENTRY
(`encoder/mod.rs`, `finish_goodbye_table`, against `format/mod.rs` on
`GoodbyeItem::offset`; `TailsLeadToDirectory` allows for it, for the root's
table alone), and after a
`write_all` that failed half way `remaining_size` is no longer the space left
(`WriteAllFails`, against the comment on `FileImpl::remaining_size`).

## 5. Proofs

`PxarEncoderProofs` proves, for all values of the constants that satisfy their
assumptions (any names, hashes, metadata, sizes, bounds, and every kind of
failure):

* `TypesAreKept`: `Spec => []TypeOK`.  No offset, size or count is ever
  negative, so the unsigned arithmetic of the encoder never wraps downwards.
* `OffsetsStayBehind`: `Spec => []NothingUnderflows`.  Everything a directory
  has recorded lies behind its position, and outer directories are not ahead
  of inner ones.
* `PositionsAreTracked`: `Spec => []PositionsTrackStreams`.  The positions the
  encoder counts are the lengths of the streams, failed calls included,
  unless a `finish()` failed.

The argument.  `TypeOK` alone is not inductive: that a table row's offset
(position minus recorded offset) is a natural number needs the recorded
offsets to lie behind the position, and for the position after a failed
`finish()`, which is the parent's old one, that outer positions are not ahead
of inner ones.  So the inductive invariant is `IInv == TypeOK /\
NothingUnderflows`.  The proof has one lemma per action.  Most calls change
only the top of the stack and let a stream grow; `OrdinaryStepKeeps` treats
them at once, and lemmas on writers (`SeqWriteExtends`, `InterruptedExtends`)
show that what a call writes, all of it or a part, keeps position and length
in step.  `PositionsTrackStreams` then follows from the same lemmas, with
`IInv` as a known invariant.

`EncoderOffsetsProofs` goes on from there to what the archive is for: that
every offset in it leads where it should.  For any hash function, any layout
of the tables that is a permutation, any nesting and any failed calls but a
failed `finish()` (after which the positions are wrong, see
`PositionsTrackStreams`):

* `TablesResolve`: `Spec => []GoodbyeTablesResolve`.  Every row leads back to a
  FILENAME with its hash, and so will all that is waiting to become a row.
* `TailsResolve`: `Spec => []TailsLeadToDirectory`.  The tail of a table leads
  to the ENTRY of the table's own directory, never to that of a parent, a
  sibling or a child.
* `RefsResolve`: `Spec => []PayloadRefsResolve`.  Every reference leads to a
  PAYLOAD of its size or is still promised.
* `LinksResolve`: `Spec => []HardlinksResolve`.  Every hardlink leads to a
  regular file, the one its path names.

The argument.  Rows, tails and hardlinks are written long after what they
lead to, so `OffsetsLead`, the invariant, is also about what the encoder and
the caller remember meanwhile: the items and the entry offset of every open
directory, the open file, the `LinkOffset`s handed out, the promised payload,
which is always what the payload stream continues with (`PromiseHolds`; that
the guard of `add_payload_ref` excludes payloads already written follows from
the size of their headers).  The layout is only given for tables of up to
`MaxItems` rows, so an outer directory keeps room for the inner one
(`StackHasRoom`).  Streams only grow, so what leads somewhere keeps doing so
(`LeadsMore`, `CellLeadsMore`), and a call only owes the offsets of its own
items.  An item that holds an offset is always the last one a call writes, and
a call that stops in the middle never gets that far (`CutLosesLast`).

Which directory a table ends is not written anywhere in an archive; it follows
from nesting, as for brackets: the ENTRY of a directory opens it, its table
closes it, and an ENTRY belongs to a table if all that was opened in between
was closed in between (`Encloses`).  `Brackets` says that of every table, and
of every directory on the stack that its `entry_offset` is that of an ENTRY
behind which everything has been closed or is further up on the stack
(`HoldsOpen`).  Entering a directory opens a bracket at the end of the
archive, leaving one closes the bracket that the top of the stack knows, and
any other call, whole or cut short, leaves brackets alone
(`EnterKeepsBrackets`, `LeaveKeepsBrackets`, `CalmKeepsBrackets`).

`OInv` joins `OffsetsLead` with `IInv` and `PositionsTrackStreams`, which gives the
position at which a FILENAME or a table is written; TLC agrees with it on the
instance of `encoder_faults`.

`EncoderContentsProofs` is about the contents of files and the order of the
streams.  Its theorems leave out split archives whose contents are written
through `AsyncWrite`, where two of them are false (`finding_poll_write`):

* `OkIsComplete`: `Spec => []FinishedOkIsComplete`.  If no call failed, an Ok
  of the root's `finish()` means that all contents are there.  (A
  `write_all` that fails half way can be followed by all of the contents, more
  than the header declares, and an Ok.)
* `EncoderBuilds`: `Spec => ImplementsBuilder`, the refinement of
  `ArchiveBuilder`, for outputs that do not fail (a failed call is no step of
  the builder).
* `RefsAscend`: `Spec => []PayloadRefsAscend`, failed calls included.

The argument.  A file that is dropped too early is remembered by a flag, which
finish() hands on to the directory around; `FinishedOkIsComplete` and the
builder's `tainted` are read off the streams instead.  `CInv` (theorem
`ContentsAreAccounted`) says that the two tell the same: of all declared
contents, at most those of the open file are on their way, and they lack as
many bytes as `remaining_size` says; if a file was given up, one of the flags
between the current directory and the root is set; and if none is set nothing
is missing.  It adds that the set of names is finite, because the builder
counts names.  Each action is then classified by what the builder sees of it
(`Builds`: a name more, a directory entered or left, a verdict, nothing), and
one lemma per class gives the step of `ArchiveBuilder`.  For `RefsAscend` the
invariant `RInv` adds that references end where the payload stream does, or
before, and that an error is only ever remembered by the innermost directory.

`EncoderListingProofs` proves, with no further hypotheses:

* `NamesAreListedOnce`: `Spec => []EveryNameListedOnce`, which is about
  archives for which no call failed.

The argument.  The offset of a FILENAME wanders: it is kept by the open file,
then by an item of a directory, or by a directory and then by an item of its
parent, and finally by a row of a table.  `ListedOnce` says that at any time no
offset is kept in two of these places, and that of every FILENAME in one.
A call that adds an entry makes one place for an offset that is new since it
is the length of the stream (`JoinIsOnce`, with `KeptIsBehind`: everything kept
lies behind); closing a file, or the end of a directory, replaces one place by
another (`ReplacedIsOnce`); and a table takes over all items of a directory
(`ItemsAreTabulated`).  That the last loses and doubles none is where the
layout comes in: sorting and `copy` reorder n items injectively, and an
injective order of n items leaves none out (`OrdersAreOnto`, a pigeonhole
argument).

`EncoderExtentsProofs` proves, the first two with no further hypotheses, the
third but for split archives written through `AsyncWrite`:

* `TablesTile`: `Spec => []RowsTileDirectory`.
* `ItemsAreLaidOut`: `Spec => []NInv`.  Items never overlap, a version item is
  only ever the first, and every hardlink counts back from its FILENAME to the
  `LinkOffset`, given to the caller, of the file its path names.
* `ArchivesAreWellFormed`: `Spec => []GInv`.  While no call failed, the items
  of an archive follow a grammar.

The argument.  The extent of an entry is only known once its contents are
written and its subdirectories are finished; until then the directory's account
is short by the part on its way.  `Tiled` says how short: the items of every
open directory follow each other from behind its ENTRY up to where the
directory inside it begins, or the open file, or the end of the stream
(`Reach`); and what the open file has written plus its `remaining_size` is what
its item already claims (`FileReaches`).  A directory that is finished or a file
that is closed puts the missing extent in (`AppendTiles`), and a table takes
over the extents of all items, whatever the order of its rows (`RowsTile`, by
the same permutation as for `ListedOnce`).  The equality of starts and ends as
sets is what is kept, so that no order of the rows has to be found again.
All this is claimed only while no call failed part way and no file was given
up (`Whole`): a file given up leaves fewer bytes than its item says.  That a
later step cannot make up for it, since errors stay where they are or go to
the parent, is `WholeBefore`.

`ItemsAreLaidOut` is what a reader needs that comes to a position on different
ways: there is one item there.  That items do not overlap follows from new
items beginning where the stream ends (`NewCellApart`).  A hardlink then has
one FILENAME, the one it was written behind, and `add_hardlink` computed its
offset from the position of just that.  Both are claimed while no call failed,
because only such archives are opened in `RandomAccess`.

`ArchivesAreWellFormed` is what a reader needs that goes from one item to the
next. `GInv` says which item may begin where another one ends (`Grammatical`:
behind a FILENAME its ENTRY or HARDLINK, behind an ENTRY what its kind of file
has there, behind a table the next name or the next table), that the ranges of
directories nest (`Nests`), that nothing stands behind the table of a root that
is closed (`RootIsClosed`), that the archive begins as it must and the payload
stream with its marker. What makes it inductive is what may come next at the
end of a stream, which depends on the call the encoder is in. `ItemOK` and
`TypeOK` say for it that an item has one of the types the encoder writes, and
an ENTRY one of the kinds of file.

`RoundTripProofs` proves for the decoder, composed with the encoder and with
storage that may lose the end of a stream:

* `DecoderStaysInside`: `RoundTripSpec => []DecoderTypeOK`.  The decoder never
  stands behind the end of an input, has never read more contents than it
  announced (so `Contents::remaining` does not underflow), and the lengths
  `reset_path` cuts the path back to lie within the path.
* `SkipsAreExact`: `RoundTripSpec => []ConsumedIsPosition`.  For every
  archive the encoder can write, intact, torn or cut short, after any mixture
  of reading and skipping, the decoder's account of the payload stream is its
  position in it.

For archives whose `finish()` said Ok, for which no call failed, whose payloads
were all written and of which nothing was lost (`Sound`), whatever the tree, the
sizes, and the contents the caller reads, skips or leaves half read:

* `SoundArchivesAreDecoded`: `RoundTripSpec => []SoundArchivesDecode`.  No call
  of the decoder fails.
* `EntriesAreAsListed`: `RoundTripSpec => []SeenAsListed`.  `next()` returns the
  entries in the order they were added, with the paths and kinds they have in
  the tables, and all of them before it says that there are no more.
* `ContentsAreRight`: `RoundTripSpec => []ContentsAreTheFiles`.  The contents
  handed out are those of the entry returned last.

These three have two hypotheses.  `PayloadInput = Split`: the reader passes as
many inputs as the encoder had outputs; else they are false (see the hazards).
`~(Split /\ TokioIo)`: it is not a split archive written through `AsyncWrite`,
whose payloads are not where the decoder looks for them (`finding_poll_write`).

The argument, first for any archive.  `ConsumedIsPosition` speaks of the decoder between two calls;
inductive is `Balanced`, which holds inside `next()` too.  It needs the types,
and these need the items of the inputs to be well-formed, which is `TypeOK`
of the encoder, handed over with the streams (`LostIsReadable`).  So the
inductive invariant is `RoundTripInv`: the encoder's `IInv`, readable inputs,
`DecoderTypeOK`, `Balanced`, and that the decoder has done nothing before it
has an input.  There is one lemma per operator of the decoder (each keeps a
decoder `Ready`: typed and settled) and one per action.  That the remembered
path lengths ascend is part of `DecoderTypeOK` because cutting the path back
for one directory must not cut below another.

Then for sound ones.  `Intact` collects what the encoder's theorems say of the
streams that were handed over: the grammar, the nesting, the tables with their
offsets and extents, each name listed once, references that ascend and
resolve.  It holds because a sound archive is that of a closed encoder, which
changes nothing any more (`SoundIsIntact`, `ClosedIsFinal`).  Inductive with it is
`Follows`, which says where in the archive the decoder is: before the root's
ENTRY is dealt with (`Early`), behind the root's table (`Finished`), or
(`Midway`) with the FILENAME or the table at some offset q to deal with next.
The last says of q that

* the directories whose range contains q, from the root inwards, are as many as
  the decoder remembers lengths of paths for, and each of these lengths is that
  of the path of its directory (`Within`, `PathTo`);
* as many names were returned as there are FILENAMEs before q, each with its
  path and kind (`SeenAsListed` names them by their number, `NamedIn`);
* the references behind q lead behind all that was consumed of the payload
  stream (`Ahead`), so that no skip goes back;
* contents on offer are the first payload behind the last name, or the one its
  reference leads to (`Opened`).

An entry is read in several turns of the loop; `EntryTour` follows one from its
FILENAME to its end, with the grammar for each header, and shows that it moves
q to the next name or table.  What that does to the directories around q and to
the names before it are lemmas about the archive alone (`PassesEntry` for an
entry that is not a directory, `LeavesTable` and `LeavesRoot` for a table).  The
theorems then read off `Follows`: it excludes a failed call, and the path, the
kind and the contents are those of q by `PathOfIs`, `KindOfIs` and `NthNameIs`.

`SeqReadAtProofs` proves for the readers over `ReadAt`, for sources, ranges
and buffers of any size:

* `ReadTypesAreKept`: `Spec => []ReadTypeOK`.
* `ReadsAreConfined`: `Spec => []ReadsStayInRange`.
* `PositionsAreTrue`: `Spec => []PositionIsWhatWasRead`.
* `PromiseIsKept`: `Spec => ImplementsRangeReader`.  Each reader implements a
  reader of a range: each byte once and in order, an end only where the range
  or the source ends, nothing lost to a read that fails.

The argument.  `ReadInv` says that reader, read in progress and caller agree
on where they are, and that a read into an empty buffer has reason to be one
(`LengthsMean`): otherwise the 0 it returns would look like an end.  Each
action keeps it, and is a step of `RangeReader` or a stuttering one.

`RandomAccessProofs` proves for the accessor, over every archive the encoder
can write, for any number of tasks and caches:

* `CacheIsSound`: `RandomAccessSpec => []CachedTablesAreTables`.
* `OpenTablesAreSound`: the table of every directory that a task holds, lists or
  searches is the one in the archive at the directory's offset.
* `HardlinksLead`: `RandomAccessSpec => []HardlinksLeadToFiles`.  Following a
  hardlink leads to the very file that its path names.

The argument.  Neither is inductive alone: a table comes out of a cache into a
directory, and goes from a directory into a cache.  `AccessInv` says both, for
all the places a directory can be: held, inside an iterator, inside the
iterator of an entry that was listed, in a lookup that waits for a row.  A
call that still waits for its table only knows where it is.  Since `stored` is
indexed by cache, it also says that objects carry caches that exist.  And
nobody reads before there is an archive, which is why handing it over breaks
nothing.  One lemma per action; lemmas on what becomes of a task (`Returns`,
`Awaits`, `Enters`, `Searches`, `Finds`, `Opens`) are shared between them.

A hardlink is followed from an entry that may have been opened long before, by
a lookup, out of a listing, or from a range the caller kept; all that
`follow_hardlink` goes by is what the entry remembers.  So the invariant
`LinkInv` is about what is remembered: every entry begins right behind the
FILENAME whose offset it has, and a hardlink has the offset of the HARDLINK
item that stands there; so does a row of a listing (`TasksBelong`).  That
needs the decoder: the first item it reads behind a FILENAME is the one at that
position (`ItemsAreThere`), and the entry it makes of it has the kind of that
item (`FirstItemRead`).  `decode_one_entry` would pass over a version, but there
is none behind a FILENAME, and there is one item at a position: both are
`NInv` of the encoder, which the accessor may use because what it reads is the
archive of an encoder that is closed and changes nothing any more
(`InputIsArchive`, `ClosedStays`).  Then the two subtractions, of the encoder
and of the accessor, cancel out (`TargetsAreLinks`).  TLC agrees with
`TasksBelong` and `InputIsArchive` on the instance of `accessor_unified`.

Only model-checked, and why: `CallsReturn`, `NextReturns` and `ReadReturns` are
liveness properties under fairness, what `copy` and `search_by` compute is
induction over data, both beyond the prover.  That the accessor finds what was
written (`LookupsAreRight`, `ListingsAreComplete`) rests on the second.  The
remaining properties of the accessor (`DirectoriesAreTheirs`, `EntriesAreTheirs`,
`OpenedContentsAreTheFiles`, `ErrorsHaveReasons`) and what a decoder says of an
archive that was cut short (`CleanEndMeansWhole`) are within the prover's reach,
and section 6 names the ones to prove first.

## 6. Plan

Done, in this order: format and encoder; layout and search; abstract builder
and refinement; proofs about positions; decoder and round trip; readers over
`ReadAt`; accessor, cache and their composition with the encoder; proofs
about the offsets in an archive; about contents, their order and the
refinement of the builder; about listings and extents; about the layout and
hardlinks; about the grammar of an archive and the decoding of sound ones.

Next:

1. The encoder with references handed out in batches before their payloads.
2. `DirectoriesAreTheirs` as a theorem: items do not overlap (`ItemsAreLaidOut`)
   and ranges nest (`ArchivesAreWellFormed`); what is left is that tails and rows
   of one directory agree on its extents, and that the path a reader collects
   ends as that of the directory does.
3. `CleanEndMeansWhole` as a theorem: `Follows` describes the decoder in a sound
   archive; for one that was cut, the part of it up to where the decoder is.

## 7. Not modelled

* In the accessor: `decode_full`, which only hands out a decoder;
  `open_contents_at_range`, which is `contents` for a range kept from an entry;
  paths other than sequences of names, "/" or "." in front, and "..".
  Archives with three rows of equal hash in one table are left to
  `tree_sizes` and `finding_skip`.
* Metadata and ACLs as values; `check_header_size` is one of the ways a call
  fails.  Timestamps, device numbers, mode bits beyond the kind of file.
* Contents as bytes; only how many there are and whose.
* Duplicate names and their rejection: the encoder accepts them, and so does
  the model.
* `u64` overflow at 2^64 bytes of archive.
* The wrappers, as far as they forward calls, and the examples and tests.
* Outputs that return Ok(0), on which `seq_write_all` loops for ever, and
  repeated calls on a decoder after an error (both listed as hazards).
