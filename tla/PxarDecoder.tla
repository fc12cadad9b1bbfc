----------------------------- MODULE PxarDecoder ----------------------------
(***************************************************************************)
(* The sequential decoder state machine: DecoderImpl and Contents.         *)
(*                                                                         *)
(* next() is a loop around the decoder's State; one turn of it is one      *)
(* step.  Between two calls the caller may read any part of the contents   *)
(* of the current file, in reads of any size.  The inputs are streams of   *)
(* items (PxarFormat) that may end too early.  A position where no item    *)
(* starts yields no header the decoder knows.                              *)
(*                                                                         *)
(* The operators on a decoder d return the decoder after the operation,    *)
(* inside a set that is empty when the code returns an error.  A caller    *)
(* that got an error is assumed to stop, so what the fields are then is    *)
(* left out.                                                               *)
(***************************************************************************)
EXTENDS PxarFormat

CONSTANTS
  PayloadInput,  \* the caller passes PxarVariant::Split
  GoodbyeModes,  \* what callers pass to enable_goodbye_entries
  ReadSizes      \* how many bytes one read of contents may get

ASSUME DecoderAssumption ==
  /\ PayloadInput \in BOOLEAN
  /\ GoodbyeModes \subseteq BOOLEAN
  /\ ReadSizes \subseteq Nat \ {0}

VARIABLES
  input,          \* the archive stream the decoder reads
  payload_input,  \* the payload stream it reads, if PayloadInput
  decoder,        \* DecoderImpl, with its positions in the two inputs
  call,           \* "new", "idle", "next" (inside next()), for good
                  \* "failed"; "ended": next() returned None
  seen            \* the entries next() has returned

decoderVars == <<input, payload_input, decoder, call, seen>>

States == {"Begin", "Prelude", "Root", "Default", "InPayload",
           "InSpecialFile", "InGoodbyeTable", "InDirectory", "Eof"}

(* DecoderImpl.  "header" is current_header, "contents" the fields of        *)
(* State::InPayload.  A path is the sequence of its names and its length    *)
(* their number.                                                            *)
NoContents == [offset |-> 0, size |-> 0, header_checked |-> FALSE]

NewDecoder ==
  [pos |-> 0, payload_pos |-> 0, state |-> "Begin",
   header |-> Marker("ZEROED"), contents |-> NoContents,
   path |-> <<>>, path_lengths |-> <<>>, with_goodbye_tables |-> FALSE,
   payload_consumed |-> 0]

(* What next() returns.  "payload_offset" is the one of EntryKind::File: <<>>  *)
(* or <<the offset>>.                                                       *)
EntryAt(d, kind) == [path |-> d.path, kind |-> kind, size |-> 0,
                     payload_offset |-> <<>>]

FileEntry(d, item, payload_offset) ==
  [EntryAt(d, "File") EXCEPT !.size = item.content,
                             !.payload_offset = payload_offset]

-----------------------------------------------------------------------------
(***************************************************************************)
(* Reading items.                                                          *)
(***************************************************************************)
ItemsAt(d) == {c.item : c \in {x \in input.cells : x.at = d.pos}}

(* The header at the decoder's position, and whether all of its item can be  *)
(* read too; a read that meets the end of the input is an error.            *)
Headers(d, htypes) ==
  {item \in ItemsAt(d) : /\ item.htype \in htypes
                         /\ d.pos + HeaderSize <= input.len}

Items(d, htypes) ==
  {item \in Headers(d, htypes) : d.pos + item.size <= input.len}

(* Deviation: what is skipped need not be there.                             *)
SkipUnchecked(d, len) == {[d EXCEPT !.pos = @ + len]}

Skip(d, len) ==
  IF d.pos + len <= input.len THEN {[d EXCEPT !.pos = @ + len]} ELSE {}

ContentSize(item) ==
  IF item.htype = "PAYLOAD" THEN item.content ELSE item.size - HeaderSize

(* The header is loaded and, if it is not one of those that end an entry,    *)
(* the rest of the item is read.                                            *)
Load(d, item) == [d EXCEPT !.header = item, !.pos = @ + HeaderSize]

ReadItem(d, item) == [d EXCEPT !.header = item, !.pos = @ + item.size]

(* The state in which the next turn deals with the header just loaded.       *)
Enter(d, state) == [d EXCEPT !.state = state]

EnterContents(d, size) ==
  [d EXCEPT !.state = "InPayload",
            !.contents = [NoContents EXCEPT !.size = size]]

(***************************************************************************)
(* PAYLOAD_REF: an input that cannot seek is read up to the offset.          *)
(***************************************************************************)
ToPayload(d, offset) ==
  IF ~PayloadInput
    THEN {d}
    ELSE {x \in {[d EXCEPT !.payload_pos = @ + (offset - d.payload_consumed),
                           !.payload_consumed = offset]} :
            /\ offset >= d.payload_consumed
            /\ x.payload_pos <= payload_input.len}

(***************************************************************************)
(* read_current_item, for the items that end an entry: d is the decoder     *)
(* behind an ENTRY of the given kind and its attributes.  Result: a set of  *)
(* decoders, each with the entry it returns.                                *)
(***************************************************************************)
Outcome(d, entry) == [decoder |-> d, entry |-> entry]

EndSymlink(d) ==
  {Outcome(ReadItem(d, item), EntryAt(d, "Symlink")) :
     item \in Items(d, {"SYMLINK"})}

EndDevice(d) ==
  {Outcome(ReadItem(d, item), EntryAt(d, "Device")) :
     item \in Items(d, {"DEVICE"})}

EndFile(d) ==
  {Outcome(EnterContents(Load(d, item), item.content),
           FileEntry(d, item, <<>>)) :
     item \in Items(d, {"PAYLOAD"})}

EndFileRef(d) ==
  UNION {{Outcome(EnterContents(x, item.content),
                  FileEntry(d, item, <<item.offset>>)) :
            x \in ToPayload(ReadItem(d, item), item.offset)} :
         item \in Items(d, {"PAYLOAD_REF"})}

(* Deviation: whatever has no item of its own is a directory.                *)
EndOtherAsDirectory(d, kind) ==
  {Outcome([Enter(Load(d, item), "InDirectory") EXCEPT
              !.path_lengths = Append(@, Len(d.path))],
           EntryAt(d, "Directory")) :
     item \in Headers(d, {"FILENAME", "GOODBYE"})}

(* Nothing more belongs to the entry.  A directory's path is remembered.     *)
EndOther(d, kind) ==
  {IF kind = "fifo"
     THEN Outcome(Enter(Load(d, item), "InSpecialFile"), EntryAt(d, "Fifo"))
   ELSE IF kind = "socket"
     THEN Outcome(Enter(Load(d, item), "InSpecialFile"), EntryAt(d, "Socket"))
   ELSE Outcome([Enter(Load(d, item), "InDirectory") EXCEPT
                   !.path_lengths = Append(@, Len(d.path))],
                EntryAt(d, "Directory")) :
     item \in Headers(d, {"FILENAME", "GOODBYE"})}

EndEntry(d, kind) ==
  EndSymlink(d) \cup EndDevice(d) \cup EndFile(d) \cup EndFileRef(d)
    \cup EndOther(d, kind)

(***************************************************************************)
(* read_next_entry.  The state before the call decides whether a version    *)
(* or a prelude may stand here.                                             *)
(***************************************************************************)
ReadNextEntry(before) ==
  LET d == Enter(before, "Default")
      plain(htype, kind) ==
        {Outcome(ReadItem(d, item), EntryAt(d, kind)) :
           item \in Items(d, {htype})}
  IN plain("HARDLINK", "Hardlink")
       \cup (IF before.state = "Begin"
               THEN plain("FORMAT_VERSION", "Version") ELSE {})
       \cup (IF before.state = "Prelude"
               THEN plain("PRELUDE", "Prelude") ELSE {})
       \cup UNION {EndEntry([d EXCEPT !.pos = @ + item.size], item.kind) :
                     item \in Items(d, {"ENTRY"})}

(***************************************************************************)
(* What a turn of the loop ends with.                                       *)
(***************************************************************************)
Return(d, entry) ==
  /\ decoder' = d
  /\ seen' = Append(seen, entry)
  /\ call' = "idle"

ReturnError == call' = "failed" /\ UNCHANGED <<decoder, seen>>

Continue(d) == decoder' = d /\ UNCHANGED <<call, seen>>

ReturnOrFail(outcomes) ==
  \/ \E o \in outcomes : Return(o.decoder, o.entry)
  \/ outcomes = {} /\ ReturnError

ContinueOrFail(decoders) ==
  \/ \E d \in decoders : Continue(d)
  \/ decoders = {} /\ ReturnError

InNext(states) == call = "next" /\ decoder.state \in states

Inputs == UNCHANGED <<input, payload_input>>

-----------------------------------------------------------------------------
(***************************************************************************)
(* next(): the turns of the loop.                                          *)
(***************************************************************************)
AtEnd ==
  /\ InNext({"Eof"})
  /\ call' = "ended"
  /\ Inputs /\ UNCHANGED <<decoder, seen>>

(* The first entries: a version, then perhaps a prelude, then the root.      *)
FirstEntries ==
  LET before == decoder.state
      follow(o) ==
        IF before = "Begin" /\ o.entry.kind = "Version" THEN "Prelude"
        ELSE IF before = "Prelude" /\ o.entry.kind = "Prelude" THEN "Root"
        ELSE o.decoder.state
  IN {[o EXCEPT !.decoder = Enter(@, follow(o))] :
        o \in {x \in ReadNextEntry(decoder) :
                before = "Prelude"
                  => x.entry.kind \in {"Prelude", "Directory"}}}

ReadFirstEntry ==
  /\ InNext({"Begin", "Prelude", "Root"})
  /\ ReturnOrFail(FirstEntries)
  /\ Inputs

(* Deviations: what was read of the contents is skipped once more; what was  *)
(* read of the payload input is not counted.                                *)
LeaveContentsFromStart(d) ==
  IF PayloadInput
    THEN {[d EXCEPT !.payload_consumed = @ + d.contents.offset]}
    ELSE Skip(d, ContentSize(d.header))

LeaveContentsUncounted(d) ==
  IF PayloadInput
    THEN {d}
    ELSE Skip(d, ContentSize(d.header) - d.contents.offset)

(* The contents of the current file are left behind, however much of them    *)
(* was read.                                                                *)
LeaveContents(d) ==
  IF PayloadInput
    THEN {[d EXCEPT !.payload_consumed = @ + d.contents.offset]}
  ELSE IF d.contents.offset <= ContentSize(d.header)
    THEN Skip(d, ContentSize(d.header) - d.contents.offset)
    ELSE {}

(* An entry is complete: only FILENAME or GOODBYE may follow.  Any other     *)
(* item is read too, but to no avail.                                       *)
ReadNextHeader(d) ==
  {Enter(Load(d, item), "InDirectory") :
     item \in Headers(d, {"FILENAME", "GOODBYE"})}

ReadHeader ==
  /\ InNext({"Default", "InPayload"})
  /\ ContinueOrFail(
       UNION {ReadNextHeader(d) :
                d \in IF decoder.state = "InPayload"
                        THEN LeaveContents(decoder) ELSE {decoder}})
  /\ Inputs

(* Deviation: the name is appended to the path of the entry before.          *)
SetPathAppending(d, name) == {[d EXCEPT !.path = Append(@, name)]}

(* reset_path and set_path                                                  *)
SetPath(d, name) ==
  IF d.path_lengths = <<>>
    THEN {}
    ELSE {[d EXCEPT !.path =
             Append(SubSeq(@, 1, d.path_lengths[Len(d.path_lengths)]), name)]}

(* handle_file_entry: the rest of the FILENAME, then the entry.              *)
HandleFileEntry ==
  /\ InNext({"InDirectory", "InSpecialFile"})
  /\ decoder.header.htype = "FILENAME"
  /\ ReturnOrFail(
       UNION {ReadNextEntry(d) :
                d \in UNION {SetPath(x, decoder.header.name) :
                        x \in Skip(decoder, ContentSize(decoder.header))}})
  /\ Inputs

GoodbyeTableEntry == [EntryAt(decoder, "GoodbyeTable") EXCEPT !.path = <<>>]

(* Deviation: the state is not changed before the loop goes on.              *)
MeetGoodbyeInPlace ==
  /\ InNext({"InDirectory", "InSpecialFile"})
  /\ decoder.header.htype = "GOODBYE"
  /\ IF decoder.with_goodbye_tables
       THEN Return(Enter(decoder, "InGoodbyeTable"), GoodbyeTableEntry)
       ELSE Continue(decoder)
  /\ Inputs

MeetGoodbye ==
  /\ InNext({"InDirectory", "InSpecialFile"})
  /\ decoder.header.htype = "GOODBYE"
  /\ LET d == Enter(decoder, "InGoodbyeTable") IN
     IF decoder.with_goodbye_tables
       THEN Return(d, GoodbyeTableEntry)
       ELSE Continue(d)
  /\ Inputs

(* Deviation: the end of a directory below the root ends the archive.        *)
LeaveDirectoryAtOnce(d) ==
  LET lengths == SubSeq(d.path_lengths, 1, Len(d.path_lengths) - 1) IN
  [d EXCEPT !.path_lengths = lengths, !.state = "Eof"]

(* The parent goes on; the root's table is the end of the archive.           *)
LeaveDirectory(d) ==
  LET lengths == SubSeq(d.path_lengths, 1, Len(d.path_lengths) - 1) IN
  [d EXCEPT !.path_lengths = lengths,
            !.state = IF lengths = <<>> THEN "Eof" ELSE "Default"]

SkipGoodbyeTable ==
  /\ InNext({"InGoodbyeTable"})
  /\ LET left == {LeaveDirectory(d) :
                    d \in Skip(decoder, ContentSize(decoder.header))}
     IN IF left = {} \/ decoder.path_lengths = <<>>
          THEN ReturnError
          ELSE \E d \in left :
                 /\ decoder' = d
                 /\ call' = IF d.state = "Eof" THEN "ended" ELSE call
                 /\ UNCHANGED seen
  /\ Inputs

-----------------------------------------------------------------------------
(***************************************************************************)
(* The calls.                                                              *)
(***************************************************************************)

(* new(): a payload input begins with a marker.                             *)
StartMarker ==
  \E c \in payload_input.cells :
    c.at = 0 /\ c.item.htype = "PAYLOAD_START_MARKER"

Create ==
  /\ call = "new"
  /\ IF PayloadInput /\ ~(StartMarker /\ HeaderSize <= payload_input.len)
       THEN ReturnError
       ELSE /\ decoder' = [NewDecoder EXCEPT
                             !.payload_pos = IF PayloadInput
                                               THEN HeaderSize ELSE 0,
                             !.payload_consumed = IF PayloadInput
                                                    THEN HeaderSize ELSE 0]
            /\ call' = "idle"
            /\ UNCHANGED seen
  /\ Inputs

EnableGoodbyeEntries(on) ==
  /\ call = "idle"
  /\ decoder' = [decoder EXCEPT !.with_goodbye_tables = on]
  /\ Inputs /\ UNCHANGED <<call, seen>>

(* After the end, next() goes on returning None.                             *)
CallNext ==
  /\ call \in {"idle", "ended"}
  /\ call' = "next"
  /\ Inputs /\ UNCHANGED <<decoder, seen>>

(* Deviation: the header is not counted as consumed.                         *)
CheckHeaderUncounted(d) ==
  [d EXCEPT !.payload_pos = @ + HeaderSize, !.contents.header_checked = TRUE]

CheckHeader(d) ==
  [d EXCEPT !.payload_pos = @ + HeaderSize, !.payload_consumed = @ + HeaderSize,
            !.contents.header_checked = TRUE]

PayloadHeaderFits ==
  \E c \in payload_input.cells :
    /\ c.at = decoder.payload_pos
    /\ c.item.htype = "PAYLOAD"
    /\ c.item.content = decoder.contents.size
    /\ c.at + HeaderSize <= payload_input.len

(* content_reader(): the header in front of the contents is read once.       *)
ContentReader ==
  /\ call = "idle"
  /\ decoder.state = "InPayload"
  /\ PayloadInput
  /\ ~decoder.contents.header_checked
  /\ IF PayloadHeaderFits THEN Continue(CheckHeader(decoder)) ELSE ReturnError
  /\ Inputs

(* Deviation: what was read is not counted.                                  *)
ReadContentsUncounted(k) ==
  /\ call = "idle"
  /\ decoder.state = "InPayload"
  /\ PayloadInput => decoder.contents.header_checked
  /\ decoder' = IF PayloadInput THEN [decoder EXCEPT !.payload_pos = @ + k]
                               ELSE [decoder EXCEPT !.pos = @ + k]
  /\ decoder'.pos <= input.len /\ decoder'.payload_pos <= payload_input.len
  /\ Inputs /\ UNCHANGED <<call, seen>>

(* A read through Contents; one that gets nothing changes nothing.           *)
ReadContents(k) ==
  /\ call = "idle"
  /\ decoder.state = "InPayload"
  /\ PayloadInput => decoder.contents.header_checked
  /\ k <= decoder.contents.size - decoder.contents.offset
  /\ IF PayloadInput
       THEN /\ decoder.payload_pos + k <= payload_input.len
            /\ decoder' = [decoder EXCEPT !.contents.offset = @ + k,
                                          !.payload_pos = @ + k]
       ELSE /\ decoder.pos + k <= input.len
            /\ decoder' = [decoder EXCEPT !.contents.offset = @ + k,
                                          !.pos = @ + k]
  /\ Inputs /\ UNCHANGED <<call, seen>>

-----------------------------------------------------------------------------
DecoderInit ==
  /\ decoder = NewDecoder
  /\ call = "new"
  /\ seen = <<>>

(* One turn inside next().                                                  *)
Turn ==
  \/ AtEnd
  \/ ReadFirstEntry
  \/ ReadHeader
  \/ HandleFileEntry
  \/ MeetGoodbye
  \/ SkipGoodbyeTable

Calls ==
  \/ Create
  \/ CallNext
  \/ ContentReader
  \/ \E on \in GoodbyeModes : EnableGoodbyeEntries(on)
  \/ \E k \in ReadSizes : ReadContents(k)

DecoderNext == Turn \/ Calls
=============================================================================
