----------------------------- MODULE PxarFormat -----------------------------
(***************************************************************************)
(* The layout of a pxar stream at the granularity of whole format items.   *)
(*                                                                         *)
(* A stream is a number of bytes plus the set of items found in it, each   *)
(* at the offset where its header starts.  The bytes of an item are not    *)
(* modelled, only how many there are and the fields that another item or   *)
(* another component refers to: names, offsets, sizes and hashes.  Bytes   *)
(* that belong to no item (a write that stopped in the middle, the tail of *)
(* an item cut off) are a gap between items.                               *)
(***************************************************************************)
EXTENDS Naturals, Sequences, FiniteSets

CONSTANTS
  Names,    \* the file names callers use; all pass util::validate_filename
  NameLen,  \* length in bytes of each name
  HashOf    \* hash_filename: SipHash24 of a name, here any function

ASSUME NamesAssumption ==
  /\ NameLen \in [Names -> Nat]
  /\ HashOf \in [Names -> Nat]

(***************************************************************************)
(* Sizes of the fixed parts of the format.                                 *)
(***************************************************************************)
HeaderSize == 16
StatSize == 40
GoodbyeItemSize == 24
PayloadRefSize == 16
DeviceSize == 16
VersionSize == 8
HardlinkOffsetSize == 8

(* The kinds of file a Stat's mode bits distinguish. *)
FileKinds == {"dir", "file", "symlink", "device", "fifo", "socket"}

(* A row of a goodbye table. *)
GoodbyeItem == [hash : Nat, offset : Nat, size : Nat]

(***************************************************************************)
(* Format items.  "size" is the number of bytes a stream grows by, except  *)
(* that a PAYLOAD item is its header only: the content follows as DATA,    *)
(* "content" being the size the header declares.  An ENTRY stands for the  *)
(* stat structure together with the attribute items (XATTR, ACL_*, FCAPS,  *)
(* QUOTA_PROJID) that follow it: "attrs" bytes of them.                    *)
(***************************************************************************)
Metadata == [kind : FileKinds, attrs : Nat]

Filename(n) ==
  [htype |-> "FILENAME", size |-> HeaderSize + NameLen[n] + 1, name |-> n]

Entry(meta) ==
  [htype |-> "ENTRY", size |-> HeaderSize + StatSize + meta.attrs,
   kind |-> meta.kind]

Payload(content) ==
  [htype |-> "PAYLOAD", size |-> HeaderSize, content |-> content]

Data(k) == [htype |-> "DATA", size |-> k]

PayloadRef(offset, content) ==
  [htype |-> "PAYLOAD_REF", size |-> HeaderSize + PayloadRefSize,
   offset |-> offset, content |-> content]

Symlink(len) == [htype |-> "SYMLINK", size |-> HeaderSize + len + 1]

(* "target" is the path, of length "len": which file it names, by the       *)
(* LinkOffset of that file.  No reader looks at it.                         *)
Hardlink(offset, target, len) ==
  [htype |-> "HARDLINK", size |-> HeaderSize + HardlinkOffsetSize + len + 1,
   offset |-> offset, target |-> target]

Device == [htype |-> "DEVICE", size |-> HeaderSize + DeviceSize]

Version == [htype |-> "FORMAT_VERSION", size |-> HeaderSize + VersionSize]

PreludeItem(len) == [htype |-> "PRELUDE", size |-> HeaderSize + len]

GoodbyeSize(rows) == HeaderSize + (rows + 1) * GoodbyeItemSize

(* "rows" is the search tree in array order, 1-based, and "tail" the last   *)
(* item of the table, the one marked PXAR_GOODBYE_TAIL_MARKER.              *)
Goodbye(rows, tail) ==
  [htype |-> "GOODBYE", size |-> GoodbyeSize(Len(rows)), rows |-> rows,
   tail |-> tail]

Marker(htype) == [htype |-> htype, size |-> HeaderSize]

(***************************************************************************)
(* Streams.                                                                *)
(***************************************************************************)
EmptyStream == [len |-> 0, cells |-> {}]

Append1(s, item) ==
  [len   |-> s.len + item.size,
   cells |-> s.cells \cup {[at |-> s.len, item |-> item]}]

CellsOf(s, htype) == {c \in s.cells : c.item.htype = htype}

(* What is left of "full", a stream that grew out of a shorter one, when    *)
(* only its first n bytes were written.                                     *)
Prefix(full, n) ==
  [len   |-> n,
   cells |-> {c \in full.cells : c.at + c.item.size <= n}]
=============================================================================
