------------------------------ MODULE RoundTrip -----------------------------
(***************************************************************************)
(* An archive is written by the encoder, perhaps loses its end, and is read *)
(* by the sequential decoder.                                              *)
(***************************************************************************)
EXTENDS PxarEncoderProperties, PxarDecoder

CONSTANT Losses   \* how many bytes may be left of an item that is cut in two

ASSUME LossesAssumption == Losses \subseteq Nat

roundTripVars ==
  <<archive, payload, state, file, phase, result, links, promised, faults,
    input, payload_input, decoder, call, seen>>

(* A stream that ends early.  Of an item cut in two the header may be left.   *)
Lossy(s, n) == [len |-> n, cells |-> {c \in s.cells : c.at < n}]

Lost(s) ==
  {Lossy(s, n) : n \in {c.at + b : c \in s.cells, b \in Losses}
                         \cap (0..s.len - 1)}

RoundTripInit ==
  /\ Init
  /\ input = EmptyStream
  /\ payload_input = EmptyStream
  /\ DecoderInit

Encode == Next /\ UNCHANGED decoderVars

(* The reader gets what was stored.                                         *)
HandOver ==
  /\ phase = "closed"
  /\ input = EmptyStream
  /\ \/ input' = archive /\ payload_input' = payload
     \/ input' \in Lost(archive) /\ payload_input' = payload
     \/ input' = archive /\ payload_input' \in Lost(payload)
  /\ input' # EmptyStream
  /\ UNCHANGED <<decoder, call, seen>>
  /\ UNCHANGED vars

Decode ==
  /\ input # EmptyStream
  /\ DecoderNext
  /\ UNCHANGED vars

RoundTripNext == Encode \/ HandOver \/ Decode

Turns == input # EmptyStream /\ Turn /\ UNCHANGED vars

(* The caller drives the future returned by next() to its end; it need not  *)
(* call anything.                                                           *)
RoundTripSpec ==
  RoundTripInit /\ [][RoundTripNext]_roundTripVars /\ WF_roundTripVars(Turns)

-----------------------------------------------------------------------------
(***************************************************************************)
(* Types.                                                                  *)
(***************************************************************************)
CurrentHeaders ==
  {Marker("ZEROED")}
    \cup {item \in {c.item : c \in input.cells} : item.htype # "DATA"}

ContentsFields == [offset : Nat, size : Nat, header_checked : BOOLEAN]

Decoders ==
  [pos : Nat, payload_pos : Nat, state : States, header : CurrentHeaders,
   contents : ContentsFields, path : Seq(Names), path_lengths : Seq(Nat),
   with_goodbye_tables : BOOLEAN, payload_consumed : Nat]

(* reset_path finds every directory it goes back to within the path.         *)
LengthsOK(d) ==
  /\ \A i, j \in 1..Len(d.path_lengths) :
       i <= j => d.path_lengths[i] <= d.path_lengths[j]
  /\ \A i \in 1..Len(d.path_lengths) : d.path_lengths[i] <= Len(d.path)

DecoderOK(d) ==
  /\ d \in Decoders
  /\ LengthsOK(d)
  /\ d.contents.offset <= d.contents.size
  /\ d.pos <= input.len
  /\ d.payload_pos <= payload_input.len

(* The type invariant: the decoder never is behind the end of an input, nor  *)
(* of the contents it has announced (Contents::at subtracts), and its path   *)
(* holds those of all directories it is in.                                 *)
DecoderTypeOK ==
  /\ call \in {"new", "idle", "next", "ended", "failed"}
  /\ DecoderOK(decoder)

IsNamed(entry) ==
  /\ entry.kind \notin {"Version", "Prelude", "GoodbyeTable"}
  /\ entry.path # <<>>

NamedIn(entries, n) == {j \in 1..n : IsNamed(entries[j])}

SeenNamed == NamedIn(seen, Len(seen))

(***************************************************************************)
(* Properties.                                                             *)
(***************************************************************************)
Whole == input = archive /\ payload_input = payload

(* finish() of the root said Ok, no call of the encoder had failed, every     *)
(* payload referenced was written, and nothing was lost on the way.          *)
Sound == result = "ok" /\ faults = {} /\ promised = <<>> /\ Whole

(* An archive whose finish() said Ok, and no call for which failed, is        *)
(* decoded without an error, whatever of the contents the caller reads.      *)
SoundArchivesDecode == Sound => call # "failed"

(* next() returns the entries in the order they were added, none left out,   *)
(* each with the path and the kind that the goodbye tables, which it only    *)
(* skips, give it.                                                          *)
SeenAsListed ==
  Sound =>
    /\ Cardinality(SeenNamed) <= Cardinality(Filenames)
    /\ call = "ended" => Cardinality(SeenNamed) = Cardinality(Filenames)
    /\ \A j \in SeenNamed :
         LET c == NthName(Cardinality(NamedIn(seen, j))) IN
         seen[j].path = PathOf(c) /\ seen[j].kind = KindOf(c)

(* The contents a caller reads are those of the file next() has returned     *)
(* last: the input stands as far behind its PAYLOAD header as the caller has *)
(* read.                                                                    *)
CurrentName == NthName(Cardinality(SeenNamed))

CurrentPayload ==
  IF PayloadInput
    THEN {c \in CellsOf(payload, "PAYLOAD") :
            <<c.at>> = seen[Len(seen)].payload_offset}
    ELSE {c \in CellsOf(archive, "PAYLOAD") :
            /\ c.at > CurrentName.at
            /\ \A x \in CellsOf(archive, "PAYLOAD") :
                 x.at > CurrentName.at => x.at >= c.at}

ContentsAreTheFiles ==
  /\ Sound
  /\ call = "idle"
  /\ decoder.state = "InPayload"
  /\ PayloadInput => decoder.contents.header_checked
  => \E c \in CurrentPayload :
       /\ c.item.content = decoder.contents.size
       /\ (IF PayloadInput THEN decoder.payload_pos ELSE decoder.pos)
            = c.at + HeaderSize + decoder.contents.offset

(* payload_consumed, from which the decoder computes how far to skip, is the *)
(* position of the payload input, but for what was read of the current file. *)
ConsumedIsPosition ==
  PayloadInput /\ call = "idle" =>
    decoder.payload_pos =
      decoder.payload_consumed
        + (IF decoder.state = "InPayload" THEN decoder.contents.offset ELSE 0)

IsDirectory(entry) == entry.kind = "Directory"

(* next() only says None at the end of an archive that is all there, even if *)
(* calls of the encoder failed half way: an archive that lost its end, an    *)
(* entry torn by a failed call or a directory without its table is an error *)
(* sooner or later.                                                         *)
CleanEndMeansWhole ==
  call = "ended" /\ result # "incomplete" =>
    /\ input = archive
    /\ decoder.pos = archive.len
    /\ Cardinality(SeenNamed) = Cardinality(Filenames)
    /\ Cardinality({j \in 1..Len(seen) : IsDirectory(seen[j])})
         = Cardinality(CellsOf(archive, "GOODBYE"))

(* Every next() returns.                                                    *)
NextReturns == (call = "next") ~> (call # "next")
=============================================================================
