----------------------------- MODULE MCSeqReadAt ----------------------------
(***************************************************************************)
(* Ranges for TLC: all within a source and one byte beyond its end.        *)
(***************************************************************************)
EXTENDS SeqReadAt

MCRanges == [start : 0..SourceLen, end : 0..SourceLen + 1]
=============================================================================
