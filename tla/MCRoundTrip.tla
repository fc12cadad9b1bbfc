----------------------------- MODULE MCRoundTrip ----------------------------
(***************************************************************************)
(* Values of the constants of encoder and decoder for TLC.                 *)
(***************************************************************************)
EXTENDS RoundTrip

T == INSTANCE BinaryTreeArray

MCNameLen == [n \in Names |-> 1]
MCHashOf == [n \in Names |-> IF n = "b" THEN 1 ELSE 2]
MCLayout == [n \in 0..MaxItems |-> T!TreeOf([k \in 1..n |-> k])]

NoPrelude == {<<>>}
AnyPrelude == {<<>>, <<3>>}

DirAndFile ==
  {[kind |-> "dir", attrs |-> 0], [kind |-> "file", attrs |-> 24]}
AllMetas == {[kind |-> k, attrs |-> 0] : k \in FileKinds}
=============================================================================
