--------------------------- MODULE MCPxarEncoder ----------------------------
(***************************************************************************)
(* Values of the encoder's constants for TLC.                              *)
(***************************************************************************)
EXTENDS PxarEncoderProperties, BinaryTreeArray

(* "a" and "bb" collide: their rows in a goodbye table have equal hashes.    *)
MCNameLen == [n \in Names |-> IF n = "bb" THEN 2 ELSE 1]
MCHashOf == [n \in Names |-> IF n = "b" THEN 1 ELSE 2]

(* The permutations binary_tree_array::copy yields.                         *)
MCLayout == [n \in 0..MaxItems |-> TreeOf([k \in 1..n |-> k])]

NoPrelude == {<<>>}
AnyPrelude == {<<>>, <<3>>}

DirMeta == [kind |-> "dir", attrs |-> 0]
FileMeta == [kind |-> "file", attrs |-> 24]
DirAndFile == {DirMeta, FileMeta}
AllMetas == {[kind |-> k, attrs |-> 0] : k \in FileKinds}
=============================================================================
