--------------------------- MODULE MCRandomAccess ---------------------------
(***************************************************************************)
(* Values of the constants of encoder and accessor for TLC.                *)
(***************************************************************************)
EXTENDS RandomAccess

(* "a" and "bb" collide.                                                    *)
MCNameLen == [n \in Names |-> IF n = "bb" THEN 2 ELSE 1]
MCHashOf == [n \in Names |-> IF n = "b" THEN 1 ELSE 2]
MCLayout == [n \in 0..MaxItems |-> TreeOf([k \in 1..n |-> k])]

NoPrelude == {<<>>}
OnePrelude == {<<3>>}

DirAndFile ==
  {[kind |-> "dir", attrs |-> 0], [kind |-> "file", attrs |-> 24]}
WithSymlink == DirAndFile \cup {[kind |-> "symlink", attrs |-> 0]}
WithFifo == DirAndFile \cup {[kind |-> "fifo", attrs |-> 0]}

(* Paths of up to two names, from the directory or from "/", with "..".      *)
SomePaths ==
  {<<>>, <<"/">>} \cup {<<n>> : n \in Names} \cup {<<n, m>> : n, m \in Names}
    \cup {<<"/", n>> : n \in Names} \cup {<<n, "..">> : n \in Names}
DeepPaths == {<<"/", "a">>, <<"a", "a">>}
=============================================================================
