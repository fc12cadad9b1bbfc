--------------------------- MODULE BinaryTreeArray --------------------------
(***************************************************************************)
(* binary_tree_array.rs: a sorted array laid out as a binary search tree in *)
(* an array (the children of index i are 2i+1 and 2i+2), and the search in  *)
(* it.  Indexes are 0-based, as in the code; a tree is a sequence, so index *)
(* i is its element i + 1.                                                 *)
(***************************************************************************)
EXTENDS Integers, Sequences, FiniteSets

None == -1

(* The position of the root among n sorted elements, when 2^e is the number *)
(* of nodes on the last level a full tree of this height has.              *)
Pivot(n, e) ==
  LET p == 2 ^ e
      t == p + (p \div 2) - 1
  IN IF n > t THEN p - 1 ELSE p - 1 - (t - n)

(* The calls copy_inner makes to copy_func, in order, as <<src, dest>>.      *)
CopyInner[n, o, e, i \in Nat] ==
  LET m == Pivot(n, e) IN
  <<<<o + m, i>>>>
    \o (IF m > 0
          THEN CopyInner[m, o, e - 1, 2 * i + 1] ELSE <<>>)
    \o (IF m + 1 < n
          THEN CopyInner[n - m - 1, o + m + 1, e - 1, 2 * i + 2] ELSE <<>>)

(* The position of the highest bit: "fast log2(n)".                         *)
Log2(n) == CHOOSE e \in 0..n : 2 ^ e <= n /\ n < 2 ^ (e + 1)

(* Deviation: the right half starts at the root, not behind it.             *)
CopyOverlapping(n) ==
  LET inner[m \in 0..n, o, e, i \in Nat] ==
        LET p == Pivot(m, e) IN
        <<<<o + p, i>>>>
          \o (IF p > 0 THEN inner[p, o, e - 1, 2 * i + 1] ELSE <<>>)
          \o (IF p + 1 < m
                THEN inner[m - p - 1, o + p, e - 1, 2 * i + 2] ELSE <<>>)
  IN IF n = 0 THEN <<>> ELSE inner[n, 0, Log2(n), 0]

Copy(n) == IF n = 0 THEN <<>> ELSE CopyInner[n, 0, Log2(n), 0]

(* The source of a destination, given the calls.                            *)
SourceOf(calls, dest) ==
  LET k == CHOOSE j \in 1..Len(calls) : calls[j][2] = dest IN calls[k][1]

(* Deviation: the sorted items are written without the permutation.         *)
TreeOfUnpermuted(sorted) == sorted

(* The tree copy() builds from a sorted sequence.                           *)
TreeOf(sorted) ==
  LET calls == Copy(Len(sorted))
  IN [d \in 1..Len(sorted) |-> sorted[SourceOf(calls, d - 1) + 1]]

(* Deviation: the children of i are taken to be 2i and 2i+1.                 *)
SearchByOneBased(tree, key, start, skip) ==
  LET find[i \in Nat, k \in Nat] ==
        IF i >= Len(tree) THEN None
        ELSE IF key < tree[i + 1] /\ i > 0 THEN find[2 * i, k]
        ELSE IF key > tree[i + 1] THEN find[2 * i + 1, k]
        ELSE IF key = tree[i + 1] THEN i
        ELSE None
  IN find[start, skip]

(***************************************************************************)
(* search_by with the comparison "key.cmp(element)", the elements being     *)
(* numbers: the loop on i as recursion, "skip" the matches to ignore.       *)
(***************************************************************************)
SearchBy(tree, key, start, skip) ==
  LET find[i \in Nat, k \in Nat] ==
        IF i >= Len(tree) THEN None
        ELSE IF key < tree[i + 1] THEN find[2 * i + 1, k]
        ELSE IF key > tree[i + 1] THEN find[2 * i + 2, k]
        ELSE IF k = 0 THEN i
        ELSE LET left == find[2 * i + 1, k - 1]
             IN IF left # None THEN left ELSE find[2 * i + 2, k - 1]
  IN find[start, skip]
=============================================================================
