------------------------------ MODULE TreeSizes -----------------------------
(***************************************************************************)
(* The array search tree for every size up to a bound: the layout copy()    *)
(* computes against the definition of a search tree, and search_by against  *)
(* the definition of membership.  A behaviour builds the arrays of all     *)
(* sizes one after the other.                                              *)
(***************************************************************************)
EXTENDS BinaryTreeArray

CONSTANT MaxSize   \* bound: the largest array

ASSUME MaxSizeAssumption == MaxSize \in Nat

VARIABLES
  calls,   \* what copy() calls its callback with
  tree     \* the array built from the sorted array <<0, 2, 4, ...>>

vars == <<calls, tree>>

Evens(n) == [k \in 1..n |-> 2 * (k - 1)]

Init == calls = <<>> /\ tree = <<>>

n == Len(tree)

Next ==
  /\ n < MaxSize
  /\ calls' = Copy(n + 1)
  /\ tree' = TreeOf(Evens(n + 1))

Last == n = MaxSize /\ UNCHANGED vars

Spec == Init /\ [][Next \/ Last]_vars

(* copy() calls back once for each source and once for each destination, and *)
(* for no other: nothing is overwritten and nothing stays uninitialized.    *)
CopyIsPermutation ==
  /\ Len(calls) = n
  /\ {calls[k][1] : k \in 1..Len(calls)} = 0..n - 1
  /\ {calls[k][2] : k \in 1..Len(calls)} = 0..n - 1

(* Walking up from any index, each element passed is greater when coming     *)
(* from its left child and smaller when coming from its right.              *)
OnRightSide(x) ==
  LET up[i \in 0..n - 1] ==
        IF i = 0 THEN TRUE
        ELSE LET parent == (i - 1) \div 2 IN
             /\ IF i % 2 = 1 THEN tree[x + 1] < tree[parent + 1]
                             ELSE tree[x + 1] > tree[parent + 1]
             /\ up[parent]
  IN up[x]

CopyIsSearchTree == \A x \in 0..n - 1 : OnRightSide(x)

Finds(index, key) ==
  IF key % 2 = 0 /\ key < 2 * n
    THEN index # None /\ tree[index + 1] = key
    ELSE index = None

(* Neighbours of the sorted array taken as equal, in pairs: the first two,   *)
(* the next two, ... (by is 0), or all but the first (by is 2).             *)
Paired(by) == [i \in 1..n |-> (tree[i] + by) \div 4]

(* The index is that of the first match, or of the one behind it that a      *)
(* lookup comes to by skipping one.                                         *)
FoundAsTwin(pairs, index) ==
  LET first == SearchBy(pairs, pairs[index + 1], 0, 0) IN
  index \in {first, SearchBy(pairs, pairs[index + 1], first, 1)}

(* search_by finds every element that is there, at its index, and none that  *)
(* is not: the odd numbers and what is beyond the last element.  Of two     *)
(* equal elements, which copy() may leave side by side, one above the other *)
(* or in different subtrees, it finds both.                                 *)
SearchIsMembership ==
  /\ \A key \in 0..2 * n + 1 : Finds(SearchBy(tree, key, 0, 0), key)
  /\ \A by \in {0, 2} : \A i \in 0..n - 1 : FoundAsTwin(Paired(by), i)

(* What binary_tree_array.rs says of search_by: "The parameter `skip`        *)
(* defines the number of matches to ignore while searching before returning *)
(* the index in order to lookup duplicate entries in the tree."  So that    *)
(* the matches can be enumerated, here all of an array of equal elements.   *)
EveryDuplicateIsFound ==
  {SearchBy([i \in 1..n |-> 0], 0, 0, skip) : skip \in 0..n - 1} = 0..n - 1
=============================================================================
