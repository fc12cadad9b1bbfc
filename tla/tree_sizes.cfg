SPECIFICATION Spec
CONSTANT MaxSize = 260
INVARIANTS
  CopyIsPermutation
  CopyIsSearchTree
  SearchIsMembership
