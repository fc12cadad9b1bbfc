SPECIFICATION Spec
CONSTANT MaxSize = 4
INVARIANT EveryDuplicateIsFound
