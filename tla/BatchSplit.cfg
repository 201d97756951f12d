SPECIFICATION Spec
CONSTANTS
  Begins = {0, 5}
  BatchSizes = {0, 1, 2, 3, 4, 5, 6, 7, 8, 9, 10, 11, 12}
  Connected = {1, 2, 3, 4, 5}
INVARIANTS
  TypeOK
  BatchUsedUp
  ChunksAreAdjacent
  ChunksAreBalanced
