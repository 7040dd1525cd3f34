SPECIFICATION SearchSpec
CONSTANTS
  MaxLen = 5
  MaxSize = 4
  Lists <- MCLists
  Sizes <- MCSizes
INVARIANT InBounds
INVARIANT ReturnsFirstGte
PROPERTY Terminates
