\* Three names in at most three open scopes; the third growth of a table is larger than a chunk.
CONSTANTS
  a = a
  b = b
  long = long
  Names = {a, b, long}
  Types = {int, bool}
  NoType = NoType
  int = int
  bool = bool
  Zero = Zero
  Junk = Junk
  Length <- MCLength
  Rank <- MCRank
  MinSize = 12
  InitialCapacity = 1
  OtherSizes = {3}
  MaxScopes = 3
  MaxObjects = 9
SPECIFICATION FairSpec
INVARIANT TypeOK
INVARIANT Separate
INVARIANT Ordered
PROPERTY Returns
PROPERTY ImplementsScopes
CHECK_DEADLOCK FALSE
