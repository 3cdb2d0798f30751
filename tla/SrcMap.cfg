\* Five names in tables of one slot and more.
CONSTANTS
  a = a
  b = b
  c = c
  d = d
  e = e
  Keys = {a, b, c, d, e}
  Vals = {1, 2}
  Empty = Empty
  NoVal = NoVal
  Hash <- MCHash
  InitialCapacity = 1
SPECIFICATION FairSpec
INVARIANT TypeOK
INVARIANT Findable
INVARIANT HasRoom
INVARIANT GrowsOnce
PROPERTY Answered
PROPERTY ImplementsSymbolMap
