\* Strings and flat arrays of two different values, fewer than a page, loops over
\* arrays a variable keeps, one string argument per call.
CONSTANTS
  PageBits = 3
  HeapSize = 6
  StackSize = 4
  Scalars = {1, 2}
  Lengths = {0, 1, 2}
  Nested = FALSE
  IterTemps = FALSE
  MaxHostArgs = 1
  Debug = TRUE
SPECIFICATION Spec
CHECK_DEADLOCK FALSE
INVARIANT TypeOK
INVARIANT LiveMarked
INVARIANT OomOnlyWhenFull
INVARIANT NeverAborts
PROPERTY LiveKept
PROPERTY ImplementsArrayStore
