\* Every kind of program: large and nested arrays, loops over temporaries, a Debug build.
CONSTANTS
  PageBits = 2
  HeapSize = 5
  StackSize = 4
  Scalars = {1}
  Lengths = {0, 1, 3}
  Nested = TRUE
  IterTemps = TRUE
  MaxHostArgs = 1
  Debug = TRUE
SPECIFICATION Spec
CHECK_DEADLOCK FALSE
INVARIANT ReferencesInHeap
