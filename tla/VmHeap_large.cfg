\* Arrays of whole pages in a Release build.
CONSTANTS
  PageBits = 2
  HeapSize = 9
  StackSize = 4
  Scalars = {1, 2}
  Lengths = {1, 2, 3}
  Nested = FALSE
  IterTemps = FALSE
  MaxHostArgs = 0
  Debug = FALSE
SPECIFICATION Spec
CHECK_DEADLOCK FALSE
PROPERTY LiveKept
