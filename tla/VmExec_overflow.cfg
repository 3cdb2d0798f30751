\* Programs whose loops reach the end of a small stack.
CONSTANTS
  Programs <- LoopingPrograms
  StackSize = 5
  Behind = 4
  CycleLimit = 60
  Byte = 256
  Answers = {0, 3}
SPECIFICATION FairSpec
CHECK_DEADLOCK FALSE
INVARIANT OverflowStops
