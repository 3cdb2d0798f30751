\* Every accepted program of a small shape and some longer ones, with room and time for
\* them; bytecode that recurses, overflows the stack and runs out of time.
CONSTANTS
  Programs <- AllPrograms
  StackSize = 24
  Behind = 4
  CycleLimit = 400
  Byte = 256
  Answers = {3}
SPECIFICATION FairSpec
CHECK_DEADLOCK FALSE
INVARIANT AcceptedCompiles
INVARIANT ComputesMeaning
INVARIANT LoopsKeepTheirStack
INVARIANT EnteredByCall
INVARIANT StronglyTyped
INVARIANT BytecodeAgrees
INVARIANT KeepsDiscipline
INVARIANT TypeOK
INVARIANT FrameIsTopmost
INVARIANT CallChain
PROPERTY Terminates
PROPERTY ImplementsActivations
