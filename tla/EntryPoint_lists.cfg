\* As EntryPoint, with lists on both sides.
CONSTANTS
  Names <- SomeNames
  ArgTypes <- SomeTypes
  ReturnTypes <- SomeReturnTypes
  Segments <- SomeSegments
  MaxExports = 2
  MaxParams = 3
  MaxArgs = 2
SPECIFICATION Spec
INVARIANT ArgumentsFit
CHECK_DEADLOCK FALSE
