\* Two functions of up to three parameters, of which an entry point takes two.
CONSTANTS
  Names <- SomeNames
  ArgTypes <- SomeTypes
  ReturnTypes <- SomeReturnTypes
  Segments <- SomeSegments
  MaxExports = 2
  MaxParams = 3
  MaxArgs = 2
SPECIFICATION Spec
INVARIANT Decodable
INVARIANT FoundByItsOwnType
INVARIANT CountsAgree
INVARIANT FlatArgumentsFit
CHECK_DEADLOCK FALSE
