\* A chain of three subtractions.
CONSTANTS
  Texts <- Chains3
SPECIFICATION Spec
CHECK_DEADLOCK FALSE
INVARIANT RoundTrip
