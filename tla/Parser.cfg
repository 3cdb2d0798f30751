\* Sources written down, and texts with one token wrong.
CONSTANTS
  Texts <- AllTexts
SPECIFICATION Spec
CHECK_DEADLOCK FALSE
INVARIANT RoundTrip
INVARIANT NothingLost
