\* One class, three texts, a file that changes at any moment.
CONSTANTS
  XuCount = 1
  Sources <- SomeSources
  Default <- DefaultInterface
  Supplies <- SomeSupplies
  MaxClock = 2
SPECIFICATION FairSpec
INVARIANT TypeOK
INVARIANT EnvMatches
INVARIANT CallsRunWhatWasExtracted
PROPERTY CatchesUp
