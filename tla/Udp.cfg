SPECIFICATION FairSpec
CONSTANTS
  Scenarios <- MCScenarios
  MaxShown = 4
  Headers = TRUE
  Blank = Blank
INVARIANT TypeOK
INVARIANT ShownWasSent
INVARIANT NothingLeftBehind
PROPERTY ShownOnceInOrder
PROPERTY SentIsShown
