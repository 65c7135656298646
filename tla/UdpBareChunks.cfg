SPECIFICATION FairSpec
CONSTANTS
  Scenarios <- MCNothingHappens
  MaxShown = 4
  Headers = FALSE
  Blank = Blank
PROPERTY SentIsShown
