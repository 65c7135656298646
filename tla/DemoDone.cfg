SPECIFICATION Spec
CONSTANTS
  MaxRuns = 3
  Releases = 2
INVARIANT DoneMeansUsable
