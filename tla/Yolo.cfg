SPECIFICATION FairSpec
CONSTANTS
  MaxFrames = 3
  MaxQueued = 2
INVARIANT TypeOK
INVARIANT NoTornFrame
INVARIANT NoFrameForgotten
INVARIANT OverlayConsistent
INVARIANT ResourcesOutliveCallbacks
PROPERTY DetectionsAdvance
PROPERTY ImplementsMailbox
PROPERTY FrameServed
PROPERTY StopEndsOrSleeps
PROPERTY StopAdvances
