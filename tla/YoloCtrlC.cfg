SPECIFICATION FairSpec
CONSTANTS
  MaxFrames = 2
  MaxQueued = 1
PROPERTY CtrlCExits
