SPECIFICATION FairSpec
CONSTANTS
  Duration = 3
  MaxLate = 1
  DiskMayFill = TRUE
  Client = {c1, c2}
  DefaultPort = 554
  ServerPort = 8554
  StatusEvery = 2
  BufferSize = 2
  Blinks = 2
  TARGET_SAMPLES = 3
  Readings <- MCReadings
  Extreme = 4
  MaxFrames = 3
INVARIANT TypeOK
INVARIANT CallbackDataAlive
INVARIANT FramesAddUp
 
INVARIANT ClientsServed
INVARIANT DeviceAsReported
PROPERTY ImplementsScope
PROPERTY EndAdvances
PROPERTY Ends
