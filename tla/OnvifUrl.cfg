SPECIFICATION Spec
CONSTANTS
  Client = {c1, c2}
  DefaultPort = 554
  ServerPort = 8554
  MaxFrames = 3
INVARIANT AdvertisedUrlWorks
