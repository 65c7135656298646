SPECIFICATION Spec
CONSTANTS
  Client = {c1, c2}
  DefaultPort = 554
  ServerPort = 8554
  StatusEvery = 2
  MaxFrames = 4
INVARIANT PushedFramesAreSeen
