\* Any register write or command at any clock.
SPECIFICATION TimingSpec
CONSTANTS
  GenSpace = 8
  Settings <- MCSettings
INVARIANTS
  StopIdles
PROPERTIES
  FrameShape
  Blanking
