\* Sensor and capture are started and stopped at any clock; in the end the sensor keeps running.
SPECIFICATION CaptureFairSpec
CONSTANTS
  GenSpace = 16
  RowSpace = 16
  WidthSpace = 16
  LineDepth = 8
  MaxStops = 1
  Height = 2
  Width = 2
  Formats <- MCFormats
INVARIANTS
  WordsInOrder
PROPERTIES
  PictureWhole
  KeepsPromise
  StopObeyed
  CaptureGoesOn
  SnapshotHolds
