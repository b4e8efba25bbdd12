\* The FIFO may run empty at any pixel clock.
SPECIFICATION TimingSpec
CONSTANTS
  CountSpace = 16
  Timings <- MCTimings
PROPERTIES
  LinePeriod
  FramePeriod
