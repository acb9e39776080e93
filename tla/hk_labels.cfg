SPECIFICATION Spec
CONSTANTS
  RetryMax = 1
  LoopEvery = 2
  Measurements = 3
  MaxCommands = 2
  MaxLost = 0
  MaxLate = 1
INVARIANT LabelsAreTrue
