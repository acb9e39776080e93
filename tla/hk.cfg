SPECIFICATION LiveSpec
CONSTANTS
  RetryMax = 2
  LoopEvery = 2
  Measurements = 3
  MaxCommands = 3
  MaxLost = 2
  MaxLate = 1
INVARIANTS
  TypeOK
  LabelsAreTrueInTime
PROPERTIES
  NoMeasurementSkipped
  CountedWhenComplete
  PollingGoesOn
