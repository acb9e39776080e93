SPECIFICATION LiveSpec
CONSTANTS
  Size <- MCSize
  RetryMax = 2
  MaxCommands = 1
  MaxLost = 3
  MaxLate = 2
INVARIANTS
  TypeOK
  PacketsAreTrueInTime
  HealthIsWhole
  ClosedPortIsLeftAlone
PROPERTY HealthGoesOn
