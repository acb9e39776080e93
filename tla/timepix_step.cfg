SPECIFICATION LiveSpec
CONSTANTS
  Size <- MCSize
  RetryMax = 1
  MaxCommands = 0
  MaxLost = 0
  MaxLate = 1
PROPERTY RecoversStep
