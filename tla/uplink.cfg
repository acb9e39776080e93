SPECIFICATION LiveSpec
CONSTANTS
  Cycle <- MCCycle
  Queued <- MCQueued
  Uplink = 0
  Deck <- MCDeck
  Uplinks <- MCUplinks
  PairsMax = 2
  TriesMax = 3
  RetryMax = 2
  WriteSize = 2
  ReadSize = 3
  CounterMod = 2
  MaxUplinks = 2
  MaxTorn = 1
  MaxFaults = 4
INVARIANTS
  TypeOK
  InUplinkOrder
  CounterCountsQueued
  OwnReply
  FailedWriteIsFlagged
  OutcomeIsTrue
PROPERTIES
  CommandsDispatched
  StepIsFound
