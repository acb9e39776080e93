SPECIFICATION Spec
CONSTANTS
  Cycle <- MCCycle
  Queued <- MCQueued
  Uplink = 0
  Deck <- MCDeck
  Uplinks <- SilentUplinks
  PairsMax = 2
  TriesMax = 3
  RetryMax = 1
  WriteSize = 2
  ReadSize = 3
  CounterMod = 2
  MaxUplinks = 1
  MaxTorn = 0
  MaxFaults = 1
INVARIANT NoReplyIsRetried
