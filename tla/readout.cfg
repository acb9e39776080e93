SPECIFICATION LiveSpec
CONSTANTS
  Bufs <- MCBufs
  CdTe <- MCCdTe
  Cycle <- MCCycle
  Systems <- MCBufs
  SystemOf <- MCSystemOf
  RetryMax = 2
  FramesPerRing = 2
  FrameSize = 3
  StartAddress = 1
  ReadSize = 2
  AddressStep = 2
  OtherSize = 2
  DownlinkSize = 2
  ReadSomeMax = 4
  CountMod = 2
  AddressMod = 16
  WildPointers = {11}
  Paced = TRUE
  FrameIds = 4
  MaxFaults = 2
INVARIANTS
  TypeOK
  FramerNeverStartsFull
  QueuedFrameIsWhole
  IntactWithoutFaults
PROPERTIES
  PointerFollowsFrame
  InvalidReplyStaysFlagged
  KeepsPromise
  VisitsEnd
  RecoversIntact
  FramesKeepComing
