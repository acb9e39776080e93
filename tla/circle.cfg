SPECIFICATION LiveSpec
CONSTANTS
  Order <- MCOrder
  Canisters <- MCCanisters
  CMOSs <- MCCMOSs
INVARIANTS
  TypeOK
  NothingWaitsLong
  SeenFailureIsFlagged
  UnqueuedIsShown
PROPERTIES
  SystemsAreServed
  BothBuffersAreRead
