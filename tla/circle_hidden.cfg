SPECIFICATION Spec
CONSTANTS
  Order <- MCOrder
  Canisters <- MCCanisters
  CMOSs <- MCCMOSs
INVARIANT FailureIsReported
