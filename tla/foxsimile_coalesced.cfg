SPECIFICATION Spec
CONSTANTS
  Spacewire <- MCSpacewire
  Commands <- MCCommands
  Crc <- MCCrc
  Responders <- MCResponders
  lookup <- MCLookup
  response_lookup <- MCResponses
  Requests <- FormatterRequests
  Rings <- MCRings
  Memory <- MCMemory
  Chunks = {12}
  Stray = {0}
  Patient = FALSE
  MaxSent = 2
  MaxClosed = 0
INVARIANTS
  PacketsAreReassembled
CHECK_DEADLOCK FALSE
