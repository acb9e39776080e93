SPECIFICATION LiveSpec
CONSTANTS
  Spacewire <- MCSpacewire
  Commands <- MCCommands
  Crc <- MCCrc
  Responders <- MCResponders
  lookup <- MCLookup
  response_lookup <- MCResponses
  Requests <- MCRequests
  Rings <- MCRings
  Memory <- MCMemory
  Chunks = {1, 11}
  Stray = {5}
  Patient = TRUE
  MaxSent = 2
  MaxClosed = 1
INVARIANTS
  TypeOK
  AnswersInOrder
  PointerIsASlot
PROPERTIES
  MessagesAreTakenUp
