CONSTANTS
  Requests = 3
  Others = {o1}
  MaxClients = 2
  Backlog = 2
  BufferParts = 1
  MaxFaults = 1
SPECIFICATION FairSpec
INVARIANTS
  TypeOK
  CountIsExact
PROPERTIES
  ImplementsChannel
  AbandonedNeverRuns
  SlotsAreFreed
  EveryRequestEnds
