SPECIFICATION FairSerialSpec
CONSTANTS
  Clients = {c1, c2}
  Daemons = {d1, d2}
  None = None
  StepCount = 3
  Timeout = 0
  MaxTime = 3
  Faults = {"kill", "clockBack"}
INVARIANTS TypeOK OutputWellFormed
PROPERTIES PrintsInOrder HistoryKept ImplementsWindow CollectorsEnd
