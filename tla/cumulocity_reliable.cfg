SPECIFICATION FairSpec
CONSTANTS
  Clients = {c1}
  Ids = {i1, i2, i3}
  Types = {t1}
  Alarms = {a1, a2}
  FirstPiece = 2
  None = None
  Commands = {"g", "d", "u", "a", "p", "ga", "sa", "ca"}
  Overlap = FALSE
  DebugSet = TRUE
  Faults = {"operator"}

INVARIANTS RegisteredOrNot
PROPERTIES RegistersEventually ClearsAll
