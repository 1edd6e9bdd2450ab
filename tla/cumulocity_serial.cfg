SPECIFICATION Spec
CONSTANTS
  Clients = {c1}
  Ids = {i1, i2, i3}
  Types = {t1, t2}
  Alarms = {a1}
  FirstPiece = 1
  None = None
  Commands = {"g", "d", "u", "a", "p", "ga", "sa", "ca"}
  Overlap = FALSE
  DebugSet = TRUE
  Faults = {"loss", "crash", "erase"}

INVARIANTS TypeOK LocalGidLive AddressesLiveDevice OneIdentity
PROPERTIES AppendKeepsTypes ImplementsIdentity
