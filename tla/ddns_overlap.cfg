SPECIFICATION Spec
CONSTANTS
  Procs = {p, q}
  Ips = {x, y}
  None = None
  ForceInterval = 1
  CheckInterval = 1
  Faults = {}
INVARIANTS OneUpdater
