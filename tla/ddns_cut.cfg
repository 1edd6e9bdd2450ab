SPECIFICATION FairSpec
CONSTANTS
  Procs = {p, q}
  Ips = {x}
  None = None
  ForceInterval = 1
  CheckInterval = 1
  Faults = {"ifdown"}
PROPERTIES LoopsEndlessly
