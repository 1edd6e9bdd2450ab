SPECIFICATION FairSpec
CONSTANTS
  Procs = {p, q}
  Ips = {x, y}
  None = None
  ForceInterval = 1
  CheckInterval = 1
  Faults = {"outage", "staleDns", "ifdown", "renewal"}
INVARIANTS TypeOK NeverAbandoned
PROPERTIES RecordConverges
