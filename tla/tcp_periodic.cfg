SPECIFICATION FairSpec
CONSTANTS
  a = a
  b = b
  v1 = v1
  v2 = v2
  Channels = {a, b}
  Values = {v1, v2}
  Blank = Blank
  Writers = {daemon, w1}
  Daemon = daemon
  Upload = {a}
  Lines <- MCLines
  Sensed = {a}
  OnChange = TRUE
  Interval = 1
  KeepAlive = 0
  RetryWait = 0
  MaxLines = 1
  Faults = {"close", "partial"}
INVARIANTS TypeOK
PROPERTIES LastValueUploaded ReconnectsEventually
