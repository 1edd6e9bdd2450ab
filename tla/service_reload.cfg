SPECIFICATION FairSerialSpec
CONSTANTS
  Xively = Xively
  TcpClient = TcpClient
  Services = {Xively, TcpClient}
  Scripts <- InitScripts
  Pids = {p1, p2, p3}
  Reloads = {r1, r2}
  ByHand = {h1}
  None = None
INVARIANTS TypeOK OneOfEach WantedRun
PROPERTIES RunsEnd
