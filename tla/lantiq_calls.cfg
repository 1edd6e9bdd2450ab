SPECIFICATION FairSpec
CONSTANTS
  Ports = {p1}
  Channels = {c1, c2}
  None = None
  Digits = {k1}
  Hash = Hash
  Extensions <- OneDigit
  MaxDigits = 2
  MaxEvents = 2
  MaxOrphans = 1
INVARIANTS TypeOK DialingIsTimed  RingsForACaller KnowsTheHook
PROPERTIES DialingEnds CallsEnd
