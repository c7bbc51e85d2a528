SPECIFICATION Spec
CONSTANTS
  Mac = {m1}
  Port = {p1}
  Home <- OneHome
  Pinned = {}
  Limit = 9
  Ageing = 1
  MaxForeign = 0
  MaxStamp = 3
  World = {"wire", "vf"}
  Faults = {"add", "crash", "delete", "read", "reset"}
  m1 = m1
  m2 = m2
  p1 = p1
INVARIANT TypeOK
PROPERTIES RegisteredStays NeverTakesVf AwayStaysOut
