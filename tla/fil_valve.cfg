SPECIFICATION Spec
CONSTANTS
  Mac = {m1, m2}
  Port = {p1}
  Home <- OneHome
  Pinned = {}
  Limit = 2
  Ageing = 1
  MaxForeign = 1
  MaxStamp = 3
  World = {"foreign", "link", "unplug"}
  Faults = {"refuse", "save"}
  m1 = m1
  m2 = m2
  p1 = p1
SYMMETRY AnyMac
PROPERTIES NewOutranksQuiet SpeakersAreRemembered
