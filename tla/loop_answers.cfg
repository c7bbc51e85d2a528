CONSTANTS
  Floor = 1
  Settle = 2
  Retry = 2
  Grace = 2
  Kinds = {"learn", "age"}
  Claims = {"learn", "age", "operator"}
  Faults = {"refuse", "wait", "lost"}
SPECIFICATION FairSpec
PROPERTY ChangesAreAnswered StopIsHeeded
