CONSTANTS
  m1 = m1
  m2 = m2
  Mac = {m1, m2}
  Daemons = {d}
  Onces = {}
  Flushes = {}
  Checks = {c}
  Probe = m1
  Wants <- AnyWant
  Faults = {"crash", "read", "write", "append", "torn", "add", "delete", "ack", "foreign", "reset"}
SPECIFICATION Spec
PROPERTY FinishedLinesStay
