CONSTANTS
  m1 = m1
  m2 = m2
  Mac = {m1, m2}
  Daemons = {d}
  Onces = {}
  Flushes = {f}
  Checks = {}
  Probe = m1
  Wants <- AnyWant
  Faults = {"crash", "read", "write", "append", "add", "delete", "ack", "foreign", "reset"}
SPECIFICATION Spec
INVARIANT TypeOK NoOrphan Inv
PROPERTY FlushIsClean Accounted
