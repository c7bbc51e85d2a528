CONSTANTS
  m1 = m1
  m2 = m2
  Mac = {m1, m2}
  Daemons = {d}
  Onces = {o}
  Flushes = {}
  Checks = {}
  Probe = m1
  Wants <- AnyWant
  Faults = {}
SPECIFICATION Spec
INVARIANT NoOrphan
