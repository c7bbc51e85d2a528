CONSTANTS
  Floor = 1
  Settle = 2
  Retry = 2
  Grace = 1
  Kinds = {"learn", "others", "age", "vf"}
  Claims = {}
  Faults = {"refuse", "wait", "lost", "away"}
SPECIFICATION Spec
INVARIANT TypeOK OutdatedIsDistrusted PaceInv BrakeInv
PROPERTY PassesArePaced RecoveryIsPaced
