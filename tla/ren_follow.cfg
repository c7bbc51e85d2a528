CONSTANTS
  m1 = m1
  Mac = {m1}
  i1 = i1
  i2 = i2
  Iface = {i1, i2}
  Name = {1, 2}
  Patient = TRUE
  Reuse = FALSE
  Burst = 1
  Overlap = FALSE
  Faults = {"crash", "delete", "refuse", "flush", "beside"}
SPECIFICATION Spec
INVARIANT TypeOK 
 
SYMMETRY AnyIface
