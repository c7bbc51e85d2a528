CONSTANTS
  a = a
  b = b
  v = v
  Item = {a, b}
  Vf = {v}
  Attempts = 2
  Ceiling = 2
  MaxSeq = 3
  Faults = {"late", "trailer", "fails", "stray"}
SPECIFICATION Spec
SYMMETRY AnyItem
INVARIANT TypeOK DumpIsWhole AnswerIsOwn AckIsOwn
