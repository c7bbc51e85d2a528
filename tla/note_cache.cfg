CONSTANTS
  a = a
  b = b
  Mac = {a, b}
  Coarse = 2
  MaxTime = 3
  Ops = 2
  Writes = 2
  Tears = 1
  Faults = {"read", "write", "whole"}
SPECIFICATION Spec
SYMMETRY AnyMac
INVARIANT TypeOK CacheIsTruth AnswersAreTrue
PROPERTY LinesSurvive
