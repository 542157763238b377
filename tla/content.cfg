SPECIFICATION Spec

CONSTANTS
  f1 = f1
  f2 = f2
  Fibers = {f1, f2}
  Nobody = nobody
  MaxRows = 3
  MaxUpsets = 2

SYMMETRY Alike

INVARIANTS
  OneMap
  BackfillRepairs

CHECK_DEADLOCK FALSE
