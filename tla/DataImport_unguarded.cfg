SPECIFICATION Spec
CONSTANTS
  Operation = {o1, o2}
  NoOp = NoOp
  Original = Original
  Key = {k1, k2}
  Absent = Absent
  Page = {p1}
  MaxCrashes = 1
  Faults = {"early"}
SYMMETRY Symmetry
INVARIANTS AdmitsWhole
CHECK_DEADLOCK FALSE
