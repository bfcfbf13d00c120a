SPECIFICATION Spec
CONSTANTS
  Operation = {o1, o2}
  NoOp = NoOp
  Original = Original
  Key = {k1, k2}
  Absent = Absent
  Page = {p1}
  MaxCrashes = 3
  Faults = {"storage", "question", "queue"}
SYMMETRY Symmetry
INVARIANTS AdmitsWhole MarkerMatches
PROPERTIES ImplementsAtomicImport NeverReapplied
CHECK_DEADLOCK FALSE
