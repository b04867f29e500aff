CONSTANTS
  a = a
  b = b
  Job = {a, b}
  Kinds <- MCKinds
  Run = {r1, r2}
  Cancel = {c1}
  MaxRepair = 0
  MaxImports = 1
  MaxCrashes = 1
  MaxEvents = 1
  None = None
SPECIFICATION Spec
SYMMETRY Symmetry
INVARIANTS CompletedIsProjected EveryRevisionHasOneAuthor
  UndisturbedJobSettles ControllersOK
CHECK_DEADLOCK FALSE
