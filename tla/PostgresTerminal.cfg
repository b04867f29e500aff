CONSTANTS
  k1 = k1
  k2 = k2
  e1 = e1
  Key = {k1, k2}
  Entity = {e1}
  Request <- Rivals
  Client = {c1, c2, c3}
  MaxOps = 6
  None = None
SPECIFICATION Spec
SYMMETRY Symmetry
PROPERTIES TerminalIsFinal
CHECK_DEADLOCK FALSE
