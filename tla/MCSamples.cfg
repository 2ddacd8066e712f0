CONSTANTS
  Groups = {a, b}
  Callers = {{a}, {b}}
  Claims = {c}
  N = 3
  Old = 2
  Requests = {r1, r2}
  Targets = {"in_use"}
  None = None
  Done = Done
SPECIFICATION Spec
SYMMETRY Symmetry
INVARIANTS ChildrenOfGroupFollow DerivedFollowSample AlertsAreTheBlocked
CHECK_DEADLOCK FALSE
