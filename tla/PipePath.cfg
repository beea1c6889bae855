CONSTANTS
  Programs = {p1, p2, p3}
  None = none
SPECIFICATION Spec
INVARIANTS
  TypeOK
  PathIsOwn
  NothingLeftBehind
PROPERTY RestartServes
