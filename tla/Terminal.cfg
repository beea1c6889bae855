CONSTANTS
  Keys = {one, enter}
  Enter = enter
  MaxTyped = 4
  MaxRuns = 3
SPECIFICATION Spec
CHECK_DEADLOCK FALSE
INVARIANTS
  TypeOK
  CommandModeKeys
  TerminalRestored
