CONSTANTS
  Keys = {one, enter}
  Enter = enter
  MaxTyped = 4
  MaxRuns = 1
SPECIFICATION Spec
CHECK_DEADLOCK FALSE
INVARIANT PromptWaits
