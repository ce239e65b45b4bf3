CONSTANTS
  Direct = TRUE
  MaxCalls = 3
SPECIFICATION Spec
INVARIANT ConsoleRestored
CHECK_DEADLOCK FALSE
