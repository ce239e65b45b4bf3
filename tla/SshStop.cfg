CONSTANTS
  Tasks = {t1}
  Handles = {h1, h2, h3}
  Console = console
  None = none
  Starters = {console}
  Stoppers = {console}

SPECIFICATION Spec
INVARIANTS
  StopFreesAll
CHECK_DEADLOCK FALSE
