CONSTANTS
  Codes = {0, 1}
  Levels = {1}
  Kinds = {"while", "for", "group", "subshell", "pipe", "case"}
  Builtins = {"exit", "break", "continue", "call"}
  Expansions = {}
  Interactive = TRUE
  MaxDepth = 5
  SH_MAX_CALL_DEPTH = 1

SPECIFICATION LoopSpec
INVARIANTS
  TypeOK
  NothingRunsWhilePending
  BreakHasLoop
PROPERTIES
  BreakUnwinds
  ExitUnwinds
