CONSTANTS
  Codes = {0}
  Levels = {1}
  Kinds = {"subshell"}
  Builtins = {"eval"}
  Expansions = {}
  Interactive = FALSE
  MaxDepth = 7
  SH_MAX_CALL_DEPTH = 1

SPECIFICATION Spec
PROPERTIES
  EvalFatalOnSyntaxError
CHECK_DEADLOCK FALSE
