CONSTANTS
  Codes = {0, 1}
  Levels = {1}
  Kinds = {"andor", "if", "until", "pipe", "subshell", "not"}
  Builtins = {"set", "call"}
  Expansions = {}
  Interactive = FALSE
  MaxDepth = 4
  SH_MAX_CALL_DEPTH = 1

SPECIFICATION MCSpec
INVARIANTS
  CountersMatchStack
  WaysOutAreClean
  EnvironmentFollows
  DataArrives
PROPERTIES
  ErrexitIsExact
  IsolationConfinesControl
  BindingsUndone
  StreamsRestored
CHECK_DEADLOCK FALSE
