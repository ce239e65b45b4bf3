CONSTANTS
  ROWS = 2
  COLS = 2
  TabStop = 1
  Glyphs = {"g"}
  Space = " "
  Attrs = {"default", "red"}
  Default = "default"
  Params <- SomeParams

SPECIFICATION MCSpec
INVARIANTS
  PointerAtCursor
  PatternsMatchByParts ArithmeticEvaluates FieldsSplit ConditionIsTrue
  TreeParsesBack TextLexesBack
PROPERTIES
  ImplementsBytes
CHECK_DEADLOCK FALSE
