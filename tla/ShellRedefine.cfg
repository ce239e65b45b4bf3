CONSTANTS
  Funcs = {"f"}
  Sites = {"first", "second"}
  Defines <- DefineF
  MaxCalls = 2

SPECIFICATION Spec
INVARIANTS
  CallsWalkBodies
