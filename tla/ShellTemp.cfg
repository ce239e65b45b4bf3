CONSTANTS
  Tokens = {"a"}
  MaxPipes = 2
  MaxSubsts = 1
  MaxDocs = 0
  MaxRedirs = 0
  Inodes = {1, 2, 3, 4, 5, 6}

SPECIFICATION Spec
INVARIANTS
  DataArrives
