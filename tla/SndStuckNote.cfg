CONSTANTS
  NumVoices = 1
  Full = 2
  AttackStep = 1
  ReleaseStep = 1
  ChunkFrames = 2
  MaxNotes = 2
  DualCore = TRUE

SPECIFICATION Spec
INVARIANTS
  ReleasedNoteFades
