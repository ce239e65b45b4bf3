CONSTANTS
  Frames = {a, b}
  STREAM_FRAMES = 2
  CounterMod = 4
  CHUNK_FRAMES = 2
  DRAIN_CHUNKS = 1
  MaxWrite = 2
  DualCore = FALSE
  Reopens = TRUE

SPECIFICATION MCSpec
INVARIANTS
  TypeOK
  RingBounded
  SpaceIsHonest
  HeldNoteSounds
  ChannelsInStep
PROPERTIES
  StreamIsFifo
  QueuedFramePlays
  NoteIsHeard
  ReleasedNoteEnds
  SfxPlaysOn
  MusicFades
CHECK_DEADLOCK FALSE
