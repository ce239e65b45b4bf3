CONSTANTS
  VTs = {v0, v1, v2}
  First = v0
  Texts = {blank, a}
  Blank = blank
  Switchers = {keyboard, shell}
  Writers = {program}
  Painters = {shell}
  Nobody = nobody
  Iram = iram
  None = none

SPECIFICATION MCSpec
INVARIANTS
  TypeOK
  ActiveOnDisplay
  OnlySwitchesDeadlock
  KeysArrive
  KeepsLooking
  ConsoleKept
PROPERTIES
  ScreensKept
  Recovers
CHECK_DEADLOCK FALSE
