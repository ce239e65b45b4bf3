CONSTANTS
  VTs = {v0, v1}
  First = v0
  Texts = {blank}
  Blank = blank
  Switchers = {keyboard}
  Writers = {}
  Painters = {shell}
  Nobody = nobody
  Iram = iram
  None = none

SPECIFICATION Spec
INVARIANTS
  PointersFollowActive
