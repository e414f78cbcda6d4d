SPECIFICATION Spec
CONSTANTS
  Buffer = {b1, b2, b3}
  NoBuffer = NoBuffer
  Writer = {w1}
  Reader = {r1}
  maxSize = 2
  Urgent = TRUE
  Quiet = TRUE
PROPERTY IdleIgnoredAfterFull
