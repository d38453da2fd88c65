SPECIFICATION FairSpec
CONSTANTS
  Objects = {o1, o2}
  Kinds = {"level", "detail", "vision", "sound", "handler"}
  MaxFrame = 2
  InitialMarker = 100
INVARIANTS Exclusive NoDeadCall WaitIffQueued
PROPERTIES OnePassPerFrame ExitHandshake WorkSpec
