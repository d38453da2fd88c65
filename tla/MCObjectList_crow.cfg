CONSTANTS
  actor = actor
  zone = zone
  Object <- MCObject
  Feel <- MCObject
  Garbage <- MCNone
  NoObject = NoObject
  MaxActive = 2
  Links <- MCLinks
  LinkBound = 1
  Rounds = 1
SPECIFICATION Spec
PROPERTIES SheduledAreUpdated
CHECK_DEADLOCK FALSE
