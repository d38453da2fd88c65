CONSTANTS
  actor = actor
  zone = zone
  Object <- MCObject
  Feel <- MCObject
  Garbage <- MCGarbage
  NoObject = NoObject
  MaxActive = 2
  Links <- MCLinks
  LinkBound = 1
  Rounds = 1
SPECIFICATION FairSpec
INVARIANTS ListsFollowCounters CrowsAccounted OwnersOutlive NoDanglingLink CallbacksFound
CHECK_DEADLOCK FALSE
PROPERTIES CrowsLive
