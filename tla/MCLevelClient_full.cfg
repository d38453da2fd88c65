CONSTANTS
  npc = npc
  medkit = medkit
  gun = gun
  Actor = actor
  Stalkers <- MCStalkers
  Items <- MCItems
  Capacity = 1
  NoParent = NoParent
  WireBound = 5
SPECIFICATION ClientSpec
INVARIANT ClientAccepts
