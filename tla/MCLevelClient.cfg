CONSTANTS
  npc = npc
  medkit = medkit
  gun = gun
  Actor = actor
  Stalkers <- MCStalkers
  Items <- MCItems
  Capacity = 2
  NoParent = NoParent
  WireBound = 7
SPECIFICATION ClientSpec
INVARIANTS ClientAccepts InventoryMatches CaughtUp
PROPERTIES ServerSpec Gone
