CONSTANTS
  actor = actor
  npc = npc
  weapon = weapon
  shell = shell
  dart = dart
  Ids <- MCIds
  Rank <- MCRank
  NoParent = NoParent
  WireBound = 2
  LuggageBound = 2
SPECIFICATION Spec
INVARIANTS Agreement DestroyEnds WireReplays
PROPERTY TreeSpec
