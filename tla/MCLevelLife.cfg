SPECIFICATION FairSpec
CONSTANTS
  Levels = {l1, l2}
  NoLevel = NoLevel
  MaxDeferred = 5
  MaxEntries = 8
  MaxDebt = 1
INVARIANTS CalledLevelReady LevelRegisteredOnce SomethingToShow IdleMeansLoaded
PROPERTIES LoadingEventsLive LoadingEnds
