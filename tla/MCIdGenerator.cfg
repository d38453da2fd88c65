SPECIFICATION IdSpec
CONSTANTS
  MinValue = 1
  MaxValue = 5
  BlockSize = 2
  MaxTime = 2
PROPERTIES PoolSpec NoHotReuse
