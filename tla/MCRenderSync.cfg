SPECIFICATION Spec
CONSTANTS
  MaxFrame = 4
INVARIANTS RasterCurrent ListsStable DrawnFresh
