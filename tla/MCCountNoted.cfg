SPECIFICATION Spec
CONSTANTS
  k1 = k1
  k2 = k2
  d1 = d1
  blank = blank
  torn = torn
  nothing = nothing
  Items <- MCItems
  Counts <- MCCounts
  Documents <- MCDocuments
  Opening <- MCOpening
  Scope <- MCScope
  Lines <- MCLines
  Figures <- FoundFigures
  Blank = blank
  Notes <- MCNotes
  NoNote = nothing
  MaxTyped = 2
  MaxDrops = 0
SYMMETRY CountsAlike
INVARIANT NeitherUndoneNorTwice
CHECK_DEADLOCK FALSE
