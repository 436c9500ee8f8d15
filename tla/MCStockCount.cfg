SPECIFICATION Spec
CONSTANTS
  k1 = k1
  k2 = k2
  d1 = d1
  blank = blank
  torn = torn
  nothing = nothing
  Items <- MCItems
  Counts <- MCCounts
  Documents <- MCDocuments
  Opening <- MCOpening
  Scope <- MCScope
  Lines <- MCLines
  Figures <- MCFigures
  Blank = blank
  Notes <- MCNotes
  NoNote = nothing
  MaxTyped = 3
  MaxDrops = 1
SYMMETRY CountsAlike
CONSTRAINT OneCountGoesFurther
INVARIANT AppliedFromLastStamp
INVARIANT UnflaggedHasCause
INVARIANT FieldIsStored
PROPERTY MovesAsLedger
CHECK_DEADLOCK FALSE
