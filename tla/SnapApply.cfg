SPECIFICATION LiveSpec
CONSTANTS
  Branes <- MCBranes
  Cells = {1, 2}
  Cone <- MCCone
  Present <- MCPresent
  Ids = {1, 2}
  MaxLast = 2
  MaxMade = 1
  MaxCrash = 1
INVARIANTS DataRight Recovers JobRight
PROPERTIES DestroyedStays JobEnds
CHECK_DEADLOCK FALSE
