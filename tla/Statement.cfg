CONSTANTS
  NULL = NULL
  MaxRows = 1
  MaxInputs = 2
  MaxFinals = 2
  MaxPoints = 3
SPECIFICATION FairSpec
INVARIANTS NoUseAfterFree OwnersApart LentStays ResultStandsAlone NothingPilesUp EveryPointOnce
PROPERTIES StatementEnds
CHECK_DEADLOCK FALSE
