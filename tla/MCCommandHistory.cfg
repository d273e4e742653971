\* Two helpers that write, clean, crash and read over one log root: writers with a
\* clock that may step, readers (two calls at a time) while it stands.
CONSTANTS
  Helpers = {h1, h2}
  Ids = {i1, i2}
  Times = {1, 2}
  MaxRecords = 1
  NoOne = noone
  TornWrites = TRUE
  MaxQueries = 1
  MaxRewrites = 2
  MaxCrashes = 1
SPECIFICATION Spec
INVARIANTS TypeOK AckedRowsStay AckedRecordsReadable EndIsNotTakenBack
PROPERTY ImplementsLedger
CONSTRAINT ReadersAtRest
SYMMETRY Symmetry
CHECK_DEADLOCK FALSE
