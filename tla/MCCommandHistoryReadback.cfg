\* No crash and no torn append: two helpers, one retiring what the other ends.
CONSTANTS
  Helpers = {h1, h2}
  Ids = {i1, i2}
  Times = {1}
  MaxRecords = 1
  NoOne = noone
  TornWrites = FALSE
  MaxQueries = 0
  MaxRewrites = 3
  MaxCrashes = 0
SPECIFICATION Spec
PROPERTY PutIsReadable
CHECK_DEADLOCK FALSE
