\* Two callers of one Service, of two, or of fileops, and three calls in all.
CONSTANTS
  Callers = {c1, c2}
  Services = {s1, s2}
  NoService = none
  Spans = {a, b}
  Debris = debris
  Absent = absent
  NoHash = nohash
  WholeFile = 3
  MaxCalls = 3
  MaxCrashes = 1
SPECIFICATION Spec
INVARIANTS TypeOK AppendsOnce NeverTorn AckedIsDurable IndInv
PROPERTIES GuardHolds SuccessIsTidy
SYMMETRY Symmetry
CHECK_DEADLOCK FALSE
