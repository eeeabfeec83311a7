SPECIFICATION Spec
CONSTANTS
  NoOwner = NoOwner  None = None
  Workers = {w1, w2}
  Owners = {o1, o2}
  RunIds = {r1, r2}
  CallIds = {k1}
  MaxSnapshots = 2
  MaxEvents = 1
  MaxStarts = 3
SYMMETRY Symmetry
CHECK_DEADLOCK FALSE
INVARIANTS TypeOK EffectsAreAccountedFor EventsAreTheOwners LastListedIsLatest
PROPERTIES ResumesAtTheBoundary
