SPECIFICATION Spec
CONSTANTS
  w1 = w1  w2 = w2  a = a  b = b  i1 = i1  i2 = i2  i3 = i3
  t1 = t1  t2 = t2  d1 = d1  d2 = d2
  NoRow = NoRow  NoFile = NoFile  NoDigest = NoDigest  NoOwner = NoOwner
  NoThread = NoThread  NoConversation = NoConversation
  ThreadOwner <- AllOfOneOwner
  Workers = {w1}
  Owners = {a}
  Ids = {i1, i2}
  Digests = {d1}
  Legacy = {i1}
  LegacyOwner = a
  Calls = {"upload", "remove", "save", "drop", "prune", "backfill", "strip"}
  MayCrash = {"upload", "remove", "drop", "prune", "backfill"}
  MayLose = TRUE
  Threads = {t1, t2}
  InlineParts = {TRUE, FALSE}
  PkBound = 2
SYMMETRY Symmetry
INVARIANTS TypeOK LinksDescribeMessages PreviewIsExact
PROPERTIES RowsKeepTheirBytes UploadsAreReadable CollectorsSpareReferenced
CHECK_DEADLOCK FALSE
