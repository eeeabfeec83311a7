SPECIFICATION Spec
CONSTANTS
  w1 = w1  w2 = w2  a = a  b = b  i1 = i1  i2 = i2  i3 = i3
  t1 = t1  t2 = t2  d1 = d1  d2 = d2
  NoRow = NoRow  NoFile = NoFile  NoDigest = NoDigest  NoOwner = NoOwner
  NoThread = NoThread  NoConversation = NoConversation
  ThreadOwner <- OwnerOfThread
  Workers = {w1, w2}
  Owners = {a, b}
  Ids = {i1, i2}
  Digests = {d1}
  Legacy = {}
  LegacyOwner = a
  Calls = {"upload", "remove", "save", "drop"}
  MayCrash = {"upload", "remove", "save", "drop"}
  MayLose = FALSE
  Threads = {t1}
  InlineParts = {FALSE}
  PkBound = 2
SYMMETRY Symmetry
INVARIANTS LinksStayWithinOwner
CHECK_DEADLOCK FALSE
