SPECIFICATION Spec
CONSTANTS
  None = None
  Workers = {w1, w2}
  Sessions = {s1, s2}
  Scopes <- MCScopes
  Threads <- MCThreads
  Contents = {m1}
  Titles = {t1}
  MaxTime = 2
SYMMETRY Symmetry
INVARIANTS TypeOK ListsTheNewest
PROPERTIES Partition
