SPECIFICATION Spec
CONSTANTS
  None = None
  Workers = {w1}
  Sessions = {s1}
  Scopes <- MCScopes
  Threads <- MCThreads
  Contents = {m1}
  Titles = {t1}
  MaxTime = 3
SYMMETRY Symmetry
INVARIANTS RenamesWin
