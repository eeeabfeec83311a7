SPECIFICATION FairSpec
CONSTANTS
  w1 = w1  w2 = w2  o1 = o1  o2 = o2  p1 = p1  p2 = p2  p3 = p3
  plain = plain  fence = fence  escaped = escaped
  NoOwner = NoOwner  NoPath = NoPath  NoContent = NoContent
  NoOp = NoOp  NoRow = NoRow  NoReceipt = NoReceipt  NoRequest = NoRequest
  Escape <- EscapeFence  Length <- Lengths
  Workers = {w1, w2}
  Owners = {o1}
  Paths = {p1, p2}
  Contents = {plain}
  OpIds = {op1}
  RequestBound = FALSE
  RequestOwner <- NobodyBound
  Namespace <- OneNamespace
  MaxFiles = 1
  MaxTotalChars = 3
  VersionBound = 2
PROPERTIES EveryCallEnds
