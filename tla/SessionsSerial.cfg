SPECIFICATION Spec
CONSTANTS
  p1 = p1
  p2 = p2
  w1 = w1
  w2 = w2
  NoRow = NoRow
  NoReq = NoReq
  Proc <- OneHandler
  Password <- OnePassword
  MaxSessions = 2
  MaxIssued = 4
PROPERTIES ImplementsContract
