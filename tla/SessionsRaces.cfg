SPECIFICATION Spec
CONSTANTS
  p1 = p1
  p2 = p2
  w1 = w1
  w2 = w2
  NoRow = NoRow
  NoReq = NoReq
  Proc <- TwoHandlers
  Password <- TwoPasswords
  MaxSessions = 1
  MaxIssued = 2
SYMMETRY Symmetry
INVARIANTS TypeOK ExchangedTokenIsOver
PROPERTIES DeadTokenStaysDead LockHolds OldPasswordShutOut
