SPECIFICATION Spec
CONSTANTS
  Tab = {t1, t2}
  Call = {k1, k2}
  MaxPairs = 2
  MaxBusy = 3
  Unanswered = Unanswered
  Refused = Refused
SYMMETRY MCSymmetry
INVARIANTS TypeOK QueueHasLeader SpentOnce LogoutIsFinal
