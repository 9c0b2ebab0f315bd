SPECIFICATION Spec
CONSTANTS
  p1 = p1
  p2 = p2
  NoRow = NoRow
  NoReq = NoReq
  Proc <- TwoHandlers
  MaxFile = 3
  MaxQueued = 2
SYMMETRY Symmetry
INVARIANTS TypeOK FilesNumbered
PROPERTIES StatusSettles
