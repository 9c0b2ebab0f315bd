SPECIFICATION Spec
CONSTANTS
  p1 = p1
  p2 = p2
  Proc <- TwoHandlers
  MaxKey = 5
SYMMETRY Symmetry
INVARIANTS TypeOK ActiveBounded VersionsDense SharingBounded
