SPECIFICATION UndisturbedSpec
CONSTANTS
  p1 = p1
  p2 = p2
  Proc <- OneHandler
  MaxKey = 2
INVARIANTS FilesReadable
