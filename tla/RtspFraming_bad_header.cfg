SPECIFICATION Spec
CONSTANTS
  Conns = {c1}
  Shapes <- MCShapes
  Interrupt = FALSE
  MaxMessages = 2
  MaxSegment = 32
INVARIANTS
  CompleteMessagesDrained
