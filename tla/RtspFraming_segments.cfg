SPECIFICATION Spec
CONSTANTS
  Conns = {c1, c2}
  Shapes <- MCShapes
  Interrupt = FALSE
  MaxMessages = 2
  MaxSegment = 32
SYMMETRY MCSymmetry
INVARIANTS
  TypeOK
  HandledAsSent
  NothingWaits
