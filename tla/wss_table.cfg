SPECIFICATION Spec
CONSTANTS
  Peer = {p1, p2, p3}
  NoPeer = NoPeer
  MSecs <- Clock
SYMMETRY Symmetry
INVARIANTS
  TypeOK
  TableHoldsOpenSockets
  ClosedAreReported
  AnswersReachAsker
  ReportedAreGone
CHECK_DEADLOCK FALSE
