SPECIFICATION Spec
CONSTANTS
  MaxLength = 127
  MaxHeaderSize = 32
  Conversations <- Talks
  Rules <- Router
  Reservable = 64
  MaxFragments = 3
  None = None
INVARIANTS
  AnyFragments
CHECK_DEADLOCK FALSE
