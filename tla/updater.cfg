SPECIFICATION FairSpec
CONSTANTS
  MaxVersion = 3
  MaxErrors = 2
  Reply <- Replies
  Empty = Empty
  None = None
INVARIANTS
  TypeOK
  RepliesHaveTheirEntry
PROPERTIES
  NewVersionAnnounced
CHECK_DEADLOCK FALSE
