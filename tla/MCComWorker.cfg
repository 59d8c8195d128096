SPECIFICATION Spec
CONSTANTS
  MaxPosts = 5
INVARIANTS
  TypeOK
  SilentAfterCleanup
  NoThreadLeft
PROPERTY
  RunsInOrder
