SPECIFICATION FairSpec
CONSTANTS
  Posters = {main, ev1, ev2}
  Installer = main
  MaxPosts = 5
INVARIANTS
  TypeOK
  OneRunner
  LostOnce
  CleanUnlessEarly
  NoTaskStranded
  NothingAfterDestruction
PROPERTIES
  ImplementsQueue
  EveryTaskBegins
