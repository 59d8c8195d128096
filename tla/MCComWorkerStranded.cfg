SPECIFICATION Spec
CONSTANTS
  MaxPosts = 2
INVARIANTS
  NoNotificationStranded
