SPECIFICATION Spec
CONSTANTS
  Apps = {a1, a2}
  MaxChanges = 4
  Failing = {"status", "statechange"}
  MaxFailures = 1
  MaxPolls = 2
  Orderly = TRUE
INVARIANTS
  TypeOK
  SettledAgrees
PROPERTIES
  SubscribedOnce
