SPECIFICATION FairSpec
CONSTANTS
  Apps = {a1, a2}
  MaxChanges = 1
  Failing = {}
  MaxFailures = 0
  MaxPolls = 2
  Orderly = FALSE
INVARIANTS
  RemotesCounted
PROPERTIES
  CallsReturn
