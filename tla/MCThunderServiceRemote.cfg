SPECIFICATION Spec
CONSTANTS
  Apps = {a1}
  MaxChanges = 1
  Failing = {}
  MaxFailures = 0
  MaxPolls = 1
  Orderly = FALSE
INVARIANTS
  RemoteProtected
