SPECIFICATION Spec
CONSTANTS
  Apps = {a1}
  MaxChanges = 2
  Failing = {}
  MaxFailures = 0
  MaxPolls = 1
  Orderly = TRUE
PROPERTIES
  ConnectedOnce
