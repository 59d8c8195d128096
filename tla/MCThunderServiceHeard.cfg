SPECIFICATION Spec
CONSTANTS
  Apps = {a1, a2}
  MaxChanges = 0
  Failing = {}
  MaxFailures = 0
  MaxPolls = 1
  Orderly = TRUE
PROPERTIES
  AcceptedSpeechIsHeard
