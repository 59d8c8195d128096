SPECIFICATION Spec
CONSTANTS
  Apps = {a1}
  ClientIds = {0, 1, 2}
  Handlers = {worker, pool1, pool2}
  Worker = worker
  Pool = {pool1, pool2}
  InfoKinds = {"start"}
  EndKinds = {"complete"}
  MaxServiceId = 2
  None = None
  Environments <- MCEnvironments
SYMMETRY Symmetry
INVARIANTS
  CallbackNamesOwnSpeech
  EndIsLast
  RequestNamesOwnSpeech
  LastSpeechIsNewest
