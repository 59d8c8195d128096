SPECIFICATION Spec
CONSTANTS
  Apps = {a1, a2}
  ClientIds = {1}
  Handlers = {worker, pool1}
  Worker = worker
  Pool = {pool1}
  InfoKinds = {}
  EndKinds = {"complete"}
  MaxServiceId = 1
  None = None
  Environments <- MCEnvironments
SYMMETRY Symmetry
INVARIANTS
  TypeOK
  SilentAfterUnregister
  OpenedAtMostThrice
  RemoteWhenUsed
  ConnectedHasAsked
PROPERTIES
  ClientsSpec
  ImplementsLifecycle
