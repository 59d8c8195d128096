SPECIFICATION FairSpec
CONSTANTS
  ClientIds <- MCClientIds
  InfoKinds = {"start"}
  EndKinds = {"complete"}
  MaxServiceId = 2
  MaxWire = 1
  Nobody = Nobody
INVARIANTS
  TypeOK
  CallbackNamesOwnSpeech
  EndIsLast
  RequestNamesOwnSpeech
  LastSpeechIsNewest
  SilentAfterUnregister
PROPERTIES
  ImplementsLifecycle
  DestructorReturns
