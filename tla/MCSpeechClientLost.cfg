SPECIFICATION FairSpec
CONSTANTS
  ClientIds <- MCClientIds
  InfoKinds = {"start"}
  EndKinds = {"complete"}
  MaxServiceId = 2
  MaxWire = 1
  Nobody = Nobody
PROPERTY
  CompletionFindsItsSpeech
