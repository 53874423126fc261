CONSTANTS
  None = None
  Nowhere = Nowhere
  Capability <- MCCapability
  Observations <- MCObservations
  Calls <- MCCalls
  Origin <- MCOrigin
  Threads = {t1, t2}
  Arms <- MCArms
  MaxFaults = 1
  MaxTokens = 2
  Shows <- MCShows
  Control <- MCControl
  Field <- MCField
  NavigateRetries = 0
  ContinueRetries = 1
  ConfirmRetries = 1
SPECIFICATION OpeningSpec
INVARIANTS
  OpeningTypeOK
  OneAccountPerReplay
  SuccessMeansOpened
  NoAccountWithoutAuthorization
PROPERTIES
  EffectsOnlyOnTheSeen
CHECK_DEADLOCK FALSE
