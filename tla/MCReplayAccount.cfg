CONSTANTS
  None = None
  Capability <- MCOpenAccount
  Observations <- AccountScreens
  Calls <- AccountCalls
SPECIFICATION Spec
INVARIANTS
  RiskyNeedsAuthorization
  BlockedStepNeverActed
  AttemptsBounded
PROPERTIES
  KeepsContract
CHECK_DEADLOCK FALSE
