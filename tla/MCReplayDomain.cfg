CONSTANTS
  None = None
  Capability <- MCOpenAccount
  Observations <- AccountScreens
  Calls <- AccountCalls
SPECIFICATION Spec
PROPERTY
  EveryActOnAllowedDomain
CHECK_DEADLOCK FALSE
