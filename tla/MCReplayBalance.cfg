CONSTANTS
  None = None
  Capability <- MCBalance
  Observations <- BalanceScreens
  Calls <- BalanceCalls
SPECIFICATION Spec
INVARIANTS
  TypeOK
  StepsInOrderOnce
  SuccessIsConfirmed
  DeclaredOutcomeWins
PROPERTIES
  ActsOnlyOnWhatItSaw
  Terminates
CHECK_DEADLOCK FALSE
