CONSTANTS
  Sessions = {"agent", "operator"}
  Threads = {t1, t2}
  Overlap = FALSE
  Asks <- MCAsks
  Arms <- MCArms
  MaxFaults = 2
  MaxTokens = 1
SPECIFICATION Spec
SYMMETRY Symmetry
VIEW View
INVARIANTS
  FaultsStayWhereArmed
  DeliveredAsArmed
  OneAccountPerToken
  OnlyAcceptedFormsHaveTokens
  ConfirmationSurvivesFaults
