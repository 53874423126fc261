CONSTANTS
  Sessions = {"agent", "operator"}
  Threads = {t1, t2}
  Overlap = TRUE
  Asks <- MCAsks
  Arms <- MCArms
  MaxFaults = 2
  MaxTokens = 1
SPECIFICATION Spec
SYMMETRY Symmetry
VIEW View
INVARIANTS
  DeliveredAsArmed
