CONSTANTS
  None = None
  Observations <- MCObservations
  Targets <- MCTargets
SPECIFICATION Spec
INVARIANTS
  LoopComputesResolveTarget
  NeverAGuess
CHECK_DEADLOCK FALSE
