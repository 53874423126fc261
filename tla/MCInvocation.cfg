CONSTANTS
  None = None
  Drafts <- MCDrafts
  Revisions <- MCRevisions
  RawInputs <- MCRawInputs
  Arguments <- MCArguments
SPECIFICATION Spec
INVARIANTS
  EveryValueResolves
  SuppliedInputsAreTyped
  TamperingIsNoticed
  SensitiveOnlyInTheError
  SuccessBringsItsOutputs
  CHECK_DEADLOCK FALSE
