CONSTANTS
  None = None
  Drafts <- MCDrafts
  Revisions <- MCRevisions
  RawInputs <- MCRawInputs
  Arguments <- MCArguments
SPECIFICATION Spec
INVARIANTS
  SensitiveValuesStayOut
CHECK_DEADLOCK FALSE
