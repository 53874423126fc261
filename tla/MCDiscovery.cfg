CONSTANTS
  None = None
  Colon = "colon"
  Limits = {0, 3}
  Pages <- MCPages
  Replies <- MCReplies
  Humans <- MCHumans
SPECIFICATION CommandSpec
CHECK_DEADLOCK FALSE
INVARIANTS
  RecordedTargetsAreTheirElements
  ExtractFollowsTheField
  RefusalsAreTheHumans
  OnlyGoodRunsAreRecorded
  EvidenceIsOfOneRun
  ReplayRetracesTheRun
PROPERTY
  Ends
