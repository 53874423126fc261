CONSTANTS
  None = None
  Frames <- MCFrames
  Indents = {0, 1, 2}
  Roles = {"row", "iframe"}
  MaxLines = 3
  MaxNodes = 4
SPECIFICATION Spec
INVARIANTS
  ParentIsTheEnclosingLine
  SubtreeIsDescendants
  NoControlTwice
CHECK_DEADLOCK FALSE
