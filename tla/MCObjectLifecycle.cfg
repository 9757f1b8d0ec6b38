SPECIFICATION Spec
CONSTANTS
  Session = {s1, s2}
  NoteId = {}
  CanvasId = {b1}
  Policy <- MCPolicies
  Parts = 2
  None = None
  Unread = Unread
  Overlap = {}
  MaxWrites = 2
  MaxReading = 1
  MaxDeaths = 2
SYMMETRY MCSymmetry
INVARIANTS EditsKept PurgedStaysGone
