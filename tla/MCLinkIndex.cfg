CONSTANTS
  N1 = N1
  N2 = N2
  N3 = N3
  C1 = C1
  x = x
  y = y
  dx = dx
  Nothing = Nothing
  Note <- MCNote
  Canvas <- MCCanvas
  Label <- MCPath
  Path <- MCPath
  Base <- MCBase
  Doc <- MCDoc
  Board <- MCBoard
SPECIFICATION IndexSpec
SYMMETRY MCNotes
INVARIANT IndexMatchesRebuild
