---------------------------- MODULE MCLinkIndex ----------------------------
(* Three notes and a board over the paths x, d/x and y: a label can be an exact path, a        *)
(* basename and a title at once, unique or ambiguous.                                          *)
EXTENDS LinkIndex, TLC

CONSTANTS N1, N2, N3, C1, x, y, dx

MCNote == {N1, N2, N3}
MCCanvas == {C1}
MCPath == {x, dx, y}
MCBase == [p \in MCPath |-> IF p = y THEN y ELSE x]
MCDoc == [path : MCPath, names : {{x}, {y}}, links : SUBSET {x, y}]
MCBoard == [files : {{}, {N1}, {N2}, {N3}}, links : SUBSET {x, y}]
MCNotes == Permutations(MCNote)
=============================================================================
