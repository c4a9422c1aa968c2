----------------------------- MODULE MCViewer -----------------------------
(* Model-checking instances of Viewer.                                     *)
EXTENDS Viewer, TLC

Symmetry == Permutations(Sockets)
PlusMinus == {1, 2, -1}
=============================================================================
