-------------------------- MODULE MCWebbyServer ---------------------------
(* Model-checking instances of WebbyServer.                                *)
EXTENDS WebbyServer, TLC

Symmetry == Permutations(Clients)
=============================================================================
