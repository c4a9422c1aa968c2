--------------------------- MODULE MCGlobalState ---------------------------
EXTENDS GlobalState, TLC

\* Controllers and emitters are interchangeable; used by the runs that check
\* no liveness property.
Symmetry == Permutations(Controllers) \cup Permutations(Emitters)
=============================================================================
