------------------------------ MODULE MCQueue ------------------------------
(* Model-checking instances of ConcurrentQueue.                            *)
EXTENDS ConcurrentQueue, TLC

\* several threads on each side are interchangeable, and so are the values
Symmetry == Permutations(Producers) \cup Permutations(Consumers) \cup Permutations(Values)
=============================================================================
