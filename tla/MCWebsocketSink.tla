------------------------- MODULE MCWebsocketSink --------------------------
(* Model-checking instances of WebsocketSink.                              *)
EXTENDS WebsocketSink, TLC

Symmetry == Permutations(Clients) \cup Permutations(Addresses)
=============================================================================
