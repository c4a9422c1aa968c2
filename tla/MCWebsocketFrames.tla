-------------------------- MODULE MCWebsocketFrames -----------------------
(* Model-checking instances of WebsocketFrames.                            *)
EXTENDS WebsocketFrames

Frame(op, size, mask) == [opcode |-> op, length |-> size, masked |-> mask]

\* empty, short and long payloads, and a ping
Mixed == {Frame(2, 0, FALSE), Frame(1, 64, TRUE), Frame(2, 126, TRUE), Frame(9, 3, TRUE)}

\* where the form of the length changes, and its bytes do
Boundaries == {0, 125, 126, 256, 65535, 65536}
=============================================================================
