---------------------------- MODULE WebbyServer ----------------------------
(***************************************************************************)
(* The connection table of src/src/webby/webby.c and the pass over it that *)
(* WebbyServerUpdate makes: accept, serve every connection that has        *)
(* something to read, close and compact.  One thread runs the pass; the    *)
(* clients send, hang up and abort at any time in between.                 *)
(*                                                                         *)
(* Data.  A request or frame header arrives in two pieces, "head" and one  *)
(* that completes it and says what it is; a "post" request and a "data"    *)
(* frame have one "body" piece after it.  A piece in a buffer remembers    *)
(* which client sent it.  Responses are not kept.  A socket is named by    *)
(* the client at its other end.                                            *)
(*                                                                         *)
(* The server has been initialized.  fcntl does not fail, and neither does *)
(* select.  Clients read what they are sent.  A socket error is reported   *)
(* by one call; the calls after it see an orderly end.                     *)
(*                                                                         *)
(* The definitions marked "for comparison" are altered forms of the one    *)
(* after them, used to see that the properties notice the difference.      *)
(***************************************************************************)
EXTENDS Naturals, Sequences, FiniteSets

CONSTANTS Clients,        \* each connects at most once
          ConnectionMax,  \* config.connection_max
          BufferMax,      \* pieces a buffer holds
          FrameRead,      \* pieces the ws_frame callback asks WebbyRead for
          Says,           \* the messages clients send, of Requests \cup Frames
          MaxSend,        \* bound: pieces a client sends
          NoSocket        \* WB_INVALID_SOCKET, or a slot never used

Requests == {"get", "bye", "post", "expect", "upgrade", "malformed"}
Frames   == {"close", "ping", "data"}

ASSUME WebbyAssumption ==
  /\ ConnectionMax \in Nat \ {0} /\ BufferMax \in Nat /\ BufferMax >= 2
  /\ FrameRead \in Nat /\ MaxSend \in Nat
  /\ Says \subseteq Requests \cup Frames /\ NoSocket \notin Clients

VARIABLES table,     \* srv->connections
          count,     \* srv->connection_count
          memory,    \* the bytes of the header and I/O buffers
          pc, idx,   \* where WebbyServerUpdate is, and the slot it is at
          limit,     \* its local count
          ready,     \* read_fds after select
          need,      \* pieces WebbyRead still waits for
          peer,      \* per client: away, up, closed or aborted
          backlog,   \* connections the kernel holds for accept
          inbox,     \* per client: sent and not yet received
          stage,     \* per client: where it is in the dialogue
          sent,      \* per client: pieces sent
          open       \* sockets accepted and not closed

tableVars  == <<table, count, memory>>
passVars   == <<pc, idx, limit, ready, need>>
clientVars == <<peer, stage, sent>>
vars == <<tableVars, passVars, clientVars, backlog, inbox, open>>

Slots  == 0 .. ConnectionMax - 1
Pieces == [from : Clients \cup {NoSocket}, kind : Requests \cup Frames \cup {"head", "body", "none"}]

\* WebbyServerInit: zeroed records, each with buffers of its own
FreshTable == [i \in Slots |->
  [sock |-> NoSocket, alive |-> FALSE, fresh |-> FALSE, ws |-> FALSE, state |-> "request",
   data |-> i, used |-> 0, left |-> 0, message |-> << >>]]
FreshMemory == [b \in Slots \X {"header", "io"} |->
                  [k \in 1 .. BufferMax |-> [from |-> NoSocket, kind |-> "none"]]]

Init ==
  /\ table = FreshTable /\ count = 0 /\ memory = FreshMemory
  /\ pc = "idle" /\ idx = 0 /\ limit = 0 /\ ready = {} /\ need = 0
  /\ peer = [c \in Clients |-> "away"] /\ backlog = {}
  /\ inbox = [c \in Clients |-> << >>]
  /\ stage = [c \in Clients |-> "start"] /\ sent = [c \in Clients |-> 0]
  /\ open = {}

-----------------------------------------------------------------------------
(* The clients *)

Connect(c) ==
  /\ peer[c] = "away"
  /\ peer' = [peer EXCEPT ![c] = "up"]
  /\ backlog' = backlog \cup {c}
  /\ UNCHANGED <<tableVars, passVars, stage, sent, inbox, open>>

Stages == {"start", "request", "body", "asked", "ws", "frame", "payload"}

\* a client at stage st may send a piece of this kind, and is then at stage nx
Dialogue(st, kind, nx) ==
  \/ st = "start"   /\ kind = "head" /\ nx = "request"
  \/ st = "request" /\ kind \in Requests
                    /\ nx = CASE kind = "post"    -> "body"
                              [] kind = "upgrade" -> "asked"
                              [] OTHER            -> "start"
  \/ st = "body"    /\ kind = "body" /\ nx = "start"
  \/ st = "ws"      /\ kind = "head" /\ nx = "frame"
  \/ st = "frame"   /\ kind \in Frames
                    /\ nx = IF kind = "data" THEN "payload" ELSE "ws"
  \/ st = "payload" /\ kind = "body" /\ nx = "ws"

Send(c, kind, nx) ==
  /\ peer[c] = "up" /\ sent[c] < MaxSend
  /\ kind \in Says \cup {"head", "body"}
  /\ Dialogue(stage[c], kind, nx)
  /\ inbox' = [inbox EXCEPT ![c] = Append(@, [from |-> c, kind |-> kind])]
  /\ stage' = [stage EXCEPT ![c] = nx]
  /\ sent' = [sent EXCEPT ![c] = @ + 1]
  /\ UNCHANGED <<tableVars, passVars, peer, backlog, open>>

HangUp(c, how) ==
  /\ peer[c] = "up" /\ how \in {"closed", "aborted"}
  /\ peer' = [peer EXCEPT ![c] = how]
  /\ UNCHANGED <<tableVars, passVars, stage, sent, backlog, inbox, open>>

Client(c) == \/ Connect(c)
             \/ \E kind \in Says \cup {"head", "body"}, nx \in Stages : Send(c, kind, nx)
             \/ \E how \in {"closed", "aborted"} : HangUp(c, how)

-----------------------------------------------------------------------------
(* WebbyServerUpdate: select, accept, the loop over the connections *)

Active == {table[i].sock : i \in 0 .. count - 1}

ToClients == pc' = "clients" /\ idx' = 0 /\ limit' = count

\* select: the sockets with data or an end to read; new connections only
\* while there is a free slot
Select ==
  /\ pc = "idle"
  /\ ready' = {s \in Active : inbox[s] # << >> \/ peer[s] # "up"}
  /\ IF count < ConnectionMax /\ backlog # {}
     THEN pc' = "accept" /\ UNCHANGED <<idx, limit>>
     ELSE ToClients
  /\ UNCHANGED <<tableVars, need, clientVars, backlog, inbox, open>>

\* for comparison: the buffers keep what they hold
ResetConnectionKeepsUsed(c) == [c EXCEPT !.left = 0, !.state = "request", !.message = << >>]

\* reset_connection
ResetConnection(c) ==
  [c EXCEPT !.used = 0, !.left = 0, !.state = "request", !.message = << >>]

\* wb_on_incoming takes a connection
Accept(c) ==
  /\ pc = "accept" /\ count < ConnectionMax /\ c \in backlog
  /\ backlog' = backlog \ {c}
  /\ open' = open \cup {c}
  /\ table' = [table EXCEPT ![count] =
       [ResetConnection(@) EXCEPT !.sock = c, !.alive = TRUE, !.fresh = TRUE,
                                  !.ws = FALSE]]
  /\ count' = count + 1
  /\ UNCHANGED <<memory, passVars, clientVars, inbox>>

\* ... or finds no free slot, or nobody waiting
AcceptNone ==
  /\ pc = "accept" /\ (count = ConnectionMax \/ backlog = {})
  /\ ToClients
  /\ UNCHANGED <<tableVars, ready, need, clientVars, backlog, inbox, open>>

\* the loop reaches a connection that is ready or fresh: wb_update_client
EnterClient ==
  /\ pc = "clients" /\ idx < limit
  /\ table[idx].sock \in ready \/ table[idx].fresh
  /\ table' = [table EXCEPT ![idx].fresh = FALSE]
  /\ pc' = "client"
  /\ UNCHANGED <<count, memory, idx, limit, ready, need, clientVars, backlog, inbox, open>>

SkipClient ==
  /\ pc = "clients" /\ idx < limit
  /\ table[idx].sock \notin ready /\ ~table[idx].fresh
  /\ idx' = idx + 1
  /\ UNCHANGED <<tableVars, pc, limit, ready, need, clientVars, backlog, inbox, open>>

LoopDone ==
  /\ pc = "clients" /\ idx = limit
  /\ pc' = "compact" /\ idx' = 0
  /\ UNCHANGED <<tableVars, limit, ready, need, clientVars, backlog, inbox, open>>

-----------------------------------------------------------------------------
(* wb_update_client, one action per round of its loop and outcome *)

conn == table[idx]

\* the loop over the rounds goes on, or wb_update_client returns
Again == pc' = "client" /\ UNCHANGED idx
Leave == pc' = "clients" /\ idx' = idx + 1

\* wb_fill_buffer into the buffer in use: how many pieces it gets, whether it
\* fails (an end is seen only when there is room left to read it), and the
\* contents of the buffer afterwards
Room      == BufferMax - conn.used
Got       == IF Len(inbox[conn.sock]) < Room THEN Len(inbox[conn.sock]) ELSE Room
\* for comparison: only an error counts
FillErrorNotEnd == Len(inbox[conn.sock]) < Room /\ peer[conn.sock] = "aborted"
FillError == Len(inbox[conn.sock]) < Room /\ peer[conn.sock] # "up"
Buffer(region) == memory[<<conn.data, region>>]
Filled(region) ==
  [k \in 1 .. BufferMax |-> IF k \in conn.used + 1 .. conn.used + Got
                            THEN inbox[conn.sock][k - conn.used] ELSE Buffer(region)[k]]
Fill(region) ==
  /\ memory' = [memory EXCEPT ![<<conn.data, region>>] = Filled(region)]
  /\ inbox' = [inbox EXCEPT ![conn.sock] = SubSeq(@, Got + 1, Len(@))]

\* for comparison: the loop ends one position too early
RequestSizeShort(buf, used) ==
  IF \E k \in 1 .. used - 1 : buf[k].kind \in Requests
  THEN CHOOSE k \in 1 .. used - 1 : /\ buf[k].kind \in Requests
                                    /\ \A j \in 1 .. k - 1 : buf[j].kind \notin Requests
  ELSE 0

\* wb_peek_request_size: where the first complete request ends, 0 for nowhere
RequestSize(buf, used) ==
  IF \E k \in 1 .. used : buf[k].kind \in Requests
  THEN CHOOSE k \in 1 .. used : /\ buf[k].kind \in Requests
                                /\ \A j \in 1 .. k - 1 : buf[j].kind \notin Requests
  ELSE 0

\* wb_setup_request succeeds
WellFormed(buf, size) == /\ size = 2 /\ buf[1].kind = "head"
                         /\ buf[2].kind # "malformed"

\* WBC_REQUEST
ReadRequest ==
  /\ pc = "client" /\ conn.state = "request"
  /\ Fill("header")
  /\ LET buf  == Filled("header")
         used == conn.used + Got
         size == RequestSize(buf, used)
         gone == FillError \/ IF size = 0 THEN used = BufferMax ELSE ~WellFormed(buf, size)
     IN  IF gone \/ size = 0
         THEN table' = [table EXCEPT ![idx].used = used, ![idx].alive = @ /\ ~gone] /\ Leave
         ELSE /\ table' = [table EXCEPT
                   ![idx].used = used, ![idx].left = used - size,
                   ![idx].message = SubSeq(buf, 1, size),
                   ![idx].state = IF buf[size].kind = "expect" THEN "continue" ELSE "serve"]
              /\ Again
  /\ UNCHANGED <<count, limit, ready, need, clientVars, backlog, open>>

\* WBC_SEND_CONTINUE: the header is sent; sending to a client that is gone may fail
SendContinue(ok) ==
  /\ pc = "client" /\ conn.state = "continue"
  /\ ~ok => peer[conn.sock] # "up"
  /\ table' = [table EXCEPT ![idx].alive = @ /\ ok,
                            ![idx].state = IF ok THEN "serve" ELSE "continue"]
  /\ IF ok THEN Again ELSE Leave
  /\ UNCHANGED <<count, memory, limit, ready, need, clientVars, backlog, inbox, open>>

Kind == conn.message[2].kind

\* WebbyRead of n pieces: what is buffered first, then recv until all are there
Read(n) ==
  LET buffered == IF conn.left < n THEN conn.left ELSE n
  IN  /\ table' = [table EXCEPT ![idx].left = @ - buffered]
      /\ need' = n - buffered
      /\ pc' = IF buffered < n THEN "reading" ELSE "respond"

\* WBC_SERVE up to the discarding of the request's body in WebbyBeginResponse
BeginServe ==
  /\ pc = "client" /\ conn.state = "serve"
  /\ Read(IF Kind = "post" THEN 1 ELSE 0)
  /\ UNCHANGED <<count, memory, idx, limit, ready, clientVars, backlog, inbox, open>>

\* one recv of WebbyRead; an orderly end counts as nothing read, so nothing
\* happens while there is neither data nor an error
ReadMore ==
  /\ pc = "reading" /\ inbox[conn.sock] # << >>
  /\ LET n == IF Len(inbox[conn.sock]) < need THEN Len(inbox[conn.sock]) ELSE need
     IN  /\ need' = need - n
         /\ inbox' = [inbox EXCEPT ![conn.sock] = SubSeq(@, n + 1, Len(@))]
         /\ pc' = IF n = need THEN "respond" ELSE "reading"
  /\ UNCHANGED <<tableVars, idx, limit, ready, clientVars, backlog, open>>

\* what a websocket frame's payload has read of it: by the callback, and the
\* rest of its one piece by discard_incoming_data
Payload == IF FrameRead > 1 THEN FrameRead ELSE 1

\* recv reports the error.  A callback that got nothing does not mind, and the
\* payload is then discarded, by a read of its own
ReadFails ==
  /\ pc = "reading" /\ inbox[conn.sock] = << >> /\ peer[conn.sock] = "aborted"
  /\ peer' = [peer EXCEPT ![conn.sock] = "closed"]
  /\ table' = [table EXCEPT ![idx].alive = FALSE]
  /\ IF conn.state = "websocket" /\ FrameRead > 0 /\ need = Payload
     THEN need' = 1 /\ UNCHANGED pc
     ELSE need' = 0 /\ pc' = "respond"
  /\ UNCHANGED <<count, memory, idx, limit, ready, stage, sent, backlog, inbox, open>>

\* for comparison: the state is not set back to WBC_REQUEST
RespondErrorKeepsState ==
  /\ pc = "respond" /\ conn.state = "serve" /\ Kind # "upgrade"
  /\ IF conn.alive /\ Kind = "bye"
     THEN table' = [table EXCEPT ![idx].alive = FALSE] /\ Leave
     ELSE UNCHANGED table /\ Again
  /\ UNCHANGED <<count, memory, limit, ready, need, clientVars, backlog, inbox, open>>

\* the rest of WBC_SERVE: an error page; a connection that died on the way
\* stays in this state and goes round again
RespondError ==
  /\ pc = "respond" /\ conn.state = "serve" /\ Kind # "upgrade"
  /\ IF ~conn.alive THEN UNCHANGED table /\ Again
     ELSE IF Kind = "bye"
     THEN table' = [table EXCEPT ![idx].alive = FALSE] /\ Leave
     ELSE table' = [table EXCEPT ![idx] = ResetConnection(@)] /\ Again
  /\ UNCHANGED <<count, memory, limit, ready, need, clientVars, backlog, inbox, open>>

\* ... or the upgrade to a websocket, with the ws_connected callback
RespondUpgrade ==
  /\ pc = "respond" /\ conn.state = "serve" /\ Kind = "upgrade"
  /\ table' = [table EXCEPT ![idx] =
                 [ResetConnection(@) EXCEPT !.ws = TRUE, !.state = "websocket"]]
  /\ stage' = [stage EXCEPT ![conn.sock] = "ws"]
  /\ Again
  /\ UNCHANGED <<count, memory, limit, ready, need, peer, sent, backlog, inbox, open>>

\* WBC_WEBSOCKET up to scan_websocket_frame
ReadFrame ==
  /\ pc = "client" /\ conn.state = "websocket"
  /\ Fill("io")
  /\ LET used == conn.used + Got
     IN  IF FillError \/ used < 2
         THEN table' = [table EXCEPT ![idx].used = used, ![idx].alive = @ /\ ~FillError] /\ Leave
         ELSE /\ table' = [table EXCEPT ![idx].used = used, ![idx].left = used - 2,
                                        ![idx].message = SubSeq(Filled("io"), 1, 2)]
              /\ pc' = "frame" /\ UNCHANGED idx
  /\ UNCHANGED <<count, limit, ready, need, clientVars, backlog, open>>

\* the opcode; payload that is taken for a header says anything
Opcode(op) == LET m == conn.message
              IN  m[1].kind = "head" /\ m[2].kind \in Frames => op = m[2].kind

CloseFrame ==
  /\ pc = "frame" /\ Opcode("close")
  /\ table' = [table EXCEPT ![idx].alive = FALSE]
  /\ Leave
  /\ UNCHANGED <<count, memory, limit, ready, need, clientVars, backlog, inbox, open>>

PingFrame(ok) ==
  /\ pc = "frame" /\ Opcode("ping")
  /\ ~ok => peer[conn.sock] # "up"
  /\ IF ok THEN pc' = "respond" /\ UNCHANGED <<table, idx>>
     ELSE table' = [table EXCEPT ![idx].alive = FALSE] /\ Leave
  /\ UNCHANGED <<count, memory, limit, ready, need, clientVars, backlog, inbox, open>>

\* the ws_frame callback reads, and what it leaves of the payload is discarded
DataFrame ==
  /\ pc = "frame" /\ Opcode("data")
  /\ Read(Payload)
  /\ UNCHANGED <<count, memory, idx, limit, ready, clientVars, backlog, inbox, open>>

\* reset_connection; state = WBC_WEBSOCKET
FrameDone ==
  /\ pc = "respond" /\ conn.state = "websocket"
  /\ table' = [table EXCEPT ![idx] = [ResetConnection(@) EXCEPT !.state = "websocket"]]
  /\ Again
  /\ UNCHANGED <<count, memory, limit, ready, need, clientVars, backlog, inbox, open>>

-----------------------------------------------------------------------------
(* WebbyServerUpdate: close stale connections and compact the table *)

\* for comparison: one record too few is moved
CompactedShort(i) == [j \in Slots |-> IF j \in i .. count - 3 THEN table[j + 1]
                                      ELSE IF j = i THEN [table[i] EXCEPT
                                        !.sock = NoSocket, !.alive = FALSE, !.fresh = FALSE,
                                        !.ws = FALSE]
                                      ELSE table[j]]

\* memmove over slot i; the last slot keeps its bytes
Compacted(i) == [j \in Slots |-> IF j \in i .. count - 2 THEN table[j + 1]
                                 ELSE IF j = i THEN [table[i] EXCEPT
                                   !.sock = NoSocket, !.alive = FALSE, !.fresh = FALSE,
                                   !.ws = FALSE]
                                 ELSE table[j]]

\* a dead connection: ws_closed if it was a websocket, wb_close_client
CloseStale ==
  /\ pc = "compact" /\ idx < count /\ ~conn.alive
  /\ open' = open \ {conn.sock}
  /\ table' = Compacted(idx)
  /\ count' = count - 1
  /\ UNCHANGED <<memory, passVars, clientVars, backlog, inbox>>

KeepAlive ==
  /\ pc = "compact" /\ idx < count /\ conn.alive
  /\ idx' = idx + 1
  /\ UNCHANGED <<tableVars, pc, limit, ready, need, clientVars, backlog, inbox, open>>

UpdateDone ==
  /\ pc = "compact" /\ idx = count
  /\ pc' = "idle"
  /\ UNCHANGED <<tableVars, idx, limit, ready, need, clientVars, backlog, inbox, open>>

-----------------------------------------------------------------------------
(* WebbyWrite and WebbyEndSocketFrame: the sink writes between two passes   *)

WriteFails(i) ==
  /\ pc = "idle" /\ i < count /\ table[i].ws /\ peer[table[i].sock] # "up"
  /\ table' = [table EXCEPT ![i].alive = FALSE]
  /\ UNCHANGED <<count, memory, passVars, clientVars, backlog, inbox, open>>

-----------------------------------------------------------------------------
\* the steps of the pass that call none of the sink's websocket callbacks
Quiet == \/ (\E c \in Clients : Accept(c)) \/ AcceptNone
         \/ EnterClient \/ SkipClient \/ LoopDone
         \/ ReadRequest \/ (\E ok \in BOOLEAN : SendContinue(ok))
         \/ BeginServe \/ ReadMore \/ ReadFails \/ RespondError
         \/ ReadFrame \/ CloseFrame \/ (\E ok \in BOOLEAN : PingFrame(ok)) \/ FrameDone
         \/ KeepAlive \/ UpdateDone

Server == Select \/ Quiet \/ RespondUpgrade \/ DataFrame \/ CloseStale

Next == Server \/ (\E i \in Slots : WriteFails(i)) \/ \E c \in Clients : Client(c)

Spec == Init /\ [][Next]_vars

-----------------------------------------------------------------------------
(* Properties *)

Points == {"idle", "accept", "clients", "client", "frame", "reading", "respond", "compact"}

Connections ==
  [sock : Clients \cup {NoSocket}, alive : BOOLEAN, fresh : BOOLEAN, ws : BOOLEAN,
   state : {"request", "continue", "serve", "websocket"}, data : Slots,
   used : 0 .. BufferMax, left : 0 .. BufferMax, message : Seq(Pieces)]

\* Type invariant: the table, the buffers and the positions in them.
TypeOK ==
  /\ table \in [Slots -> Connections] /\ count \in 0 .. ConnectionMax
  /\ memory \in [Slots \X {"header", "io"} -> [1 .. BufferMax -> Pieces]]
  /\ pc \in Points /\ idx \in 0 .. ConnectionMax /\ limit \in 0 .. ConnectionMax
  /\ ready \subseteq Clients /\ need \in Nat
  /\ peer \in [Clients -> {"away", "up", "closed", "aborted"}]
  /\ backlog \subseteq Clients /\ inbox \in [Clients -> Seq(Pieces)]
  /\ stage \in [Clients -> Stages] /\ sent \in [Clients -> 0 .. MaxSend]
  /\ open \subseteq Clients

\* Every accepted socket is in exactly one slot of the table until it is
\* closed: accepting into the last slot, closing in the middle of the loop
\* and memmove neither lose a socket nor close one twice.
SocketsAccounted ==
  /\ open = Active
  /\ \A i, j \in 0 .. count - 1 : table[i].sock = table[j].sock => i = j

\* The request or frame a connection is served for is one that its own client
\* sent: no other connection writes to the buffers it is collected in.
Using(i) == \/ table[i].state \in {"continue", "serve"}
            \/ i = idx /\ pc \in {"frame", "reading"}
MessageIntact ==
  \A i \in 0 .. count - 1 : Using(i) =>
    \A k \in DOMAIN table[i].message : table[i].message[k].from = table[i].sock
=============================================================================
