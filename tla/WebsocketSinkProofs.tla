-------------------------- MODULE WebsocketSinkProofs --------------------------
(***************************************************************************)
(* Theorems about WebbyServer and about WebsocketSink, which joins the     *)
(* steps of webby with the callbacks of the sink.                          *)
(*                                                                         *)
(* First webby alone.  TableInv keeps the account of the sockets.          *)
(* MessageInv says whose pieces every buffer holds; it is inductive as     *)
(* long as no two connections share their buffers, and BuffersInv says     *)
(* when they do not: as long as memmove moves nothing.                     *)
(*                                                                         *)
(* Then the sink.  Until a session is destroyed that is not the newest the *)
(* list is a Stack: its sessions in the order they were created, the       *)
(* newest at _sessions, so that every walk ends at the null pointer and    *)
(* finds what it looks for.  From then on it is a Trap: every walk ends in *)
(* freed memory or never.  ListInv relates both, and Match, to the mishaps *)
(* that have happened.                                                     *)
(***************************************************************************)
EXTENDS WebsocketSink, Induction

\* The places of the pass inside the loop over the connections, and those
\* where it serves one.
InLoop   == {"clients", "client", "frame", "reading", "respond"}
AtClient == {"client", "frame", "reading", "respond"}

\* Where the pass may be: the loop goes up to the count it has read, and no
\* connection comes or goes meanwhile.
PassInv ==
  /\ pc \in InLoop => limit = count /\ idx <= limit
  /\ pc \in AtClient => idx < limit
  /\ pc = "compact" => idx <= count
  /\ pc \in {"reading", "respond"} => conn.state \in {"serve", "websocket"}
  /\ pc = "frame" => conn.state = "websocket"

\* A connection waits for accept or is open, and has been made.
PeersInv ==
  /\ backlog \cap open = {}
  /\ \A c \in backlog \cup open : peer[c] # "away"

\* The inductive invariant of the table.
TableInv == TypeOK /\ SocketsAccounted /\ PassInv /\ PeersInv

-----------------------------------------------------------------------------
\* The slots below connection_count are slots of the table.
LEMMA SlotsInRange ==
  ASSUME TypeOK
  PROVE  \A i \in 0 .. count - 1 : i \in Slots /\ table[i] \in Connections
BY WebbyAssumption DEF TypeOK, Slots

\* While a client is served, idx is at a record in use, with an accepted socket.
LEMMA ConnInRange ==
  ASSUME TableInv, pc \in AtClient
  PROVE  /\ idx \in 0 .. count - 1 /\ idx \in Slots
         /\ conn = table[idx] /\ conn \in Connections /\ conn.sock \in Clients
<1>1. idx \in 0 .. count - 1
  BY DEF TableInv, PassInv, TypeOK, AtClient, InLoop
<1>2. conn.sock \in open
  BY <1>1 DEF TableInv, SocketsAccounted, Active, conn
<1> QED BY <1>1, <1>2, SlotsInRange DEF TableInv, TypeOK, conn

\* wb_fill_buffer takes no more than there is and than there is room for.
LEMMA FilledType ==
  ASSUME TableInv, pc = "client", NEW region \in {"header", "io"}
  PROVE  /\ Got \in 0 .. BufferMax /\ conn.used + Got \in 0 .. BufferMax
         /\ Got <= Len(inbox[conn.sock])
         /\ Filled(region) \in [1 .. BufferMax -> Pieces]
         /\ Filled(region) \in Seq(Pieces) /\ Len(Filled(region)) = BufferMax
<1>1. conn.sock \in Clients /\ conn.data \in Slots /\ conn.used \in 0 .. BufferMax
  BY ConnInRange DEF AtClient, Connections
<1>2. inbox[conn.sock] \in Seq(Pieces) /\ Len(inbox[conn.sock]) \in Nat
  BY <1>1 DEF TableInv, TypeOK
<1>3. BufferMax \in Nat
  BY WebbyAssumption
<1>4. Got \in 0 .. BufferMax /\ conn.used + Got \in 0 .. BufferMax /\ Got <= Len(inbox[conn.sock])
  BY <1>1, <1>2, <1>3 DEF Got, Room
<1>5. Buffer(region) \in [1 .. BufferMax -> Pieces]
  BY <1>1 DEF TableInv, TypeOK, Buffer
<1>6. Filled(region) \in [1 .. BufferMax -> Pieces]
  <2>1. ASSUME NEW k \in conn.used + 1 .. conn.used + Got
        PROVE  inbox[conn.sock][k - conn.used] \in Pieces
    <3>1. k - conn.used \in 1 .. Len(inbox[conn.sock])
      BY <1>1, <1>2, <1>4
    <3> QED BY <1>2, <3>1
  <2> QED BY <1>5, <2>1 DEF Filled
<1>7. Filled(region) \in Seq(Pieces) /\ Len(Filled(region)) = BufferMax
  BY <1>3, <1>6
<1> QED BY <1>4, <1>6, <1>7

\* What wb_fill_buffer leaves in the buffer and in the socket.
LEMMA FillType ==
  ASSUME TableInv, pc = "client", NEW region \in {"header", "io"}, Fill(region)
  PROVE  /\ memory' \in [Slots \X {"header", "io"} -> [1 .. BufferMax -> Pieces]]
         /\ inbox' \in [Clients -> Seq(Pieces)]
<1>1. Got \in Nat /\ Filled(region) \in [1 .. BufferMax -> Pieces]
  BY FilledType, WebbyAssumption
<1>2. conn.sock \in Clients
  BY ConnInRange DEF AtClient
<1>3. inbox[conn.sock] \in Seq(Pieces)
  BY <1>2 DEF TableInv, TypeOK
<1>4. SubSeq(inbox[conn.sock], Got + 1, Len(inbox[conn.sock])) \in Seq(Pieces)
  BY <1>1, <1>3
<1> QED BY <1>1, <1>2, <1>4 DEF Fill, TableInv, TypeOK

\* wb_peek_request_size: a position up to used where a request ends, or 0.
LEMMA RequestSizeRange ==
  ASSUME NEW buf, NEW used \in 0 .. BufferMax
  PROVE  /\ RequestSize(buf, used) \in 0 .. used
         /\ RequestSize(buf, used) # 0 => buf[RequestSize(buf, used)].kind \in Requests
<1> DEFINE found == {k \in 1 .. used : buf[k].kind \in Requests}
<1>0. BufferMax \in Nat
  BY WebbyAssumption
<1>1. CASE found = {}
  BY <1>0, <1>1 DEF RequestSize
<1>2. CASE found # {}
  <2>1. PICK k \in found : \A j \in found : k <= j
    <3>1. found \subseteq Nat
      BY <1>0
    <3> QED BY <1>2, <3>1, LeastMember
  <2>2. \E m \in 1 .. used : /\ buf[m].kind \in Requests
                             /\ \A j \in 1 .. m - 1 : buf[j].kind \notin Requests
    BY <2>1, <1>0
  <2>3. \E m \in 1 .. used : buf[m].kind \in Requests
    BY <2>2
  <2> QED BY <2>2, <2>3, <1>0 DEF RequestSize
<1> QED BY <1>1, <1>2

-----------------------------------------------------------------------------
\* What clients do keeps the type invariant.
LEMMA ClientTypeOK ==
  ASSUME TableInv, NEW c \in Clients, Client(c)
  PROVE  TypeOK'
<1> USE DEF TableInv, TypeOK, tableVars, passVars
<1>1. CASE Connect(c)
  BY <1>1 DEF Connect
<1>2. ASSUME NEW kind \in Says \cup {"head", "body"}, NEW nx \in Stages, Send(c, kind, nx)
      PROVE  TypeOK'
  <2>1. [from |-> c, kind |-> kind] \in Pieces
    BY WebbyAssumption DEF Pieces
  <2>2. inbox' \in [Clients -> Seq(Pieces)]
    BY <1>2, <2>1 DEF Send
  <2>3. sent' \in [Clients -> 0 .. MaxSend]
    BY <1>2, WebbyAssumption DEF Send
  <2> QED BY <1>2, <2>2, <2>3 DEF Send
<1>3. ASSUME NEW how \in {"closed", "aborted"}, HangUp(c, how) PROVE TypeOK'
  BY <1>3 DEF HangUp
<1> QED BY <1>1, <1>2, <1>3 DEF Client

\* A record with other contents than before is a record still.
LEMMA RecordUpdates ==
  ASSUME NEW r \in Connections
  PROVE  /\ \A s \in Clients \cup {NoSocket} : [r EXCEPT !.sock = s] \in Connections
         /\ \A b \in BOOLEAN : /\ [r EXCEPT !.alive = b] \in Connections
                               /\ [r EXCEPT !.fresh = b] \in Connections
                               /\ [r EXCEPT !.ws = b] \in Connections
         /\ \A s \in {"request", "continue", "serve", "websocket"} :
              [r EXCEPT !.state = s] \in Connections
         /\ \A n \in 0 .. BufferMax : /\ [r EXCEPT !.used = n] \in Connections
                                      /\ [r EXCEPT !.left = n] \in Connections
         /\ \A m \in Seq(Pieces) : [r EXCEPT !.message = m] \in Connections
BY DEF Connections

\* reset_connection makes a record of a record.
LEMMA ResetType ==
  ASSUME NEW r \in Connections
  PROVE  ResetConnection(r) \in Connections
<1>1. << >> \in Seq(Pieces) /\ 0 \in 0 .. BufferMax
  BY WebbyAssumption
<1> QED BY <1>1 DEF ResetConnection, Connections

\* A table with one field of one record changed is a table still.
LEMMA FieldUpdates ==
  ASSUME TypeOK, NEW i \in Slots
  PROVE  /\ \A b \in BOOLEAN : /\ [table EXCEPT ![i].alive = b] \in [Slots -> Connections]
                               /\ [table EXCEPT ![i].fresh = b] \in [Slots -> Connections]
         /\ \A n \in 0 .. BufferMax : [table EXCEPT ![i].left = n] \in [Slots -> Connections]
<1>1. table[i] \in Connections
  BY DEF TypeOK
<1>2. ASSUME NEW b \in BOOLEAN
      PROVE  /\ [table EXCEPT ![i].alive = b] \in [Slots -> Connections]
             /\ [table EXCEPT ![i].fresh = b] \in [Slots -> Connections]
  <2>1. [table[i] EXCEPT !.alive = b] \in Connections /\ [table[i] EXCEPT !.fresh = b] \in Connections
    BY <1>1, RecordUpdates
  <2> QED BY <2>1 DEF TypeOK
<1>3. ASSUME NEW n \in 0 .. BufferMax
      PROVE  [table EXCEPT ![i].left = n] \in [Slots -> Connections]
  <2>1. [table[i] EXCEPT !.left = n] \in Connections
    BY <1>1, RecordUpdates
  <2> QED BY <2>1 DEF TypeOK
<1> QED BY <1>2, <1>3

\* WebbyRead keeps the types of what it changes.
LEMMA ReadType ==
  ASSUME TypeOK, idx \in Slots, NEW n \in Nat, Read(n)
  PROVE  /\ table' \in [Slots -> Connections] /\ need' \in Nat
         /\ pc' \in {"reading", "respond"}
<1>1. BufferMax \in Nat /\ conn.left \in 0 .. BufferMax /\ conn = table[idx]
  BY WebbyAssumption DEF TypeOK, Connections, conn
<1> DEFINE buffered == IF conn.left < n THEN conn.left ELSE n
           rest == conn.left - buffered
<1>2. rest \in 0 .. BufferMax /\ n - buffered \in Nat
  BY <1>1
<1>3. /\ table' = [table EXCEPT ![idx].left = rest]
      /\ need' = n - buffered /\ pc' \in {"reading", "respond"}
  BY <1>1 DEF Read
<1> HIDE DEF buffered, rest
<1> QED BY <1>2, <1>3, FieldUpdates

\* The steps of the pass without a callback keep the type invariant.
LEMMA QuietTypeOK ==
  ASSUME TableInv, Quiet
  PROVE  TypeOK'
<1> USE DEF tableVars, passVars, clientVars, Points
<1>0. /\ TypeOK /\ ConnectionMax \in Nat /\ BufferMax \in Nat /\ BufferMax >= 2
      /\ idx \in Nat /\ limit \in Nat /\ count \in Nat
  BY WebbyAssumption DEF TableInv, TypeOK
<1>1. ASSUME NEW c \in Clients, Accept(c) PROVE TypeOK'
  <2>1. count \in Slots /\ table[count] \in Connections
    BY <1>0, <1>1 DEF Accept, Slots, TypeOK
  <2>2. ResetConnection(table[count]) \in Connections
    BY <2>1, ResetType
  <2>3. [ResetConnection(table[count]) EXCEPT !.sock = c, !.alive = TRUE, !.fresh = TRUE,
                                              !.ws = FALSE] \in Connections
    BY <2>2 DEF Connections
  <2>4. table' \in [Slots -> Connections]
    BY <1>0, <1>1, <2>1, <2>3 DEF Accept, TypeOK
  <2> QED BY <1>0, <1>1, <2>4 DEF Accept, TypeOK
<1>2. CASE AcceptNone \/ SkipClient \/ LoopDone \/ KeepAlive \/ UpdateDone
  <2>1. idx' \in 0 .. ConnectionMax /\ limit' \in 0 .. ConnectionMax
    BY <1>0, <1>2 DEF AcceptNone, SkipClient, LoopDone, KeepAlive, UpdateDone, ToClients, TypeOK
  <2> QED BY <1>0, <1>2, <2>1 DEF AcceptNone, SkipClient, LoopDone, KeepAlive, UpdateDone, ToClients, TypeOK
<1>3. CASE EnterClient
  <2>1. idx \in Slots
    BY <1>0, <1>3 DEF EnterClient, Slots, TypeOK
  <2>2. table' \in [Slots -> Connections]
    BY <1>0, <1>3, <2>1, FieldUpdates DEF EnterClient
  <2> QED BY <1>0, <1>3, <2>2 DEF EnterClient, TypeOK
<1>4. ASSUME pc \in AtClient, Again \/ Leave
      PROVE  idx' \in 0 .. ConnectionMax /\ pc' \in Points
  <2>1. idx \in Slots
    BY <1>4, ConnInRange
  <2> QED BY <1>0, <1>4, <2>1 DEF Again, Leave, Slots
<1> DEFINE Keeps == UNCHANGED <<count, limit, ready, clientVars, backlog, open>>
<1>5. CASE ReadRequest
  <2>0. pc = "client" /\ Keeps /\ UNCHANGED need
    BY <1>5 DEF ReadRequest
  <2>1. /\ idx \in Slots /\ conn = table[idx] /\ conn \in Connections
        /\ memory' \in [Slots \X {"header", "io"} -> [1 .. BufferMax -> Pieces]]
        /\ inbox' \in [Clients -> Seq(Pieces)]
        /\ conn.used + Got \in 0 .. BufferMax
        /\ Filled("header") \in Seq(Pieces) /\ Len(Filled("header")) = BufferMax
    BY <1>5, <2>0, ConnInRange, FillType, FilledType DEF AtClient, ReadRequest
  <2> DEFINE buf  == Filled("header")
             used == conn.used + Got
             size == RequestSize(buf, used)
             gone == FillError \/ IF size = 0 THEN used = BufferMax ELSE ~WellFormed(buf, size)
  <2>2. size \in 0 .. used
    BY <2>1, RequestSizeRange
  <2>3. Again \/ Leave
    BY <1>5 DEF ReadRequest
  <2>4. table' \in [Slots -> Connections]
    <3> HIDE DEF buf, used, size, gone
    <3>1. CASE gone \/ size = 0
      <4>1. table' = [table EXCEPT ![idx].used = used, ![idx].alive = @ /\ ~gone]
        BY <1>5, <3>1 DEF ReadRequest, buf, used, size, gone
      <4> DEFINE b == table[idx].alive /\ ~gone
      <4>2. b \in BOOLEAN /\ used \in 0 .. BufferMax
        BY <2>1 DEF used
      <4>3. table' = [table EXCEPT ![idx].used = used, ![idx].alive = b]
        BY <4>1
      <4> HIDE DEF b
      <4> QED BY <1>0, <2>1, <4>2, <4>3 DEF TypeOK, Connections
    <3>2. CASE ~(gone \/ size = 0)
      <4> DEFINE st == IF buf[size].kind = "expect" THEN "continue" ELSE "serve"
      <4>1. table' = [table EXCEPT
                   ![idx].used = used, ![idx].left = used - size,
                   ![idx].message = SubSeq(buf, 1, size),
                   ![idx].state = st]
        BY <1>5, <3>2 DEF ReadRequest, buf, used, size, gone
      <4>2. /\ used \in 0 .. BufferMax /\ used - size \in 0 .. BufferMax
            /\ SubSeq(buf, 1, size) \in Seq(Pieces)
            /\ st \in {"continue", "serve"}
        BY <1>0, <2>1, <2>2 DEF used, buf
      <4> HIDE DEF st
      <4> QED BY <1>0, <2>1, <4>1, <4>2 DEF TypeOK, Connections
    <3> QED BY <3>1, <3>2
  <2>5. idx' \in 0 .. ConnectionMax /\ pc' \in Points
    BY <1>4, <2>0, <2>3 DEF AtClient
  <2> HIDE DEF buf, used, size, gone
  <2> QED BY <1>0, <2>0, <2>1, <2>4, <2>5 DEF TypeOK
<1>6. ASSUME NEW ok \in BOOLEAN, SendContinue(ok) PROVE TypeOK'
  <2>1. pc \in AtClient /\ idx \in Slots /\ (Again \/ Leave)
    BY <1>6, ConnInRange DEF SendContinue, AtClient
  <2>2. table' \in [Slots -> Connections]
    <3> DEFINE b == table[idx].alive /\ ok
               st == IF ok THEN "serve" ELSE "continue"
    <3>1. table' = [table EXCEPT ![idx].alive = b, ![idx].state = st]
      BY <1>6 DEF SendContinue
    <3>2. b \in BOOLEAN /\ st \in {"serve", "continue"}
      BY <1>0, <2>1 DEF TypeOK, Connections
    <3> HIDE DEF b, st
    <3>3. [table[idx] EXCEPT !.alive = b] \in Connections
      BY <1>0, <2>1, <3>2, RecordUpdates DEF TypeOK
    <3>4. [[table[idx] EXCEPT !.alive = b] EXCEPT !.state = st] \in Connections
      BY <3>2, <3>3, RecordUpdates
    <3>5. table' = [table EXCEPT ![idx] = [[table[idx] EXCEPT !.alive = b] EXCEPT !.state = st]]
      BY <1>0, <2>1, <3>1 DEF TypeOK
    <3> QED BY <1>0, <2>1, <3>4, <3>5 DEF TypeOK
  <2>3. idx' \in 0 .. ConnectionMax /\ pc' \in Points
    BY <1>4, <2>1
  <2> QED BY <1>0, <1>6, <2>2, <2>3 DEF SendContinue, TypeOK
<1>7. CASE BeginServe
  <2>1. idx \in Slots
    BY <1>7, ConnInRange DEF BeginServe, AtClient
  <2> DEFINE n == IF Kind = "post" THEN 1 ELSE 0
  <2>2. n \in Nat /\ Read(n)
    BY <1>7 DEF BeginServe
  <2>3. /\ table' \in [Slots -> Connections]
        /\ need' \in Nat /\ pc' \in Points
    <3> HIDE DEF n
    <3> QED BY <1>0, <2>1, <2>2, ReadType
  <2> QED BY <1>0, <1>7, <2>3 DEF BeginServe, TypeOK
<1>8. CASE ReadMore
  <2>1. conn.sock \in Clients
    BY <1>8, ConnInRange DEF ReadMore, AtClient
  <2>2. inbox[conn.sock] \in Seq(Pieces) /\ Len(inbox[conn.sock]) \in Nat /\ need \in Nat
    BY <1>0, <2>1 DEF TypeOK
  <2> DEFINE n == IF Len(inbox[conn.sock]) < need THEN Len(inbox[conn.sock]) ELSE need
  <2>3. n \in Nat /\ need - n \in Nat
    BY <2>2
  <2>4. SubSeq(inbox[conn.sock], n + 1, Len(inbox[conn.sock])) \in Seq(Pieces)
    <3> HIDE DEF n
    <3> QED BY <2>2, <2>3
  <2>5. /\ need' = need - n
        /\ inbox' = [inbox EXCEPT ![conn.sock] = SubSeq(@, n + 1, Len(@))]
        /\ pc' \in {"respond", "reading"}
    BY <1>8 DEF ReadMore
  <2>6. need' \in Nat /\ inbox' \in [Clients -> Seq(Pieces)]
    <3> HIDE DEF n
    <3> QED BY <1>0, <2>1, <2>3, <2>4, <2>5 DEF TypeOK
  <2> QED BY <1>0, <1>8, <2>5, <2>6 DEF ReadMore, TypeOK
<1>9. CASE ReadFails
  <2>1. idx \in Slots /\ conn.sock \in Clients
    BY <1>9, ConnInRange DEF ReadFails, AtClient
  <2>2. table' \in [Slots -> Connections]
    BY <1>0, <1>9, <2>1, FieldUpdates DEF ReadFails
  <2>3. peer' \in [Clients -> {"away", "up", "closed", "aborted"}]
    BY <1>0, <1>9, <2>1 DEF ReadFails, TypeOK
  <2>4. need' \in Nat /\ pc' \in Points
    BY <1>0, <1>9 DEF ReadFails, TypeOK
  <2> QED BY <1>0, <1>9, <2>2, <2>3, <2>4 DEF ReadFails, TypeOK
<1>10. CASE RespondError
  <2>1. pc \in AtClient /\ idx \in Slots /\ table[idx] \in Connections /\ (Again \/ Leave)
    BY <1>10, ConnInRange DEF RespondError, AtClient
  <2>2. table' \in [Slots -> Connections]
    <3>1. ResetConnection(table[idx]) \in Connections
      BY <2>1, ResetType
    <3>2. CASE table' = table
      BY <1>0, <3>2 DEF TypeOK
    <3>3. CASE table' = [table EXCEPT ![idx].alive = FALSE]
      BY <1>0, <2>1, <3>3, FieldUpdates
    <3>4. CASE table' = [table EXCEPT ![idx] = ResetConnection(@)]
      BY <1>0, <2>1, <3>1, <3>4 DEF TypeOK
    <3> QED BY <1>10, <3>2, <3>3, <3>4 DEF RespondError
  <2>3. idx' \in 0 .. ConnectionMax /\ pc' \in Points
    BY <1>4, <2>1
  <2> QED BY <1>0, <1>10, <2>2, <2>3 DEF RespondError, TypeOK
<1>11. CASE ReadFrame
  <2>0. pc = "client" /\ UNCHANGED <<count, limit, ready, need, clientVars, backlog, open>>
    BY <1>11 DEF ReadFrame
  <2>1. /\ idx \in Slots /\ conn = table[idx] /\ conn \in Connections
        /\ memory' \in [Slots \X {"header", "io"} -> [1 .. BufferMax -> Pieces]]
        /\ inbox' \in [Clients -> Seq(Pieces)]
        /\ conn.used + Got \in 0 .. BufferMax
        /\ Filled("io") \in Seq(Pieces) /\ Len(Filled("io")) = BufferMax
    BY <1>11, <2>0, ConnInRange, FillType, FilledType DEF AtClient, ReadFrame
  <2> DEFINE used == conn.used + Got
  <2>2. table' \in [Slots -> Connections]
    <3> HIDE DEF used
    <3>1. CASE FillError \/ used < 2
      <4> DEFINE b == table[idx].alive /\ ~FillError
      <4>1. table' = [table EXCEPT ![idx].used = used, ![idx].alive = b]
        BY <1>11, <3>1 DEF ReadFrame, used
      <4>2. b \in BOOLEAN /\ used \in 0 .. BufferMax
        BY <2>1 DEF used
      <4> HIDE DEF b
      <4> QED BY <1>0, <2>1, <4>1, <4>2 DEF TypeOK, Connections
    <3>2. CASE ~(FillError \/ used < 2)
      <4>1. table' = [table EXCEPT ![idx].used = used, ![idx].left = used - 2,
                                        ![idx].message = SubSeq(Filled("io"), 1, 2)]
        BY <1>11, <3>2 DEF ReadFrame, used
      <4>2. /\ used \in 0 .. BufferMax /\ used - 2 \in 0 .. BufferMax
            /\ SubSeq(Filled("io"), 1, 2) \in Seq(Pieces)
        BY <1>0, <2>1, <3>2 DEF used
      <4> QED BY <1>0, <2>1, <4>1, <4>2 DEF TypeOK, Connections
    <3> QED BY <3>1, <3>2
  <2>3. idx' \in 0 .. ConnectionMax /\ pc' \in Points
    <3>1. CASE Leave
      BY <1>4, <2>0, <3>1 DEF AtClient
    <3>2. CASE pc' = "frame" /\ UNCHANGED idx
      BY <1>0, <3>2 DEF TypeOK
    <3> QED BY <1>11, <3>1, <3>2 DEF ReadFrame
  <2> QED BY <1>0, <2>0, <2>1, <2>2, <2>3 DEF TypeOK
<1>12. CASE CloseFrame \/ \E ok \in BOOLEAN : PingFrame(ok)
  <2>1. pc \in AtClient /\ idx \in Slots
    BY <1>12, ConnInRange DEF CloseFrame, PingFrame, AtClient
  <2>2. table' \in [Slots -> Connections]
    <3>1. table' = table \/ table' = [table EXCEPT ![idx].alive = FALSE]
      BY <1>12 DEF CloseFrame, PingFrame
    <3>2. [table EXCEPT ![idx].alive = FALSE] \in [Slots -> Connections]
      BY <1>0, <2>1, FieldUpdates
    <3> QED BY <1>0, <3>1, <3>2 DEF TypeOK
  <2>3. idx' \in 0 .. ConnectionMax /\ pc' \in Points
    <3>1. CASE Leave
      BY <1>4, <2>1, <3>1
    <3>2. CASE pc' = "respond" /\ UNCHANGED idx
      BY <1>0, <3>2 DEF TypeOK
    <3> QED BY <1>12, <3>1, <3>2 DEF CloseFrame, PingFrame
  <2> QED BY <1>0, <1>12, <2>2, <2>3 DEF CloseFrame, PingFrame, TypeOK
<1>13. CASE FrameDone
  <2>1. pc \in AtClient /\ idx \in Slots /\ table[idx] \in Connections /\ Again
    BY <1>13, ConnInRange DEF FrameDone, AtClient
  <2>2. ResetConnection(table[idx]) \in Connections
    BY <2>1, ResetType
  <2>3. [ResetConnection(table[idx]) EXCEPT !.state = "websocket"] \in Connections
    BY <2>2, RecordUpdates
  <2>4. table' \in [Slots -> Connections]
    BY <1>0, <1>13, <2>1, <2>3 DEF FrameDone, TypeOK
  <2>5. idx' \in 0 .. ConnectionMax /\ pc' \in Points
    BY <1>4, <2>1
  <2> QED BY <1>0, <1>13, <2>4, <2>5 DEF FrameDone, TypeOK
<1> QED BY <1>1, <1>2, <1>3, <1>5, <1>6, <1>7, <1>8, <1>9, <1>10, <1>11, <1>12, <1>13 DEF Quiet

\* memmove leaves records in every slot.
LEMMA CompactedType ==
  ASSUME TypeOK, NEW i \in 0 .. count - 1
  PROVE  Compacted(i) \in [Slots -> Connections]
<1>1. ConnectionMax \in Nat /\ count \in 0 .. ConnectionMax /\ i \in Slots
  BY WebbyAssumption DEF TypeOK, Slots
<1>2. ASSUME NEW j \in Slots, j \in i .. count - 2 PROVE table[j + 1] \in Connections
  <2>1. j + 1 \in Slots
    BY <1>1, <1>2 DEF Slots
  <2> QED BY <2>1 DEF TypeOK
<1>3. [table[i] EXCEPT !.sock = NoSocket, !.alive = FALSE, !.fresh = FALSE, !.ws = FALSE]
        \in Connections
  <2>1. table[i] \in Connections
    BY <1>1 DEF TypeOK
  <2>2. [table[i] EXCEPT !.sock = NoSocket] \in Connections
    BY <2>1, RecordUpdates
  <2>3. [[table[i] EXCEPT !.sock = NoSocket] EXCEPT !.alive = FALSE] \in Connections
    BY <2>2, RecordUpdates
  <2> DEFINE r == [[[table[i] EXCEPT !.sock = NoSocket] EXCEPT !.alive = FALSE] EXCEPT !.fresh = FALSE]
  <2>4. r \in Connections
    BY <2>3, RecordUpdates
  <2>5. [r EXCEPT !.ws = FALSE] \in Connections
    <3> HIDE DEF r
    <3> QED BY <2>4, RecordUpdates
  <2>6. [table[i] EXCEPT !.sock = NoSocket, !.alive = FALSE, !.fresh = FALSE, !.ws = FALSE]
          = [r EXCEPT !.ws = FALSE]
    OBVIOUS
  <2> QED BY <2>5, <2>6
<1> QED BY <1>1, <1>2, <1>3 DEF Compacted, TypeOK

\* Every step of the server keeps the type invariant.
LEMMA ServerTypeOK ==
  ASSUME TableInv, Server \/ \E i \in Slots : WriteFails(i)
  PROVE  TypeOK'
<1> USE DEF tableVars, passVars, clientVars, Points
<1>0. /\ TypeOK /\ ConnectionMax \in Nat /\ BufferMax \in Nat /\ BufferMax >= 2
      /\ idx \in Nat /\ limit \in Nat /\ count \in Nat
  BY WebbyAssumption DEF TableInv, TypeOK
<1>1. CASE Select
  <2>1. Active \subseteq Clients
    BY DEF TableInv, TypeOK, SocketsAccounted
  <2>2. idx' \in 0 .. ConnectionMax /\ limit' \in 0 .. ConnectionMax /\ pc' \in Points
    BY <1>0, <1>1 DEF Select, ToClients, TypeOK
  <2> QED BY <1>0, <1>1, <2>1, <2>2 DEF Select, TypeOK
<1>2. CASE Quiet
  BY <1>2, QuietTypeOK
<1>3. CASE RespondUpgrade
  <2>1. idx \in Slots /\ table[idx] \in Connections /\ conn.sock \in Clients
    BY <1>3, ConnInRange DEF RespondUpgrade, AtClient
  <2>2. ResetConnection(table[idx]) \in Connections
    BY <2>1, ResetType
  <2>3. [ResetConnection(table[idx]) EXCEPT !.ws = TRUE, !.state = "websocket"] \in Connections
    BY <2>2 DEF Connections
  <2>4. table' \in [Slots -> Connections]
    BY <1>0, <1>3, <2>1, <2>3 DEF RespondUpgrade, TypeOK
  <2>5. stage' \in [Clients -> Stages]
    BY <1>0, <1>3, <2>1 DEF RespondUpgrade, TypeOK, Stages
  <2> QED BY <1>0, <1>3, <2>4, <2>5 DEF RespondUpgrade, Again, TypeOK
<1>4. CASE DataFrame
  <2>1. idx \in Slots /\ Payload \in Nat /\ Read(Payload)
    BY <1>4, ConnInRange, WebbyAssumption DEF DataFrame, AtClient, Payload
  <2>2. table' \in [Slots -> Connections] /\ need' \in Nat /\ pc' \in Points
    BY <1>0, <2>1, ReadType
  <2> QED BY <1>0, <1>4, <2>2 DEF DataFrame, TypeOK
<1>5. CASE CloseStale
  <2>1. table' \in [Slots -> Connections]
    BY <1>0, <1>5, CompactedType DEF CloseStale
  <2>2. count' \in 0 .. ConnectionMax /\ open' \subseteq Clients
    BY <1>0, <1>5 DEF CloseStale, TypeOK
  <2> QED BY <1>0, <1>5, <2>1, <2>2 DEF CloseStale, TypeOK
<1>6. ASSUME NEW i \in Slots, WriteFails(i) PROVE TypeOK'
  <2>1. table' \in [Slots -> Connections]
    BY <1>0, <1>6, FieldUpdates DEF WriteFails
  <2> QED BY <1>0, <1>6, <2>1 DEF WriteFails, TypeOK
<1> QED BY <1>1, <1>2, <1>3, <1>4, <1>5, <1>6 DEF Server

-----------------------------------------------------------------------------
\* The table holds the same sockets in the same slots.
SameSockets ==
  /\ count' = count /\ open' = open /\ backlog' = backlog
  /\ \A i \in 0 .. count - 1 : table'[i].sock = table[i].sock

\* With the same sockets in the same slots the account stays right.
LEMMA SameSocketsAccounted ==
  ASSUME SocketsAccounted, SameSockets
  PROVE  SocketsAccounted'
BY DEF SocketsAccounted, SameSockets, Active

\* Every record keeps the buffers it has.
SameData == \A i \in Slots : table'[i].data = table[i].data

\* Only Accept and CloseStale change which sockets the table holds, and only
\* CloseStale which buffers.
LEMMA OtherStepsSameSockets ==
  ASSUME TableInv, [Next]_vars, ~CloseStale, \A c \in Clients : ~Accept(c) /\ ~Connect(c)
  PROVE  SameSockets /\ SameData
<1> USE DEF tableVars, passVars, clientVars, SameSockets, SameData
<1>0. /\ \A i \in 0 .. count - 1 : i \in Slots
      /\ \A i \in Slots : table[i] \in Connections
      /\ table \in [Slots -> Connections]
  BY SlotsInRange DEF TableInv, TypeOK
<1>1. CASE \/ UNCHANGED vars
           \/ \E c \in Clients : Client(c)
           \/ AcceptNone \/ SkipClient \/ LoopDone \/ KeepAlive \/ UpdateDone \/ Select \/ ReadMore
  BY <1>1 DEF vars, Client, Connect, Send, HangUp, AcceptNone, SkipClient, LoopDone, KeepAlive,
              UpdateDone, Select, ReadMore
<1>2. CASE EnterClient
  BY <1>0, <1>2 DEF EnterClient
<1>3. ASSUME NEW ok \in BOOLEAN, SendContinue(ok) PROVE SameSockets /\ SameData
  BY <1>0, <1>3 DEF SendContinue
<1>4. CASE BeginServe \/ DataFrame
  <2>1. UNCHANGED <<count, open, backlog>>
    BY <1>4 DEF BeginServe, DataFrame
  <2>2. PICK x : table' = [table EXCEPT ![idx].left = x]
    BY <1>4 DEF BeginServe, DataFrame, Read
  <2> QED BY <1>0, <2>1, <2>2
<1>5. CASE ReadFails
  BY <1>0, <1>5 DEF ReadFails
<1>6. CASE CloseFrame
  BY <1>0, <1>6 DEF CloseFrame
<1>7. ASSUME NEW ok \in BOOLEAN, PingFrame(ok) PROVE SameSockets /\ SameData
  <2>1. UNCHANGED <<count, open, backlog>>
    BY <1>7 DEF PingFrame
  <2>2. CASE table' = table
    BY <2>1, <2>2
  <2>3. CASE table' = [table EXCEPT ![idx].alive = FALSE]
    BY <1>0, <2>1, <2>3
  <2> QED BY <1>7, <2>2, <2>3 DEF PingFrame
<1>8. ASSUME NEW i \in Slots, WriteFails(i) PROVE SameSockets /\ SameData
  BY <1>0, <1>8 DEF WriteFails
<1>9. CASE ReadRequest
  <2> DEFINE buf  == Filled("header")
             used == conn.used + Got
             size == RequestSize(buf, used)
             gone == FillError \/ IF size = 0 THEN used = BufferMax ELSE ~WellFormed(buf, size)
             st   == IF buf[size].kind = "expect" THEN "continue" ELSE "serve"
             b    == table[idx].alive /\ ~gone
             m    == SubSeq(buf, 1, size)
             left == used - size
  <2>1. UNCHANGED <<count, open, backlog>>
    BY <1>9 DEF ReadRequest
  <2>2. \/ table' = [table EXCEPT ![idx].used = used, ![idx].alive = b]
        \/ table' = [table EXCEPT ![idx].used = used, ![idx].left = left,
                                  ![idx].message = m, ![idx].state = st]
    <3> HIDE DEF gone, used, size, buf
    <3> QED BY <1>9 DEF ReadRequest, gone, used, size, buf
  <2> HIDE DEF b, st, m, left, gone, used, size, buf
  <2>3. CASE table' = [table EXCEPT ![idx].used = used, ![idx].alive = b]
    BY <1>0, <2>1, <2>3
  <2>4. CASE table' = [table EXCEPT ![idx].used = used, ![idx].left = left,
                                    ![idx].message = m, ![idx].state = st]
    BY <1>0, <2>1, <2>4
  <2> QED BY <2>2, <2>3, <2>4
<1>10. CASE ReadFrame
  <2> DEFINE used == conn.used + Got
             b    == table[idx].alive /\ ~FillError
             m    == SubSeq(Filled("io"), 1, 2)
             left == used - 2
  <2>1. UNCHANGED <<count, open, backlog>>
    BY <1>10 DEF ReadFrame
  <2>2. \/ table' = [table EXCEPT ![idx].used = used, ![idx].alive = b]
        \/ table' = [table EXCEPT ![idx].used = used, ![idx].left = left, ![idx].message = m]
    <3> HIDE DEF used
    <3> QED BY <1>10 DEF ReadFrame, used
  <2> HIDE DEF b, m, left, used
  <2>3. CASE table' = [table EXCEPT ![idx].used = used, ![idx].alive = b]
    BY <1>0, <2>1, <2>3
  <2>4. CASE table' = [table EXCEPT ![idx].used = used, ![idx].left = left, ![idx].message = m]
    BY <1>0, <2>1, <2>4
  <2> QED BY <2>2, <2>3, <2>4
<1>11. CASE RespondError
  <2>1. UNCHANGED <<count, open, backlog>>
    BY <1>11 DEF RespondError
  <2>2. CASE table' = table
    BY <2>1, <2>2
  <2>3. CASE table' = [table EXCEPT ![idx].alive = FALSE]
    BY <1>0, <2>1, <2>3
  <2>4. CASE table' = [table EXCEPT ![idx] = ResetConnection(table[idx])]
    BY <1>0, <2>1, <2>4 DEF ResetConnection
  <2> QED BY <1>11, <2>2, <2>3, <2>4 DEF RespondError
<1>12. CASE RespondUpgrade
  BY <1>0, <1>12 DEF RespondUpgrade, ResetConnection
<1>13. CASE FrameDone
  BY <1>0, <1>13 DEF FrameDone, ResetConnection
<1> QED BY <1>1, <1>2, <1>3, <1>4, <1>5, <1>6, <1>7, <1>8, <1>9, <1>10, <1>11, <1>12, <1>13
        DEF Next, Server, Quiet

\* Accept puts a socket in the table that is not in it yet.
LEMMA AcceptAccounted ==
  ASSUME TableInv, NEW c \in Clients, Accept(c)
  PROVE  SocketsAccounted'
<1>0. count \in Slots /\ count \in Nat /\ table \in [Slots -> Connections]
  BY WebbyAssumption DEF Accept, TableInv, TypeOK, Slots
<1>1. /\ table'[count].sock = c /\ count' = count + 1 /\ open' = open \cup {c} /\ c \notin open
      /\ \A i \in 0 .. count - 1 : i \in Slots /\ table'[i] = table[i]
  BY <1>0, SlotsInRange DEF Accept, TableInv, PeersInv, ResetConnection
<1>2. \A i \in 0 .. count - 1 : table[i].sock # c
  BY <1>1 DEF TableInv, SocketsAccounted, Active
<1>3. 0 .. count' - 1 = (0 .. count - 1) \cup {count}
  BY <1>0, <1>1
<1>4. Active' = Active \cup {c}
  BY <1>0, <1>1, <1>3 DEF Active
<1>5. \A i, j \in 0 .. count' - 1 : table'[i].sock = table'[j].sock => i = j
  BY <1>1, <1>2, <1>3 DEF TableInv, SocketsAccounted
<1> QED BY <1>1, <1>4, <1>5 DEF TableInv, SocketsAccounted

\* Which record each slot holds once one is taken out.
LEMMA CompactedSlots ==
  ASSUME TypeOK, NEW i \in 0 .. count - 1
  PROVE  \A j \in 0 .. count - 2 :
           /\ Compacted(i)[j] = table[IF j < i THEN j ELSE j + 1]
           /\ j \in 0 .. count - 1 /\ j + 1 \in 0 .. count - 1
BY SlotsInRange DEF Compacted, TypeOK

\* CloseStale closes one socket and memmove keeps the others, each once.
LEMMA CloseStaleAccounted ==
  ASSUME TableInv, CloseStale
  PROVE  SocketsAccounted'
<1>0. count \in Nat /\ idx \in 0 .. count - 1 /\ TypeOK
  BY DEF TableInv, TypeOK, CloseStale
<1>1. /\ count' = count - 1 /\ open' = open \ {table[idx].sock} /\ count' - 1 = count - 2
      /\ \A j \in 0 .. count - 2 : /\ table'[j] = table[IF j < idx THEN j ELSE j + 1]
                                   /\ j \in 0 .. count - 1 /\ j + 1 \in 0 .. count - 1
  BY <1>0, CompactedSlots DEF CloseStale, conn
<1> DEFINE was(j) == IF j < idx THEN j ELSE j + 1
<1>2. \A j \in 0 .. count - 2 : was(j) \in 0 .. count - 1 /\ was(j) # idx /\ table'[j] = table[was(j)]
  BY <1>0, <1>1
<1>3. \A k \in 0 .. count - 1 : k # idx => \E j \in 0 .. count - 2 : k = was(j)
  <2> TAKE k \in 0 .. count - 1
  <2>1. CASE k < idx
    BY <1>0, <2>1
  <2>2. CASE k > idx
    <3>1. k - 1 \in 0 .. count - 2 /\ ~(k - 1 < idx) /\ (k - 1) + 1 = k
      BY <1>0, <2>2
    <3> QED BY <3>1
  <2> QED BY <1>0, <2>1, <2>2
<1>4. \A j, k \in 0 .. count - 2 : was(j) = was(k) => j = k
  BY <1>0
<1> HIDE DEF was
<1>5. \A j, k \in 0 .. count - 1 : table[j].sock = table[k].sock => j = k
  BY DEF TableInv, SocketsAccounted
<1>6. Active' = Active \ {table[idx].sock}
  <2>1. Active' = {table'[j].sock : j \in 0 .. count - 2}
    BY <1>1 DEF Active
  <2>2. ASSUME NEW x \in Active' PROVE x \in Active \ {table[idx].sock}
    <3>1. PICK j \in 0 .. count - 2 : x = table'[j].sock
      BY <2>1
    <3> QED BY <1>0, <1>2, <1>5, <3>1 DEF Active
  <2>3. ASSUME NEW x \in Active, x # table[idx].sock PROVE x \in Active'
    <3>1. PICK k \in 0 .. count - 1 : x = table[k].sock
      BY DEF Active
    <3>2. PICK j \in 0 .. count - 2 : k = was(j)
      BY <1>3, <2>3, <3>1
    <3> QED BY <1>2, <2>1, <3>1, <3>2
  <2> QED BY <2>2, <2>3
<1>7. \A j, k \in 0 .. count' - 1 : table'[j].sock = table'[k].sock => j = k
  BY <1>1, <1>2, <1>4, <1>5
<1> QED BY <1>1, <1>6, <1>7 DEF TableInv, SocketsAccounted

\* Every step keeps the account of the sockets.
LEMMA NextAccounted ==
  ASSUME TableInv, [Next]_vars
  PROVE  SocketsAccounted'
<1>1. CASE CloseStale
  BY <1>1, CloseStaleAccounted
<1>2. ASSUME NEW c \in Clients, Accept(c) PROVE SocketsAccounted'
  BY <1>2, AcceptAccounted
<1>3. ASSUME NEW c \in Clients, Connect(c) PROVE SocketsAccounted'
  BY <1>3 DEF Connect, tableVars, TableInv, SocketsAccounted, Active
<1>4. CASE ~CloseStale /\ \A c \in Clients : ~Accept(c) /\ ~Connect(c)
  BY <1>4, OtherStepsSameSockets, SameSocketsAccounted DEF TableInv
<1> QED BY <1>1, <1>2, <1>3, <1>4

\* No step connects a socket twice, or accepts one nobody connected.
LEMMA NextPeers ==
  ASSUME TableInv, [Next]_vars
  PROVE  PeersInv'
<1> USE DEF tableVars, passVars, clientVars, PeersInv, TableInv, TypeOK
<1>0. /\ open \subseteq Clients /\ backlog \subseteq Clients
      /\ peer \in [Clients -> {"away", "up", "closed", "aborted"}]
  OBVIOUS
<1>1. ASSUME NEW c \in Clients, Accept(c) PROVE PeersInv'
  BY <1>1 DEF Accept
<1>2. CASE CloseStale
  BY <1>2 DEF CloseStale
<1>3. ASSUME NEW c \in Clients, Connect(c) PROVE PeersInv'
  BY <1>3 DEF Connect
<1>4. CASE ~CloseStale /\ \A c \in Clients : ~Accept(c) /\ ~Connect(c)
  <2>1. UNCHANGED <<open, backlog>>
    BY <1>4, OtherStepsSameSockets DEF SameSockets
  <2>2. \A c \in Clients : peer[c] # "away" => peer'[c] # "away"
    <3>1. CASE ReadFails
      BY <1>0, <3>1 DEF ReadFails
    <3>2. ASSUME NEW c \in Clients, Client(c) PROVE \A d \in Clients : peer[d] # "away" => peer'[d] # "away"
      BY <1>0, <1>4, <3>2 DEF Client, Send, HangUp
    <3>3. CASE UNCHANGED peer
      BY <3>3
    <3>4. CASE Next /\ ~ReadFails /\ ~(\E c \in Clients : Client(c))
      BY <3>3, <3>4 DEF Next, Server, Quiet, Select, Accept, AcceptNone, EnterClient, SkipClient, LoopDone,
             ReadRequest, SendContinue, BeginServe, ReadMore, RespondError, ReadFrame, CloseFrame,
             PingFrame, FrameDone, KeepAlive, UpdateDone, RespondUpgrade, DataFrame, CloseStale, WriteFails
    <3> QED BY <3>1, <3>2, <3>3, <3>4 DEF vars
  <2> QED BY <1>0, <2>1, <2>2
<1> QED BY <1>1, <1>2, <1>3, <1>4

-----------------------------------------------------------------------------
\* Every step leaves the pass at a place its counters allow.
LEMMA NextPass ==
  ASSUME TableInv, [Next]_vars
  PROVE  PassInv'
<1> USE DEF tableVars, passVars, clientVars, PassInv, InLoop, AtClient, conn
<1>0. /\ count \in Nat /\ idx \in Nat /\ limit \in Nat /\ pc \in Points
      /\ table \in [Slots -> Connections] /\ PassInv
      /\ \A i \in 0 .. count - 1 : i \in Slots
  BY SlotsInRange DEF TableInv, TypeOK
<1>1. CASE UNCHANGED vars
  BY <1>0, <1>1 DEF vars
<1>2. ASSUME NEW c \in Clients, Client(c) PROVE PassInv'
  BY <1>0, <1>2 DEF Client, Connect, Send, HangUp
<1>3. CASE Select
  BY <1>0, <1>3 DEF Select, ToClients
<1>4. ASSUME NEW c \in Clients, Accept(c) PROVE PassInv'
  BY <1>0, <1>4 DEF Accept
<1>5. CASE AcceptNone
  BY <1>0, <1>5 DEF AcceptNone, ToClients
<1>6. CASE EnterClient
  BY <1>0, <1>6 DEF EnterClient
<1>7. CASE SkipClient
  BY <1>0, <1>7 DEF SkipClient
<1>8. CASE LoopDone
  BY <1>0, <1>8 DEF LoopDone
<1>9. CASE ReadRequest
  <2>1. pc = "client" /\ UNCHANGED <<count, limit>> /\ (Again \/ Leave)
    BY <1>9 DEF ReadRequest
  <2> QED BY <1>0, <2>1 DEF Again, Leave
<1>10. ASSUME NEW ok \in BOOLEAN, SendContinue(ok) PROVE PassInv'
  <2>1. pc = "client" /\ UNCHANGED <<count, limit>> /\ (Again \/ Leave)
    BY <1>10 DEF SendContinue
  <2> QED BY <1>0, <2>1 DEF Again, Leave
<1>11. CASE BeginServe \/ DataFrame
  <2>1. /\ pc \in {"client", "frame"} /\ UNCHANGED <<count, limit, idx>>
        /\ pc' \in {"reading", "respond"} /\ conn.state \in {"serve", "websocket"}
    BY <1>0, <1>11 DEF BeginServe, DataFrame, Read
  <2>2. PICK x : table' = [table EXCEPT ![idx].left = x]
    BY <1>11 DEF BeginServe, DataFrame, Read
  <2>3. idx \in Slots
    BY <1>0, <2>1
  <2>4. table'[idx].state = table[idx].state
    BY <1>0, <2>2, <2>3
  <2> QED BY <1>0, <2>1, <2>4
<1>12. CASE ReadMore
  BY <1>0, <1>12 DEF ReadMore
<1>13. CASE ReadFails
  <2>1. pc = "reading" /\ UNCHANGED <<count, limit, idx>> /\ pc' \in {"reading", "respond"}
    BY <1>13 DEF ReadFails
  <2>2. idx \in Slots /\ table' = [table EXCEPT ![idx].alive = FALSE]
    BY <1>0, <1>13, <2>1 DEF ReadFails
  <2>3. table'[idx].state = table[idx].state
    BY <1>0, <2>2
  <2> QED BY <1>0, <2>1, <2>3
<1>14. CASE RespondError \/ RespondUpgrade \/ FrameDone
  <2>1. pc = "respond" /\ UNCHANGED <<count, limit>> /\ (Again \/ Leave)
    BY <1>14 DEF RespondError, RespondUpgrade, FrameDone
  <2> QED BY <1>0, <2>1 DEF Again, Leave
<1>15. CASE ReadFrame
  <2>1. /\ pc = "client" /\ UNCHANGED <<count, limit>> /\ conn.state = "websocket"
        /\ \/ Leave
           \/ pc' = "frame" /\ UNCHANGED idx
    BY <1>15 DEF ReadFrame
  <2>2. CASE Leave
    BY <1>0, <2>1, <2>2 DEF Leave
  <2>3. CASE pc' = "frame" /\ UNCHANGED idx
    <3>1. idx \in Slots
      BY <1>0, <2>1
    <3>2. table'[idx].state = table[idx].state
      <4> DEFINE used == conn.used + Got
                 b    == table[idx].alive /\ ~FillError
                 m    == SubSeq(Filled("io"), 1, 2)
                 left == used - 2
      <4>1. \/ table' = [table EXCEPT ![idx].used = used, ![idx].alive = b]
            \/ table' = [table EXCEPT ![idx].used = used, ![idx].left = left, ![idx].message = m]
        <5> HIDE DEF used
        <5> QED BY <1>15 DEF ReadFrame, used
      <4> HIDE DEF b, m, left, used
      <4>2. CASE table' = [table EXCEPT ![idx].used = used, ![idx].alive = b]
        BY <1>0, <3>1, <4>2
      <4>3. CASE table' = [table EXCEPT ![idx].used = used, ![idx].left = left, ![idx].message = m]
        BY <1>0, <3>1, <4>3
      <4> QED BY <4>1, <4>2, <4>3
    <3> QED BY <1>0, <2>1, <2>3, <3>2
  <2> QED BY <2>1, <2>2, <2>3
<1>16. CASE CloseFrame
  BY <1>0, <1>16 DEF CloseFrame, Leave
<1>17. ASSUME NEW ok \in BOOLEAN, PingFrame(ok) PROVE PassInv'
  <2>1. CASE Leave
    BY <1>0, <1>17, <2>1 DEF PingFrame, Leave
  <2>2. CASE pc' = "respond" /\ UNCHANGED <<table, idx>>
    BY <1>0, <1>17, <2>2 DEF PingFrame
  <2> QED BY <1>17, <2>1, <2>2 DEF PingFrame
<1>18. CASE KeepAlive \/ UpdateDone
  BY <1>0, <1>18 DEF KeepAlive, UpdateDone
<1>19. CASE CloseStale
  BY <1>0, <1>19 DEF CloseStale
<1>20. ASSUME NEW i \in Slots, WriteFails(i) PROVE PassInv'
  BY <1>0, <1>20 DEF WriteFails
<1> QED BY <1>1, <1>2, <1>3, <1>4, <1>5, <1>6, <1>7, <1>8, <1>9, <1>10, <1>11, <1>12, <1>13, <1>14,
           <1>15, <1>16, <1>17, <1>18, <1>19, <1>20 DEF Next, Server, Quiet

\* An initial state has the invariant of the table.
LEMMA InitTable == Init => TableInv
<1> SUFFICES ASSUME Init PROVE TableInv
  OBVIOUS
<1>1. /\ ConnectionMax \in Nat \ {0} /\ BufferMax \in Nat /\ MaxSend \in Nat
      /\ << >> \in Seq(Pieces)
  BY WebbyAssumption
<1>2. FreshTable \in [Slots -> Connections]
  BY <1>1 DEF FreshTable, Connections
<1>3. FreshMemory \in [Slots \X {"header", "io"} -> [1 .. BufferMax -> Pieces]]
  BY <1>1 DEF FreshMemory, Pieces
<1>4. TypeOK
  BY <1>1, <1>2, <1>3 DEF Init, TypeOK, Points, Stages
<1>5. SocketsAccounted
  BY DEF Init, SocketsAccounted, Active
<1>6. PassInv /\ PeersInv
  BY DEF Init, PassInv, PeersInv, InLoop, AtClient
<1> QED BY <1>4, <1>5, <1>6 DEF TableInv

\* Every step keeps the invariant of the table.
LEMMA NextTable == TableInv /\ [Next]_vars => TableInv'
<1> SUFFICES ASSUME TableInv, [Next]_vars PROVE TableInv'
  OBVIOUS
<1>1. TypeOK'
  <2>1. CASE UNCHANGED vars
    BY <2>1 DEF vars, tableVars, passVars, clientVars, TableInv, TypeOK
  <2>2. CASE Next
    BY <2>2, ServerTypeOK, ClientTypeOK DEF Next
  <2> QED BY <2>1, <2>2
<1> QED BY <1>1, NextAccounted, NextPass, NextPeers DEF TableInv

\* The invariant of the table holds in every state of WebbyServer: the types,
\* the account of the sockets (SocketsAccounted) and the limits of the pass.
THEOREM TableInvariance == Spec => []TableInv
BY InitTable, NextTable, PTL DEF Spec

-----------------------------------------------------------------------------
(* What the steps do to the records *)

\* No record in use changes in what the messages and the sessions depend on.
SameRecords ==
  /\ count' = count
  /\ \A i \in 0 .. count - 1 :
       /\ table'[i].sock = table[i].sock /\ table'[i].ws = table[i].ws
       /\ table'[i].state = table[i].state /\ table'[i].data = table[i].data
       /\ table'[i].used = table[i].used /\ table'[i].message = table[i].message

\* of the connections, only the one at idx gets another content
OnlyThis ==
  /\ count' = count /\ idx \in 0 .. count - 1 /\ conn = table[idx]
  /\ table'[idx].sock = conn.sock /\ table'[idx].data = conn.data
  /\ \A j \in 0 .. count - 1 : j # idx => table'[j] = table[j]

\* The steps that change no more than that.
Minor == \/ Select \/ AcceptNone \/ EnterClient \/ SkipClient \/ LoopDone
         \/ BeginServe \/ DataFrame \/ ReadMore \/ ReadFails \/ CloseFrame
         \/ (\E ok \in BOOLEAN : PingFrame(ok)) \/ KeepAlive \/ UpdateDone
         \/ (\E i \in Slots : WriteFails(i)) \/ (\E c \in Clients : Client(c))
         \/ UNCHANGED vars

\* The minor steps change no more of a record than alive, fresh and left.
LEMMA MinorRecords ==
  ASSUME TableInv, Minor
  PROVE  SameRecords /\ UNCHANGED memory
<1> USE DEF tableVars, passVars, clientVars, SameRecords
<1>0. /\ \A i \in 0 .. count - 1 : i \in Slots
      /\ \A i \in Slots : table[i] \in Connections
      /\ table \in [Slots -> Connections]
  BY SlotsInRange DEF TableInv, TypeOK
<1>1. CASE \/ UNCHANGED vars
           \/ \E c \in Clients : Client(c)
           \/ AcceptNone \/ SkipClient \/ LoopDone \/ KeepAlive \/ UpdateDone \/ Select \/ ReadMore
  BY <1>1 DEF vars, Client, Connect, Send, HangUp, AcceptNone, SkipClient, LoopDone, KeepAlive,
              UpdateDone, Select, ReadMore
<1>2. CASE EnterClient
  BY <1>0, <1>2 DEF EnterClient
<1>3. CASE BeginServe \/ DataFrame
  <2>1. UNCHANGED <<count, memory>>
    BY <1>3 DEF BeginServe, DataFrame
  <2>2. PICK x : table' = [table EXCEPT ![idx].left = x]
    BY <1>3 DEF BeginServe, DataFrame, Read
  <2> QED BY <1>0, <2>1, <2>2
<1>4. CASE ReadFails
  BY <1>0, <1>4 DEF ReadFails
<1>5. CASE CloseFrame
  BY <1>0, <1>5 DEF CloseFrame
<1>6. ASSUME NEW ok \in BOOLEAN, PingFrame(ok) PROVE SameRecords /\ UNCHANGED memory
  <2>1. UNCHANGED <<count, memory>>
    BY <1>6 DEF PingFrame
  <2>2. CASE table' = table
    BY <2>1, <2>2
  <2>3. CASE table' = [table EXCEPT ![idx].alive = FALSE]
    BY <1>0, <2>1, <2>3
  <2> QED BY <1>6, <2>2, <2>3 DEF PingFrame
<1>7. ASSUME NEW i \in Slots, WriteFails(i) PROVE SameRecords /\ UNCHANGED memory
  BY <1>0, <1>7 DEF WriteFails
<1> QED BY <1>1, <1>2, <1>3, <1>4, <1>5, <1>6, <1>7 DEF Minor

\* WBC_SEND_CONTINUE goes on to serve, or stays as it is.
LEMMA SendContinueRecord ==
  ASSUME TableInv, NEW ok \in BOOLEAN, SendContinue(ok)
  PROVE  /\ UNCHANGED <<memory, inbox>> /\ OnlyThis /\ conn.state = "continue" /\ pc' \in {"client", "clients"}
         /\ table'[idx].ws = conn.ws /\ table'[idx].state \in {"serve", "continue"}
         /\ table'[idx].message = conn.message
<1>1. idx \in 0 .. count - 1 /\ idx \in Slots /\ conn = table[idx] /\ conn \in Connections
  BY ConnInRange DEF SendContinue, AtClient
<1> DEFINE b == table[idx].alive /\ ok
           st == IF ok THEN "serve" ELSE "continue"
<1>2. table' = [table EXCEPT ![idx].alive = b, ![idx].state = st]
      /\ UNCHANGED <<count, memory, inbox>> /\ st \in {"serve", "continue"} /\ conn.state = "continue"
      /\ pc' \in {"client", "clients"}
  BY DEF SendContinue, Again, Leave
<1>3. table \in [Slots -> Connections] /\ \A i \in 0 .. count - 1 : i \in Slots
  BY SlotsInRange DEF TableInv, TypeOK
<1> HIDE DEF b, st
<1>4. table'[idx] = [conn EXCEPT !.alive = b, !.state = st]
  BY <1>1, <1>2, <1>3
<1> QED BY <1>1, <1>2, <1>3, <1>4 DEF OnlyThis, Connections

\* WBC_REQUEST collects in the header buffer; a complete request is its start.
LEMMA ReadRequestRecord ==
  ASSUME TableInv, ReadRequest
  PROVE  /\ OnlyThis /\ conn.state = "request" /\ Fill("header") /\ pc = "client" /\ pc' \in {"client", "clients"}
         /\ table'[idx].ws = conn.ws /\ table'[idx].used = conn.used + Got
         /\ \/ table'[idx].state = "request"
            \/ /\ table'[idx].state \in {"serve", "continue"}
               /\ \E size \in 1 .. conn.used + Got :
                    table'[idx].message = SubSeq(Filled("header"), 1, size)
<1>1. idx \in 0 .. count - 1 /\ idx \in Slots /\ conn = table[idx] /\ conn \in Connections
  BY ConnInRange DEF ReadRequest, AtClient
<1>2. table \in [Slots -> Connections] /\ \A i \in 0 .. count - 1 : i \in Slots
  BY SlotsInRange DEF TableInv, TypeOK
<1>3. conn.used + Got \in 0 .. BufferMax /\ BufferMax \in Nat
  BY FilledType, WebbyAssumption DEF ReadRequest
<1> DEFINE buf  == Filled("header")
           used == conn.used + Got
           size == RequestSize(buf, used)
           gone == FillError \/ IF size = 0 THEN used = BufferMax ELSE ~WellFormed(buf, size)
           b    == table[idx].alive /\ ~gone
           st   == IF buf[size].kind = "expect" THEN "continue" ELSE "serve"
           left == used - size
           m    == SubSeq(buf, 1, size)
<1>4. size \in 0 .. used /\ st \in {"serve", "continue"}
  BY <1>3, RequestSizeRange
<1>5. /\ UNCHANGED count /\ conn.state = "request" /\ Fill("header") /\ pc = "client"
      /\ pc' \in {"client", "clients"}
  BY DEF ReadRequest, Again, Leave
<1> HIDE DEF size, gone, b, st, left, m
<1>6. CASE gone \/ size = 0
  <2>1. table' = [table EXCEPT ![idx].used = used, ![idx].alive = b]
    BY <1>6 DEF ReadRequest, size, gone, b
  <2> HIDE DEF used
  <2>2. table'[idx] = [conn EXCEPT !.used = used, !.alive = b]
    BY <1>1, <1>2, <2>1
  <2>3. OnlyThis /\ table'[idx].ws = conn.ws /\ table'[idx].used = used /\ table'[idx].state = "request"
    BY <1>1, <1>2, <1>5, <2>1, <2>2 DEF OnlyThis, Connections
  <2> QED BY <1>5, <2>3 DEF used
<1>7. CASE ~(gone \/ size = 0)
  <2>1. table' = [table EXCEPT ![idx].used = used, ![idx].left = left,
                               ![idx].message = m, ![idx].state = st]
    BY <1>7 DEF ReadRequest, size, gone, st, left, m
  <2> HIDE DEF used
  <2>2. table'[idx] = [conn EXCEPT !.used = used, !.left = left, !.message = m, !.state = st]
    BY <1>1, <1>2, <2>1
  <2>3. /\ OnlyThis /\ table'[idx].ws = conn.ws /\ table'[idx].used = used
        /\ table'[idx].state = st /\ table'[idx].message = m
    BY <1>1, <1>2, <1>5, <2>1, <2>2 DEF OnlyThis, Connections
  <2>4. size \in 1 .. used
    BY <1>3, <1>4, <1>7 DEF used
  <2> QED BY <1>4, <1>5, <2>3, <2>4 DEF used, m
<1> QED BY <1>6, <1>7

\* WBC_WEBSOCKET collects in the I/O buffer; a frame header is its start.
LEMMA ReadFrameRecord ==
  ASSUME TableInv, ReadFrame
  PROVE  /\ OnlyThis /\ conn.state = "websocket" /\ Fill("io") /\ pc = "client"
         /\ table'[idx].ws = conn.ws /\ table'[idx].state = "websocket"
         /\ table'[idx].used = conn.used + Got
         /\ \/ pc' = "clients"
            \/ /\ pc' = "frame" /\ idx' = idx /\ conn.used + Got >= 2
               /\ table'[idx].message = SubSeq(Filled("io"), 1, 2)
<1>1. idx \in 0 .. count - 1 /\ idx \in Slots /\ conn = table[idx] /\ conn \in Connections
  BY ConnInRange DEF ReadFrame, AtClient
<1>2. table \in [Slots -> Connections] /\ \A i \in 0 .. count - 1 : i \in Slots
  BY SlotsInRange DEF TableInv, TypeOK
<1>3. conn.used + Got \in 0 .. BufferMax /\ BufferMax \in Nat
  BY FilledType, WebbyAssumption DEF ReadFrame
<1> DEFINE used == conn.used + Got
           b    == table[idx].alive /\ ~FillError
           left == used - 2
           m    == SubSeq(Filled("io"), 1, 2)
<1>4. UNCHANGED count /\ conn.state = "websocket" /\ Fill("io") /\ pc = "client"
  BY DEF ReadFrame
<1> HIDE DEF b, left, m
<1>5. CASE FillError \/ used < 2
  <2>1. table' = [table EXCEPT ![idx].used = used, ![idx].alive = b] /\ pc' = "clients"
    BY <1>5 DEF ReadFrame, b, Leave
  <2> HIDE DEF used
  <2>2. table'[idx] = [conn EXCEPT !.used = used, !.alive = b]
    BY <1>1, <1>2, <2>1
  <2>3. OnlyThis /\ table'[idx].ws = conn.ws /\ table'[idx].used = used /\ table'[idx].state = "websocket"
    BY <1>1, <1>2, <1>4, <2>1, <2>2 DEF OnlyThis, Connections
  <2> QED BY <1>4, <2>1, <2>3 DEF used
<1>6. CASE ~(FillError \/ used < 2)
  <2>1. table' = [table EXCEPT ![idx].used = used, ![idx].left = left, ![idx].message = m]
        /\ pc' = "frame" /\ idx' = idx
    BY <1>6 DEF ReadFrame, left, m
  <2>2. used >= 2
    BY <1>3, <1>6
  <2> HIDE DEF used
  <2>3. table'[idx] = [conn EXCEPT !.used = used, !.left = left, !.message = m]
    BY <1>1, <1>2, <2>1
  <2>4. /\ OnlyThis /\ table'[idx].ws = conn.ws /\ table'[idx].used = used
        /\ table'[idx].state = "websocket" /\ table'[idx].message = m
    BY <1>1, <1>2, <1>4, <2>1, <2>3 DEF OnlyThis, Connections
  <2> QED BY <1>4, <2>1, <2>2, <2>4 DEF used, m
<1> QED BY <1>5, <1>6

\* After an answer the connection starts over, as a websocket if it was upgraded.
LEMMA ResetRecord ==
  ASSUME TableInv, RespondError \/ RespondUpgrade \/ FrameDone
  PROVE  /\ UNCHANGED <<memory, inbox>> /\ pc = "respond" /\ pc' \in {"client", "clients"}
         /\ \/ SameRecords
            \/ /\ OnlyThis /\ table'[idx].used = 0
               /\ \/ /\ RespondError /\ conn.state = "serve"
                     /\ table'[idx].state = "request" /\ table'[idx].ws = conn.ws
                  \/ /\ RespondUpgrade /\ conn.state = "serve"
                     /\ table'[idx].state = "websocket" /\ table'[idx].ws = TRUE
                  \/ /\ FrameDone /\ conn.state = "websocket"
                     /\ table'[idx].state = "websocket" /\ table'[idx].ws = conn.ws
<1>1. idx \in 0 .. count - 1 /\ idx \in Slots /\ conn = table[idx] /\ conn \in Connections
  BY ConnInRange DEF RespondError, RespondUpgrade, FrameDone, AtClient
<1>2. table \in [Slots -> Connections] /\ \A i \in 0 .. count - 1 : i \in Slots
  BY SlotsInRange DEF TableInv, TypeOK
<1>3. UNCHANGED <<count, memory, inbox>> /\ pc = "respond" /\ pc' \in {"client", "clients"}
  BY DEF RespondError, RespondUpgrade, FrameDone, Again, Leave
<1>4. ASSUME NEW r, table' = [table EXCEPT ![idx] = r], r.sock = conn.sock, r.data = conn.data
      PROVE  OnlyThis /\ table'[idx] = r
  BY <1>1, <1>2, <1>3, <1>4 DEF OnlyThis
<1>5. CASE RespondError
  <2>1. conn.state = "serve"
    BY <1>5 DEF RespondError
  <2>2. CASE table' = table
    BY <1>3, <2>2 DEF SameRecords
  <2>3. CASE table' = [table EXCEPT ![idx].alive = FALSE]
    <3>1. SameRecords
      BY <1>1, <1>2, <1>3, <2>3 DEF SameRecords
    <3> QED BY <1>3, <3>1
  <2>4. CASE table' = [table EXCEPT ![idx] = ResetConnection(@)]
    <3>1. OnlyThis /\ table'[idx] = ResetConnection(conn)
      BY <1>1, <1>4, <2>4 DEF ResetConnection, Connections
    <3> QED BY <1>1, <1>3, <1>5, <2>1, <3>1 DEF ResetConnection, Connections
  <2> QED BY <1>5, <2>2, <2>3, <2>4 DEF RespondError
<1>6. CASE RespondUpgrade
  <2>1. /\ conn.state = "serve"
        /\ table' = [table EXCEPT ![idx] =
             [ResetConnection(conn) EXCEPT !.ws = TRUE, !.state = "websocket"]]
    BY <1>1, <1>6 DEF RespondUpgrade
  <2>2. /\ OnlyThis
        /\ table'[idx] = [ResetConnection(conn) EXCEPT !.ws = TRUE, !.state = "websocket"]
    BY <1>1, <1>4, <2>1 DEF ResetConnection, Connections
  <2>3. /\ table'[idx].used = 0 /\ table'[idx].state = "websocket" /\ table'[idx].ws = TRUE
    BY <1>1, <2>2 DEF ResetConnection, Connections
  <2> QED BY <1>3, <1>6, <2>1, <2>2, <2>3
<1>7. CASE FrameDone
  <2>1. /\ conn.state = "websocket"
        /\ table' = [table EXCEPT ![idx] = [ResetConnection(conn) EXCEPT !.state = "websocket"]]
    BY <1>1, <1>7 DEF FrameDone
  <2>2. OnlyThis /\ table'[idx] = [ResetConnection(conn) EXCEPT !.state = "websocket"]
    BY <1>1, <1>4, <2>1 DEF ResetConnection, Connections
  <2>3. /\ table'[idx].used = 0 /\ table'[idx].state = "websocket" /\ table'[idx].ws = conn.ws
    BY <1>1, <2>2 DEF ResetConnection, Connections
  <2> QED BY <1>3, <1>7, <2>1, <2>2, <2>3
<1> QED BY <1>5, <1>6, <1>7

\* The kinds of steps the lemmas above are about are all there are.
LEMMA NextCases ==
  ASSUME [Next]_vars
  PROVE  \/ Minor \/ (\E ok \in BOOLEAN : SendContinue(ok)) \/ ReadRequest \/ ReadFrame
         \/ RespondError \/ RespondUpgrade \/ FrameDone
         \/ (\E c \in Clients : Accept(c)) \/ CloseStale
BY DEF Next, Server, Quiet, Minor

-----------------------------------------------------------------------------
\* ws is set exactly in the state of a websocket.
StateInv == \A i \in 0 .. count - 1 : table[i].ws <=> table[i].state = "websocket"

\* What Accept and CloseStale do to the records.
LEMMA AcceptRecords ==
  ASSUME TableInv, NEW c \in Clients, Accept(c)
  PROVE  /\ count' = count + 1 /\ UNCHANGED <<memory, inbox, pc, idx>> /\ pc = "accept"
         /\ \A i \in 0 .. count - 1 : table'[i] = table[i]
         /\ table'[count] = [ResetConnection(table[count]) EXCEPT
                               !.sock = c, !.alive = TRUE, !.fresh = TRUE, !.ws = FALSE]
         /\ 0 .. count' - 1 = (0 .. count - 1) \cup {count}
         /\ count \in Slots /\ table[count] \in Connections
<1>0. count \in Slots /\ count \in Nat /\ table \in [Slots -> Connections]
  BY WebbyAssumption DEF Accept, TableInv, TypeOK, Slots
<1>1. 0 .. (count + 1) - 1 = (0 .. count - 1) \cup {count}
  BY <1>0
<1> QED BY <1>0, <1>1, SlotsInRange DEF Accept, TableInv, tableVars, passVars

\* CloseStale moves the records behind the one it takes out.
LEMMA CloseStaleRecords ==
  ASSUME TableInv, CloseStale
  PROVE  /\ count' = count - 1 /\ UNCHANGED <<memory, inbox, pc, idx>> /\ pc = "compact"
         /\ idx \in 0 .. count - 1 /\ conn = table[idx]
         /\ \A j \in 0 .. count' - 1 :
              /\ table'[j] = table[IF j < idx THEN j ELSE j + 1]
              /\ j \in 0 .. count - 1 /\ j + 1 \in 0 .. count - 1
<1>0. count \in Nat /\ idx \in 0 .. count - 1 /\ TypeOK
  BY DEF TableInv, TypeOK, CloseStale
<1>1. (count - 1) - 1 = count - 2
  BY <1>0
<1> QED BY <1>0, <1>1, CompactedSlots DEF CloseStale, conn, passVars

\* A connection is a websocket exactly while its state says so.
LEMMA NextState ==
  ASSUME TableInv, StateInv, [Next]_vars
  PROVE  StateInv'
<1>0. /\ count \in Nat
      /\ \A i \in 0 .. count - 1 : i \in Slots /\ table[i] \in Connections
  BY SlotsInRange DEF TableInv, TypeOK
<1>1. CASE Minor
  BY <1>1, MinorRecords DEF StateInv, SameRecords
<1>2. ASSUME OnlyThis, table'[idx].ws <=> table'[idx].state = "websocket"
      PROVE  StateInv'
  BY <1>2, <1>0 DEF StateInv, OnlyThis
<1>3. ASSUME NEW ok \in BOOLEAN, SendContinue(ok) PROVE StateInv'
  BY <1>2, <1>3, SendContinueRecord DEF StateInv, OnlyThis
<1>4. CASE ReadRequest
  BY <1>2, <1>4, ReadRequestRecord DEF StateInv, OnlyThis
<1>5. CASE ReadFrame
  BY <1>2, <1>5, ReadFrameRecord DEF StateInv, OnlyThis
<1>6. CASE RespondError \/ RespondUpgrade \/ FrameDone
  <2>1. CASE SameRecords
    BY <2>1 DEF StateInv, SameRecords
  <2>2. CASE ~SameRecords
    BY <1>2, <1>6, <2>2, ResetRecord DEF StateInv, OnlyThis
  <2> QED BY <2>1, <2>2
<1>7. ASSUME NEW c \in Clients, Accept(c) PROVE StateInv'
  <2>1. table'[count].ws = FALSE /\ table'[count].state = "request"
    BY <1>7, AcceptRecords DEF ResetConnection, Connections
  <2>2. ASSUME NEW i \in 0 .. count' - 1 PROVE (table[i].ws <=> table[i].state = "websocket")'
    <3>1. CASE i = count
      BY <2>1, <3>1
    <3>2. CASE i \in 0 .. count - 1
      <4>1. table'[i] = table[i]
        BY <1>7, <3>2, AcceptRecords
      <4> QED BY <3>2, <4>1 DEF StateInv
    <3> QED BY <1>7, <3>1, <3>2, AcceptRecords
  <2> QED BY <2>2 DEF StateInv
<1>8. CASE CloseStale
  BY <1>0, <1>8, CloseStaleRecords DEF StateInv
<1> QED BY <1>1, <1>3, <1>4, <1>5, <1>6, <1>7, <1>8, NextCases

-----------------------------------------------------------------------------
(* The messages *)

\* No two connections in use have the same buffers.
OwnBuffers == \A i, j \in 0 .. count - 1 : table[i].data = table[j].data => i = j

\* The pieces in a buffer of the connection in slot i are its own.
FromOwn(i, region) ==
  \A k \in 1 .. table[i].used : memory[<<table[i].data, region>>][k].from = table[i].sock

\* So are those in the buffer it collects in.
Collected(i) == /\ table[i].state = "request" => FromOwn(i, "header")
                /\ table[i].state = "websocket" => FromOwn(i, "io")

\* A socket holds what its client sent.
InboxOwn == \A c \in Clients : \A k \in 1 .. Len(inbox[c]) : inbox[c][k].from = c

\* The inductive invariant of the messages.
MessageInv == InboxOwn /\ (\A i \in 0 .. count - 1 : Collected(i)) /\ MessageIntact

\* What is left in a socket after a read is still from its client.
LEMMA TailOwn ==
  ASSUME TypeOK, InboxOwn, NEW c \in Clients, NEW n \in Nat, n <= Len(inbox[c]),
         inbox' = [inbox EXCEPT ![c] = SubSeq(@, n + 1, Len(@))]
  PROVE  InboxOwn'
<1>0. inbox \in [Clients -> Seq(Pieces)] /\ Len(inbox[c]) \in Nat /\ inbox[c] \in Seq(Pieces)
  BY DEF TypeOK
<1> DEFINE s == SubSeq(inbox[c], n + 1, Len(inbox[c]))
<1>1. Len(s) = Len(inbox[c]) - n /\ \A k \in 1 .. Len(s) : s[k] = inbox[c][n + k] /\ n + k \in 1 .. Len(inbox[c])
  BY <1>0
<1> HIDE DEF s
<1>2. inbox' = [inbox EXCEPT ![c] = s]
  BY DEF s
<1> QED BY <1>0, <1>1, <1>2 DEF InboxOwn

\* What a socket holds is from the client at its other end.
LEMMA NextInbox ==
  ASSUME TableInv, InboxOwn, [Next]_vars
  PROVE  InboxOwn'
<1> USE DEF clientVars
<1>0. TypeOK /\ inbox \in [Clients -> Seq(Pieces)]
  BY DEF TableInv, TypeOK
<1>1. ASSUME NEW c \in Clients, NEW kind \in Says \cup {"head", "body"}, NEW nx \in Stages,
             Send(c, kind, nx)
      PROVE  InboxOwn'
  <2> DEFINE piece == [from |-> c, kind |-> kind]
  <2>1. inbox' = [inbox EXCEPT ![c] = Append(inbox[c], piece)] /\ piece.from = c
    BY <1>1 DEF Send
  <2>2. inbox[c] \in Seq(Pieces) /\ Len(inbox[c]) \in Nat /\ piece \in Pieces
    <3>1. c \in Clients \cup {NoSocket} /\ kind \in Requests \cup Frames \cup {"head", "body", "none"}
      BY WebbyAssumption
    <3>2. piece \in Pieces
      BY <3>1 DEF Pieces
    <3> HIDE DEF piece
    <3> QED BY <1>0, <3>2
  <2> HIDE DEF piece
  <2>3. /\ Len(Append(inbox[c], piece)) = Len(inbox[c]) + 1
        /\ \A k \in 1 .. Len(inbox[c]) : Append(inbox[c], piece)[k] = inbox[c][k]
        /\ Append(inbox[c], piece)[Len(inbox[c]) + 1] = piece
    BY <2>2
  <2>4. \A k \in 1 .. Len(inbox[c]) + 1 : Append(inbox[c], piece)[k].from = c
    BY <2>1, <2>2, <2>3 DEF InboxOwn
  <2> QED BY <1>0, <2>1, <2>3, <2>4 DEF InboxOwn
<1>2. CASE ReadRequest \/ ReadFrame
  <2>1. PICK region \in {"header", "io"} : pc = "client" /\ Fill(region)
    BY <1>2 DEF ReadRequest, ReadFrame
  <2>2. conn.sock \in Clients /\ Got \in Nat /\ Got <= Len(inbox[conn.sock])
    BY <2>1, ConnInRange, FilledType, WebbyAssumption DEF AtClient
  <2> QED BY <1>0, <2>1, <2>2, TailOwn DEF Fill
<1>3. CASE ReadMore
  <2>1. conn.sock \in Clients
    BY <1>3, ConnInRange DEF ReadMore, AtClient
  <2>2. Len(inbox[conn.sock]) \in Nat /\ need \in Nat
    BY <1>0, <2>1 DEF TypeOK
  <2> DEFINE n == IF Len(inbox[conn.sock]) < need THEN Len(inbox[conn.sock]) ELSE need
  <2>3. n \in Nat /\ n <= Len(inbox[conn.sock])
    BY <2>2
  <2>4. inbox' = [inbox EXCEPT ![conn.sock] = SubSeq(@, n + 1, Len(@))]
    BY <1>3 DEF ReadMore
  <2> HIDE DEF n
  <2> QED BY <1>0, <2>1, <2>3, <2>4, TailOwn
<1>4. CASE UNCHANGED inbox
  BY <1>4 DEF InboxOwn
<1> QED BY <1>1, <1>2, <1>3, <1>4
        DEF Next, Server, Quiet, Select, Accept, AcceptNone, EnterClient, SkipClient, LoopDone,
            SendContinue, BeginServe, ReadFails, RespondError, CloseFrame, PingFrame, FrameDone,
            KeepAlive, UpdateDone, RespondUpgrade, DataFrame, CloseStale, WriteFails, vars,
            Client, Connect, HangUp

\* A buffer with pieces of one client, filled from its socket, has no others.
LEMMA FilledFrom ==
  ASSUME TableInv, InboxOwn, pc = "client", NEW region \in {"header", "io"}, FromOwn(idx, region)
  PROVE  \A k \in 1 .. conn.used + Got : Filled(region)[k].from = conn.sock
<1>1. /\ conn = table[idx] /\ conn.sock \in Clients /\ conn.used \in 0 .. BufferMax
  BY ConnInRange DEF AtClient, Connections
<1>2. /\ BufferMax \in Nat /\ Got \in Nat /\ conn.used + Got <= BufferMax
      /\ Got <= Len(inbox[conn.sock])
  BY FilledType, WebbyAssumption
<1>3. inbox[conn.sock] \in Seq(Pieces) /\ Len(inbox[conn.sock]) \in Nat
  BY <1>1 DEF TableInv, TypeOK
<1> TAKE k \in 1 .. conn.used + Got
<1>4. k \in 1 .. BufferMax
  BY <1>1, <1>2
<1>5. CASE k \in 1 .. conn.used
  <2>1. Filled(region)[k] = Buffer(region)[k]
    BY <1>1, <1>2, <1>4, <1>5 DEF Filled
  <2> QED BY <1>1, <1>5, <2>1 DEF FromOwn, Buffer
<1>6. CASE k \in conn.used + 1 .. conn.used + Got
  <2>1. Filled(region)[k] = inbox[conn.sock][k - conn.used]
    BY <1>4, <1>6 DEF Filled
  <2>2. k - conn.used \in 1 .. Len(inbox[conn.sock])
    <3>1. \A u, g, l \in Nat : g <= l /\ k \in u + 1 .. u + g => k - u \in 1 .. l
      OBVIOUS
    <3>2. conn.used \in Nat /\ Got \in Nat /\ Len(inbox[conn.sock]) \in Nat
      BY <1>1, <1>2, <1>3
    <3> QED BY <1>2, <1>6, <3>1, <3>2
  <2> QED BY <1>1, <2>1, <2>2 DEF InboxOwn
<1> QED BY <1>1, <1>2, <1>5, <1>6

\* What is received for one connection goes to its own buffer.
LEMMA FillElsewhere ==
  ASSUME TableInv, OwnBuffers, pc = "client", NEW region \in {"header", "io"}, Fill(region)
  PROVE  /\ memory'[<<conn.data, region>>] = Filled(region)
         /\ \A j \in 0 .. count - 1 : j # idx =>
              \A r \in {"header", "io"} : memory'[<<table[j].data, r>>] = memory[<<table[j].data, r>>]
<1>1. idx \in 0 .. count - 1 /\ conn = table[idx] /\ conn.data \in Slots
  BY ConnInRange DEF AtClient, Connections
<1>2. memory \in [Slots \X {"header", "io"} -> [1 .. BufferMax -> Pieces]]
  BY DEF TableInv, TypeOK
<1>3. \A j \in 0 .. count - 1 : j # idx => table[j].data # conn.data
  BY <1>1 DEF OwnBuffers
<1>4. \A j \in 0 .. count - 1 : table[j].data \in Slots
  BY SlotsInRange DEF TableInv, Connections
<1> QED BY <1>1, <1>2, <1>3, <1>4 DEF Fill

\* While buffers are not shared, what each connection has collected in its own
\* is from its client: also after the records moved.
LEMMA NextCollected ==
  ASSUME TableInv, OwnBuffers, MessageInv, [Next]_vars
  PROVE  \A i \in 0 .. count' - 1 : Collected(i)'
<1>x. PICK x : x = idx
  OBVIOUS
<1>y. PICK y : y = count
  OBVIOUS
<1>0. /\ count \in Nat /\ \A i \in 0 .. count - 1 : Collected(i)
  BY DEF TableInv, TypeOK, MessageInv
<1>1. CASE SameRecords /\ UNCHANGED memory
  BY <1>x, <1>0, <1>1 DEF SameRecords, Collected, FromOwn
<1>2. ASSUME OnlyThis, UNCHANGED memory, Collected(x)'
      PROVE  \A i \in 0 .. count' - 1 : Collected(i)'
  BY <1>x, <1>0, <1>2 DEF OnlyThis, Collected, FromOwn
<1>3. ASSUME NEW ok \in BOOLEAN, SendContinue(ok) PROVE \A i \in 0 .. count' - 1 : Collected(i)'
  BY <1>x, <1>2, <1>3, SendContinueRecord DEF Collected
<1>4. ASSUME NEW region \in {"header", "io"}, Fill(region), pc = "client", OnlyThis,
             table'[idx].used = conn.used + Got, FromOwn(idx, region),
             \/ table'[idx].state \in {"serve", "continue"}
             \/ table'[idx].state = "request" /\ region = "header"
             \/ table'[idx].state = "websocket" /\ region = "io"
      PROVE  \A i \in 0 .. count' - 1 : Collected(i)'
  <2>1. /\ idx \in 0 .. count - 1 /\ memory'[<<conn.data, region>>] = Filled(region)
        /\ \A j \in 0 .. count - 1 : j # idx =>
             \A r \in {"header", "io"} : memory'[<<table[j].data, r>>] = memory[<<table[j].data, r>>]
    BY <1>x, <1>4, FillElsewhere, ConnInRange DEF AtClient
  <2>2. \A k \in 1 .. conn.used + Got : Filled(region)[k].from = conn.sock
    BY <1>x, <1>4, FilledFrom DEF MessageInv
  <2>3. FromOwn(x, region)'
    BY <1>x, <1>4, <2>1, <2>2 DEF OnlyThis, FromOwn
  <2>4. Collected(x)'
    BY <1>x, <1>4, <2>3 DEF Collected
  <2>5. ASSUME NEW j \in 0 .. count - 1, j # idx PROVE Collected(j)'
    <3>1. table'[j] = table[j] /\ Collected(j)
      BY <1>x, <1>0, <1>4, <2>5 DEF OnlyThis
    <3>2. memory'[<<table[j].data, "io">>] = memory[<<table[j].data, "io">>]
          /\ memory'[<<table[j].data, "header">>] = memory[<<table[j].data, "header">>]
      BY <1>x, <2>1, <2>5
    <3> QED BY <1>x, <3>1, <3>2 DEF Collected, FromOwn
  <2> QED BY <1>x, <1>4, <2>4, <2>5 DEF OnlyThis
<1>5. CASE ReadRequest
  <2>1. OnlyThis /\ conn.state = "request" /\ FromOwn(idx, "header")
    BY <1>x, <1>0, <1>5, ReadRequestRecord DEF OnlyThis, Collected
  <2> QED BY <1>x, <1>4, <1>5, <2>1, ReadRequestRecord
<1>6. CASE ReadFrame
  <2>1. OnlyThis /\ conn.state = "websocket" /\ FromOwn(idx, "io")
    BY <1>x, <1>0, <1>6, ReadFrameRecord DEF OnlyThis, Collected
  <2> QED BY <1>x, <1>4, <1>6, <2>1, ReadFrameRecord
<1>7. CASE RespondError \/ RespondUpgrade \/ FrameDone
  <2>1. CASE SameRecords
    BY <1>x, <1>1, <1>7, <2>1, ResetRecord
  <2>2. CASE ~SameRecords
    <3>1. OnlyThis /\ UNCHANGED memory /\ table'[idx].used = 0
      BY <1>x, <1>7, <2>2, ResetRecord
    <3>2. Collected(x)'
      BY <1>x, <3>1 DEF Collected, FromOwn
    <3> QED BY <1>x, <1>2, <3>1, <3>2
  <2> QED BY <1>x, <2>1, <2>2
<1>8. ASSUME NEW c \in Clients, Accept(c) PROVE \A i \in 0 .. count' - 1 : Collected(i)'
  <2>1. table'[count].used = 0
    BY <1>x, <1>8, AcceptRecords DEF ResetConnection, Connections
  <2>2. Collected(y)'
    BY <1>y, <2>1 DEF Collected, FromOwn
  <2>3. ASSUME NEW j \in 0 .. count - 1 PROVE Collected(j)'
    <3>1. table'[j] = table[j] /\ memory' = memory /\ Collected(j)
      BY <1>x, <1>0, <1>8, AcceptRecords
    <3> QED BY <1>x, <3>1 DEF Collected, FromOwn
  <2> QED BY <1>y, <1>8, <2>2, <2>3, AcceptRecords
<1>9. CASE CloseStale
  <2> TAKE j \in 0 .. count' - 1
  <2> DEFINE w == IF j < idx THEN j ELSE j + 1
  <2>1. table'[j] = table[w] /\ memory' = memory /\ w \in 0 .. count - 1
    BY <1>x, <1>9, CloseStaleRecords
  <2> HIDE DEF w
  <2>2. Collected(w)
    BY <1>x, <1>0, <2>1
  <2> QED BY <1>x, <2>1, <2>2 DEF Collected, FromOwn
<1>10. CASE Minor
  BY <1>x, <1>1, <1>10, MinorRecords
<1> QED BY <1>x, <1>3, <1>5, <1>6, <1>7, <1>8, <1>9, <1>10, NextCases

\* ... and so is what it is served for.
LEMMA NextIntact ==
  ASSUME TableInv, OwnBuffers, MessageInv, [Next]_vars
  PROVE  MessageIntact'
<1> DEFINE Intact(i) == \A k \in DOMAIN table[i].message : table[i].message[k].from = table[i].sock
           Held(i)   == table[i].state \in {"continue", "serve"}
           Busy      == pc \in {"frame", "reading"}
<1>x. PICK x : x = idx
  OBVIOUS
<1>0. /\ count \in Nat
      /\ \A i \in 0 .. count - 1 : Held(i) \/ (i = idx /\ Busy) => Intact(i)
      /\ \A i \in 0 .. count - 1 : Collected(i)
  <2>1. count \in Nat
    BY DEF TableInv, TypeOK
  <2>2. \A i \in 0 .. count - 1 : Held(i) \/ (i = idx /\ Busy) => Intact(i)
    BY DEF MessageInv, MessageIntact, Using
  <2> QED BY <2>1, <2>2 DEF MessageInv
<1>1. SUFFICES \A i \in 0 .. count' - 1 : Held(i)' \/ (i = idx' /\ Busy') => Intact(i)'
  BY DEF MessageIntact, Using
<1>2. ASSUME SameRecords, ~Busy' \/ (Busy /\ idx' = idx)
      PROVE  \A i \in 0 .. count' - 1 : Held(i)' \/ (i = idx' /\ Busy') => Intact(i)'
  BY <1>x, <1>0, <1>2 DEF SameRecords
<1>3. ASSUME OnlyThis, ~Busy' \/ idx' = idx, (~Held(x)' /\ ~Busy') \/ Intact(x)'
      PROVE  \A i \in 0 .. count' - 1 : Held(i)' \/ (i = idx' /\ Busy') => Intact(i)'
  BY <1>x, <1>0, <1>3 DEF OnlyThis
<1>4. CASE Minor
  <2>1. SameRecords
    BY <1>x, <1>4, MinorRecords
  <2>2. CASE BeginServe
    <3>1. pc = "client" /\ conn.state = "serve" /\ idx' = idx
      BY <1>x, <2>2 DEF BeginServe
    <3>2. idx \in 0 .. count - 1 /\ conn = table[idx]
      BY <1>x, <3>1, ConnInRange DEF AtClient
    <3> QED BY <1>x, <1>0, <2>1, <3>1, <3>2 DEF SameRecords
  <2>3. CASE ~BeginServe
    <3>1. ~Busy' \/ (Busy /\ idx' = idx)
      BY <1>x, <1>4, <2>3 DEF Minor, Select, AcceptNone, EnterClient, SkipClient, LoopDone,
                  DataFrame, ReadMore, ReadFails, CloseFrame, PingFrame, KeepAlive, UpdateDone, WriteFails,
                  Client, Connect, Send, HangUp, vars, passVars, ToClients, Leave
    <3> QED BY <1>x, <1>2, <2>1, <3>1
  <2> QED BY <1>x, <2>2, <2>3
<1>5. ASSUME NEW ok \in BOOLEAN, SendContinue(ok)
      PROVE  \A i \in 0 .. count' - 1 : Held(i)' \/ (i = idx' /\ Busy') => Intact(i)'
  <2>1. /\ OnlyThis /\ ~Busy' /\ Held(idx)
        /\ table'[idx].message = table[idx].message /\ table'[idx].sock = table[idx].sock
    BY <1>x, <1>5, SendContinueRecord DEF OnlyThis
  <2>2. Intact(x)'
    BY <1>x, <1>0, <2>1 DEF OnlyThis
  <2> HIDE DEF Intact, Held, Busy
  <2> QED BY <1>x, <1>3, <2>1, <2>2
<1>6. ASSUME NEW region \in {"header", "io"}, pc = "client", NEW size \in 1 .. conn.used + Got,
             FromOwn(idx, region), OnlyThis, table'[idx].message = SubSeq(Filled(region), 1, size)
      PROVE  Intact(x)'
  <2>1. \A k \in 1 .. conn.used + Got : Filled(region)[k].from = conn.sock
    BY <1>x, <1>6, FilledFrom DEF MessageInv
  <2>2. /\ Filled(region) \in Seq(Pieces) /\ Len(Filled(region)) = BufferMax
        /\ conn.used + Got \in 0 .. BufferMax /\ BufferMax \in Nat
    BY <1>x, <1>6, FilledType, WebbyAssumption
  <2> DEFINE m == SubSeq(Filled(region), 1, size)
  <2>3. DOMAIN m = 1 .. size /\ \A k \in 1 .. size : m[k] = Filled(region)[k]
    BY <1>x, <2>2
  <2> HIDE DEF m
  <2>4. \A k \in DOMAIN m : m[k].from = conn.sock
    BY <1>x, <2>1, <2>2, <2>3
  <2> QED BY <1>x, <1>6, <2>4 DEF m, OnlyThis
<1>7. CASE ReadRequest
  <2>1. OnlyThis /\ conn.state = "request" /\ FromOwn(idx, "header") /\ pc = "client" /\ ~Busy'
    BY <1>x, <1>0, <1>7, ReadRequestRecord DEF OnlyThis, Collected
  <2>2. CASE table'[idx].state = "request"
    <3>1. ~Held(x)'
      BY <1>x, <2>2
    <3> HIDE DEF Intact, Held, Busy
    <3> QED BY <1>x, <1>3, <2>1, <3>1
  <2>3. CASE \E size \in 1 .. conn.used + Got :
                    table'[idx].message = SubSeq(Filled("header"), 1, size)
    <3>1. Intact(x)'
      BY <1>x, <1>6, <2>1, <2>3
    <3> HIDE DEF Intact, Held, Busy
    <3> QED BY <1>x, <1>3, <2>1, <3>1
  <2> QED BY <1>x, <1>7, <2>2, <2>3, ReadRequestRecord
<1>8. CASE ReadFrame
  <2>1. /\ OnlyThis /\ conn.state = "websocket" /\ FromOwn(idx, "io") /\ pc = "client"
        /\ table'[idx].state = "websocket"
    BY <1>x, <1>0, <1>8, ReadFrameRecord DEF OnlyThis, Collected
  <2>2. CASE pc' = "clients"
    <3>1. ~Busy' /\ ~Held(x)'
      BY <1>x, <2>1, <2>2
    <3> HIDE DEF Intact, Held, Busy
    <3> QED BY <1>x, <1>3, <2>1, <3>1
  <2>3. CASE /\ pc' = "frame" /\ idx' = idx /\ conn.used + Got >= 2
             /\ table'[idx].message = SubSeq(Filled("io"), 1, 2)
    <3>0. conn.used + Got \in Nat
      BY <1>x, <2>1, FilledType, WebbyAssumption
    <3>1. Intact(x)'
      BY <1>x, <1>6, <2>1, <2>3, <3>0
    <3> HIDE DEF Intact, Held, Busy
    <3> QED BY <1>x, <1>3, <2>1, <2>3, <3>1
  <2> QED BY <1>x, <1>8, <2>2, <2>3, ReadFrameRecord
<1>9. CASE RespondError \/ RespondUpgrade \/ FrameDone
  <2>0. ~Busy'
    BY <1>x, <1>9, ResetRecord
  <2>1. CASE SameRecords
    BY <1>x, <1>2, <2>0, <2>1
  <2>2. CASE ~SameRecords
    <3>1. OnlyThis /\ ~Held(x)'
      BY <1>x, <1>9, <2>2, ResetRecord
    <3> HIDE DEF Intact, Held, Busy
    <3> QED BY <1>x, <1>3, <2>0, <3>1
  <2> QED BY <1>x, <2>1, <2>2
<1>10. ASSUME NEW c \in Clients, Accept(c)
       PROVE  \A i \in 0 .. count' - 1 : Held(i)' \/ (i = idx' /\ Busy') => Intact(i)'
  <2>1. table'[count].state = "request" /\ ~Busy'
    BY <1>x, <1>10, AcceptRecords DEF ResetConnection, Connections
  <2> TAKE i \in 0 .. count' - 1
  <2>2. CASE i = count
    BY <1>x, <2>1, <2>2
  <2>3. CASE i \in 0 .. count - 1
    <3>1. table'[i] = table[i]
      BY <1>x, <1>10, <2>3, AcceptRecords
    <3> QED BY <1>x, <1>0, <2>1, <2>3, <3>1
  <2> QED BY <1>x, <1>10, <2>2, <2>3, AcceptRecords
<1>11. CASE CloseStale
  <2> TAKE j \in 0 .. count' - 1
  <2> DEFINE w == IF j < idx THEN j ELSE j + 1
  <2>1. table'[j] = table[w] /\ w \in 0 .. count - 1 /\ ~Busy'
    BY <1>x, <1>11, CloseStaleRecords
  <2> HIDE DEF w
  <2> QED BY <1>x, <1>0, <2>1
<1> QED BY <1>x, <1>4, <1>5, <1>7, <1>8, <1>9, <1>10, <1>11, NextCases

\* Initially nothing has been sent.
LEMMA InitMessage == Init => MessageInv
<1> SUFFICES ASSUME Init PROVE MessageInv
  OBVIOUS
<1>1. count = 0 /\ \A c \in Clients : inbox[c] = << >>
  BY DEF Init
<1> QED BY <1>1 DEF MessageInv, InboxOwn, MessageIntact

\* While no two connections share their buffers, a connection is served for
\* nothing but what its own client sent, however many there are and whatever
\* arrives in which order.
THEOREM MessagesWhileBuffersOwned == Spec /\ []OwnBuffers => []MessageIntact
<1>1. Init => TableInv /\ MessageInv
  BY InitTable, InitMessage
<1>2. TableInv /\ MessageInv /\ OwnBuffers /\ [Next]_vars => (TableInv /\ MessageInv)'
  <2> SUFFICES ASSUME TableInv, MessageInv, OwnBuffers, [Next]_vars
               PROVE  TableInv' /\ InboxOwn' /\ (\A i \in 0 .. count' - 1 : Collected(i)')
                      /\ MessageIntact'
    BY DEF MessageInv
  <2> QED BY NextTable, NextInbox, NextCollected, NextIntact DEF MessageInv
<1>3. MessageInv => MessageIntact
  BY DEF MessageInv
<1> QED BY <1>1, <1>2, <1>3, PTL DEF Spec

-----------------------------------------------------------------------------
(* The walk over the list *)

\* What a pointer to a session can be, and the length of a walk.
Pointers == Addresses \cup {NULL}
Size     == Cardinality(Addresses)

\* There are finitely many addresses.
LEMMA SizeNat == Size \in Nat
BY SinkAssumption, FS_CardinalityType DEF Size

\* Walk is the function its definition says it is.
LEMMA WalkSteps ==
  ASSUME SinkTypeOK
  PROVE  /\ Walk \in [0 .. Size -> Pointers] /\ Walk[0] = sessions
         /\ \A n \in 1 .. Size :
              Walk[n] = IF Alive(Walk[n - 1]) THEN heap[Walk[n - 1]].next ELSE Walk[n - 1]
<1> DEFINE h == [n \in Nat |-> [x \in Pointers |-> IF Alive(x) THEN heap[x].next ELSE x]]
           Def(f) == [n \in 0 .. Size |->
                        IF n = 0 THEN sessions
                        ELSE IF Alive(f[n - 1]) THEN heap[f[n - 1]].next ELSE f[n - 1]]
<1>0. Size \in Nat
  BY SizeNat
<1>1. h \in [Nat -> [Pointers -> Pointers]] /\ sessions \in Pointers
  <2>1. ASSUME NEW x \in Pointers PROVE (IF Alive(x) THEN heap[x].next ELSE x) \in Pointers
    BY <2>1 DEF SinkTypeOK, Pointers, Alive
  <2> QED BY <2>1 DEF SinkTypeOK, Pointers
<1>2. PICK f \in [0 .. Size -> Pointers] : f[0] = sessions /\ \A n \in 1 .. Size : f[n] = h[n][f[n - 1]]
  <2> HIDE DEF h
  <2>1. \E f \in [0 .. Size -> Pointers] : f[0] = sessions /\ \A n \in 1 .. Size : f[n] = h[n][f[n - 1]]
    BY <1>0, <1>1, RecursionExists
  <2> QED BY <2>1
<1>3. f = Def(f)
  <2>1. ASSUME NEW n \in 1 .. Size
        PROVE  f[n] = IF Alive(f[n - 1]) THEN heap[f[n - 1]].next ELSE f[n - 1]
    <3>1. n - 1 \in 0 .. Size /\ n \in Nat /\ f[n] = h[n][f[n - 1]]
      <4> HIDE DEF h
      <4> QED BY <1>0, <1>2
    <3>2. f[n - 1] \in Pointers
      BY <1>2, <3>1
    <3> QED BY <3>1, <3>2
  <2>2. \A n \in 0 .. Size : n = 0 \/ n \in 1 .. Size
    BY <1>0
  <2> QED BY <1>2, <2>1, <2>2
<1>4. Walk = Def(Walk)
  <2> HIDE DEF h
  <2> QED BY <1>3 DEF Walk, Size
<1>5. /\ Walk[0] = sessions
      /\ \A n \in 1 .. Size :
           Walk[n] = IF Alive(Walk[n - 1]) THEN heap[Walk[n - 1]].next ELSE Walk[n - 1]
  BY <1>0, <1>4
<1>6. \A n \in 0 .. Size : Walk[n] \in Pointers
  <2> DEFINE T == {n \in Nat : n \in 0 .. Size => Walk[n] \in Pointers}
  <2>1. 0 \in T
    BY <1>1, <1>5
  <2>2. ASSUME NEW n \in Nat, n \in T PROVE n + 1 \in T
    <3> SUFFICES ASSUME n + 1 \in 0 .. Size PROVE Walk[n + 1] \in Pointers
      OBVIOUS
    <3>1. Walk[n] \in Pointers /\ n + 1 \in 1 .. Size /\ (n + 1) - 1 = n
      BY <1>0, <2>2
    <3>2. Walk[n + 1] = IF Alive(Walk[n]) THEN heap[Walk[n]].next ELSE Walk[n]
      BY <1>5, <3>1
    <3> QED BY <3>1, <3>2 DEF SinkTypeOK, Pointers, Alive
  <2>3. Nat \subseteq T
    <3> HIDE DEF T
    <3> QED BY <2>1, <2>2, SetInduction
  <2> QED BY <1>0, <2>3
<1> QED BY <1>4, <1>5, <1>6

\* What FindSession finds: the first session of the walk that has the
\* connection, or where the walk ends.
LEMMA Found ==
  ASSUME SinkTypeOK, NEW slot
  PROVE  /\ FindSession(slot) \in Pointers
         /\ \E n \in 0 .. Size : FindSession(slot) = Walk[n]
         /\ \A n \in 0 .. Size : Alive(Walk[n]) /\ heap[Walk[n]].conn = slot =>
              Alive(FindSession(slot)) /\ heap[FindSession(slot)].conn = slot
         /\ ~(Alive(FindSession(slot)) /\ heap[FindSession(slot)].conn = slot) =>
              FindSession(slot) = WalkEnd
<1> DEFINE found == {n \in DOMAIN Walk : Alive(Walk[n]) /\ heap[Walk[n]].conn = slot}
<1>0. Size \in Nat /\ Walk \in [0 .. Size -> Pointers]
  BY SizeNat, WalkSteps
<1>1. CASE found = {}
  <2>1. FindSession(slot) = Walk[Size] /\ Size \in 0 .. Size /\ WalkEnd = Walk[Size]
    BY <1>0, <1>1 DEF FindSession, WalkEnd, Size
  <2> QED BY <1>0, <1>1, <2>1
<1>2. CASE found # {}
  <2>1. found \subseteq Nat
    BY <1>0
  <2>2. \E n \in found : \A m \in found : n <= m
    BY <1>2, <2>1, LeastMember
  <2>3. PICK n \in found : FindSession(slot) = Walk[n]
    BY <1>2, <2>2 DEF FindSession
  <2> QED BY <1>0, <2>3
<1> QED BY <1>1, <1>2

\* Sessions are sessions of the heap.
LEMMA SessionsInHeap ==
  ASSUME SinkTypeOK
  PROVE  \A s \in Sessions : /\ s \in Addresses /\ heap[s].live
                             /\ \E n \in 0 .. Size : s = Walk[n]
BY WalkSteps DEF Sessions, Alive, Pointers

-----------------------------------------------------------------------------
(* The steps of the sink are webby's, a failed write, or listen_web *)

\* Every step of the sink is a step of webby, a failed write or listen_web.
LEMMA SinkCases ==
  ASSUME [SinkNext]_sinkAll
  PROVE  \/ [Next]_vars
         \/ \E s \in Sessions : WriteFailed(s)
         \/ \E ok \in BOOLEAN : Listen(ok)
<1>1. CASE UNCHANGED sinkAll
  BY <1>1 DEF sinkAll
<1>2. CASE SinkNext
  BY <1>2 DEF SinkNext, Background, Update, Serve, Connected, Framed, Closed, WriteFaults,
              SinkClient, Next, Server
<1> QED BY <1>1, <1>2

\* A failed write marks one record, whoever it belongs to by now.
LEMMA WriteFailedRecords ==
  ASSUME TableInv, SinkTypeOK, NEW s \in Sessions, WriteFailed(s)
  PROVE  SameRecords /\ UNCHANGED <<memory, inbox, passVars, open, backlog, clientVars>>
         /\ table' \in [Slots -> Connections]
<1>1. heap[s].conn \in Slots
  BY SessionsInHeap DEF SinkTypeOK
<1>2. /\ \A i \in 0 .. count - 1 : i \in Slots
      /\ table \in [Slots -> Connections]
  BY SlotsInRange DEF TableInv, TypeOK
<1>3. table' \in [Slots -> Connections]
  BY <1>1, FieldUpdates DEF WriteFailed, TableInv
<1> QED BY <1>1, <1>2, <1>3 DEF WriteFailed, SameRecords

\* A new table and new buffers have their types.
LEMMA FreshType ==
  /\ FreshTable \in [Slots -> Connections]
  /\ FreshMemory \in [Slots \X {"header", "io"} -> [1 .. BufferMax -> Pieces]]
<1>1. ConnectionMax \in Nat \ {0} /\ BufferMax \in Nat /\ << >> \in Seq(Pieces)
  BY WebbyAssumption
<1>2. FreshTable \in [Slots -> Connections]
  BY <1>1 DEF FreshTable, Connections
<1>3. FreshMemory \in [Slots \X {"header", "io"} -> [1 .. BufferMax -> Pieces]]
  BY <1>1 DEF FreshMemory, Pieces
<1> QED BY <1>2, <1>3

\* Every step of the sink keeps the invariant of the table.
LEMMA SinkNextTable ==
  ASSUME TableInv, SinkTypeOK, [SinkNext]_sinkAll
  PROVE  TableInv'
<1>1. CASE [Next]_vars
  BY <1>1, NextTable
<1>2. ASSUME NEW s \in Sessions, WriteFailed(s) PROVE TableInv'
  <2>1. SameRecords /\ UNCHANGED <<memory, inbox, passVars, open, backlog, clientVars>>
        /\ table' \in [Slots -> Connections]
    BY <1>2, WriteFailedRecords
  <2>2. TypeOK'
    BY <2>1 DEF TableInv, TypeOK, SameRecords, passVars, clientVars
  <2>3. SocketsAccounted'
    BY <2>1, SameSocketsAccounted DEF TableInv, SameRecords, SameSockets
  <2>4. PassInv' /\ PeersInv'
    BY <1>2, <2>1 DEF WriteFailed, TableInv, SameRecords, PassInv, PeersInv, InLoop, AtClient,
                      passVars, clientVars
  <2> QED BY <2>2, <2>3, <2>4 DEF TableInv
<1>3. ASSUME NEW ok \in BOOLEAN, Listen(ok) PROVE TableInv'
  <2>1. TypeOK'
    <3>1. peer' \in [Clients -> {"away", "up", "closed", "aborted"}]
      BY <1>3 DEF Listen, TableInv, TypeOK
    <3>2. count' \in 0 .. ConnectionMax
      BY <1>3, WebbyAssumption DEF Listen
    <3> QED BY <1>3, <3>1, <3>2, FreshType DEF Listen, TableInv, TypeOK, passVars
  <2>2. SocketsAccounted' /\ PassInv' /\ PeersInv'
    BY <1>3 DEF Listen, SocketsAccounted, Active, PassInv, PeersInv, InLoop, AtClient, passVars
  <2> QED BY <2>1, <2>2 DEF TableInv
<1> QED BY <1>1, <1>2, <1>3, SinkCases

\* Initially the list has its type.
LEMMA InitSinkType == SinkInit => SinkTypeOK
<1> SUFFICES ASSUME SinkInit PROVE SinkTypeOK
  OBVIOUS
<1>1. 0 \in Slots /\ 0 \in 0 .. MaxListens
  BY WebbyAssumption, SinkAssumption DEF Slots
<1> QED BY <1>1 DEF SinkInit, SinkTypeOK

\* The session is gone, or a pointer of it leads to freed memory.
Stray(s) == ~Alive(s) \/ \E q \in {heap[s].next, heap[s].prev} : q # NULL /\ ~Alive(q)

\* The record at a when the session at s is taken out.
Unlinked(s, a) ==
  IF a = s THEN [heap[a] EXCEPT !.live = FALSE]
  ELSE [heap[a] EXCEPT !.prev = IF a = heap[s].next THEN heap[s].prev ELSE @,
                       !.next = IF a = heap[s].prev THEN heap[s].next ELSE @]

\* The two outcomes of DestroySession.
LEMMA DestroyCases ==
  ASSUME NEW s, DestroySession(s)
  PROVE  \/ /\ Stray(s) /\ fault' = (IF s = NULL THEN "null" ELSE "dangling")
            /\ UNCHANGED <<sessions, heap>>
         \/ /\ ~Stray(s) /\ UNCHANGED fault
            /\ heap' = [a \in Addresses |-> Unlinked(s, a)]
            /\ sessions' = IF sessions = s THEN heap[s].next ELSE sessions
BY Zenon DEF DestroySession, Stray, Unlinked

\* DestroySession keeps the type of the list.
LEMMA DestroyType ==
  ASSUME SinkTypeOK, NEW s \in Pointers, DestroySession(s)
  PROVE  /\ sessions' \in Pointers
         /\ heap' \in [Addresses -> [live : BOOLEAN, next : Addresses \cup {NULL},
                             prev : Addresses \cup {NULL}, conn : Slots,
                             client : Clients \cup {NoSocket}]]
         /\ fault' \in {"none", "null", "dangling", "endless"}
<1> DEFINE H == [live : BOOLEAN, next : Addresses \cup {NULL}, prev : Addresses \cup {NULL},
                 conn : Slots, client : Clients \cup {NoSocket}]
           next == heap[s].next
           prev == heap[s].prev
<1>0. heap \in [Addresses -> H] /\ sessions \in Pointers /\ fault \in {"none", "null", "dangling", "endless"}
  BY DEF SinkTypeOK, Pointers
<1>1. CASE Stray(s)
  BY <1>0, <1>1, DestroyCases
<1>2. CASE ~Stray(s)
  <2>1. s \in Addresses /\ next \in Pointers /\ prev \in Pointers
    BY <1>0, <1>2 DEF Stray, Alive, Pointers
  <2>2. /\ heap' = [a \in Addresses |-> Unlinked(s, a)]
        /\ sessions' = (IF sessions = s THEN next ELSE sessions) /\ UNCHANGED fault
    BY <1>2, DestroyCases
  <2> HIDE DEF next, prev
  <2>3. ASSUME NEW a \in Addresses PROVE Unlinked(s, a) \in H
    <3> DEFINE p == IF a = next THEN prev ELSE heap[a].prev
               n == IF a = prev THEN next ELSE heap[a].next
    <3>1. p \in Addresses \cup {NULL} /\ n \in Addresses \cup {NULL}
      BY <1>0, <2>1 DEF Pointers
    <3> HIDE DEF p, n
    <3>2. [heap[a] EXCEPT !.live = FALSE] \in H
      BY <1>0
    <3>3. [heap[a] EXCEPT !.prev = p, !.next = n] \in H
      BY <1>0, <3>1
    <3> QED BY <3>2, <3>3 DEF p, n, next, prev, Unlinked
  <2> HIDE DEF H
  <2>4. heap' \in [Addresses -> H]
    BY <2>2, <2>3
  <2>5. sessions' \in Pointers /\ fault' \in {"none", "null", "dangling", "endless"}
    BY <1>0, <2>1, <2>2
  <2> QED BY <2>4, <2>5 DEF H
<1> QED BY <1>1, <1>2

\* Every step of the sink keeps the type of the list.
LEMMA NextSinkType ==
  ASSUME TableInv, SinkTypeOK, [SinkNext]_sinkAll
  PROVE  SinkTypeOK'
<1> DEFINE H == [live : BOOLEAN, next : Addresses \cup {NULL}, prev : Addresses \cup {NULL},
                 conn : Slots, client : Clients \cup {NoSocket}]
<1>0. /\ heap \in [Addresses -> H] /\ sessions \in Pointers
      /\ fault \in {"none", "null", "dangling", "endless"} /\ server \in BOOLEAN
      /\ mishaps \subseteq {"moved", "unlinked", "refused"} /\ listens \in 0 .. MaxListens
  BY DEF SinkTypeOK, Pointers
<1>a. SUFFICES /\ heap' \in [Addresses -> H] /\ sessions' \in Pointers
               /\ fault' \in {"none", "null", "dangling", "endless"} /\ server' \in BOOLEAN
               /\ mishaps' \subseteq {"moved", "unlinked", "refused"} /\ listens' \in 0 .. MaxListens
  BY DEF SinkTypeOK, Pointers
<1>1. CASE UNCHANGED sinkVars
  BY <1>0, <1>1 DEF sinkVars
<1>2. CASE Connected
  <2>1. idx \in Slots /\ conn.sock \in Clients
    BY <1>2, ConnInRange DEF Connected, RespondUpgrade, AtClient
  <2>2. ASSUME NEW s \in Addresses, CreateSession(s) PROVE heap' \in [Addresses -> H]
    <3> DEFINE r == [live |-> TRUE, next |-> sessions, prev |-> NULL, conn |-> idx, client |-> conn.sock]
    <3>1. r \in H
      BY <1>0, <2>1 DEF Pointers
    <3>2. heap' = [heap EXCEPT ![s] = r]
      BY <2>2 DEF CreateSession
    <3> HIDE DEF r, H
    <3> QED BY <1>0, <3>1, <3>2
  <2>3. ASSUME NEW what \in Failing, NoSession(what)
        PROVE  heap' \in [Addresses -> H] /\ fault' \in {"none", "null", "dangling", "endless"}
    <3>1. CASE heap' = [heap EXCEPT ![sessions].prev = NULL] /\ UNCHANGED fault
      BY <1>0, <3>1 DEF Pointers
    <3>2. CASE UNCHANGED heap /\ fault' \in {fault, "dangling"}
      BY <1>0, <3>2
    <3> QED BY <2>3, <3>1, <3>2 DEF NoSession
  <2> HIDE DEF H
  <2>4. ASSUME NEW s \in Addresses, CreateSession(s)
        PROVE  sessions' \in Pointers /\ UNCHANGED <<server, fault, mishaps, listens>>
    BY <2>4 DEF CreateSession, Pointers
  <2>5. ASSUME NEW what \in Failing, NoSession(what)
        PROVE  /\ UNCHANGED <<server, sessions, listens>>
               /\ mishaps' \subseteq {"moved", "unlinked", "refused"}
    BY <1>0, <2>5 DEF NoSession
  <2> QED BY <1>0, <1>2, <2>2, <2>3, <2>4, <2>5 DEF Connected
<1>3. CASE Framed \/ WriteFaults
  BY <1>0, <1>3 DEF Framed, WriteFaults, WalkFault
<1>4. CASE Closed
  <2>1. /\ sessions' \in Pointers /\ heap' \in [Addresses -> H]
        /\ fault' \in {"none", "null", "dangling", "endless"}
    BY <1>0, <1>4, Found, DestroyType DEF Closed
  <2>2. mishaps' \subseteq {"moved", "unlinked", "refused"} /\ UNCHANGED <<server, listens>>
    BY <1>0, <1>4 DEF Closed
  <2> QED BY <1>0, <2>1, <2>2
<1>5. ASSUME NEW s \in Sessions, WriteFailed(s) PROVE UNCHANGED sinkVars
  BY <1>5 DEF WriteFailed
<1>6. ASSUME NEW ok \in BOOLEAN, Listen(ok)
      PROVE  /\ heap' \in [Addresses -> H] /\ sessions' \in Pointers
             /\ fault' \in {"none", "null", "dangling", "endless"} /\ server' \in BOOLEAN
             /\ mishaps' = mishaps /\ listens' \in 0 .. MaxListens
  <2>1. listens' \in 0 .. MaxListens /\ server' \in BOOLEAN /\ mishaps' = mishaps
    BY <1>0, <1>6, SinkAssumption DEF Listen
  <2>2. CASE WalkEnd = NULL
    <3>1. heap' = [a \in Addresses |-> [heap[a] EXCEPT !.live = @ /\ a \notin Sessions]]
          /\ sessions' = NULL /\ UNCHANGED fault
      BY <1>6, <2>2 DEF Listen
    <3>2. ASSUME NEW a \in Addresses PROVE [heap[a] EXCEPT !.live = @ /\ a \notin Sessions] \in H
      <4> DEFINE b == heap[a].live /\ a \notin Sessions
      <4>1. b \in BOOLEAN
        OBVIOUS
      <4> HIDE DEF b
      <4>2. [heap[a] EXCEPT !.live = b] \in H
        BY <1>0, <4>1
      <4> QED BY <4>2 DEF b
    <3> HIDE DEF H
    <3> QED BY <1>0, <2>1, <3>1, <3>2 DEF Pointers
  <2>3. CASE WalkEnd # NULL
    BY <1>0, <1>6, <2>1, <2>3 DEF Listen
  <2> QED BY <2>2, <2>3
<1> HIDE DEF H
<1>7. CASE SinkNext
  BY <1>0, <1>1, <1>2, <1>3, <1>4, <1>5, <1>6, <1>7
     DEF SinkNext, Background, Update, Serve, SinkClient
<1>8. CASE UNCHANGED sinkAll
  BY <1>1, <1>8 DEF sinkAll
<1> QED BY <1>7, <1>8

\* Type correctness of webby's table and of the sink's list, and the sockets
\* in the table: for every number of connections, clients and addresses.
THEOREM Soundness == SinkSpec => []TablesSound
<1>1. SinkInit => TableInv /\ SinkTypeOK
  BY InitTable, InitSinkType DEF SinkInit
<1>2. TableInv /\ SinkTypeOK /\ [SinkNext]_sinkAll => (TableInv /\ SinkTypeOK)'
  BY SinkNextTable, NextSinkType
<1>3. TableInv /\ SinkTypeOK => TablesSound
  BY DEF TableInv, TablesSound
<1> QED BY <1>1, <1>2, <1>3, PTL DEF SinkSpec

-----------------------------------------------------------------------------
(* Who owns which buffers *)

\* No two records have the same buffers, the ones without a connection
\* included.
BuffersInv == \A i, j \in Slots : table[i].data = table[j].data => i = j

\* Only the last connection of the table is closed.
LastOnly == CloseStale => idx = count - 1

\* Connections of different slots then have different buffers.
LEMMA OwnBuffersFollow ==
  ASSUME TypeOK, BuffersInv
  PROVE  OwnBuffers
BY SlotsInRange DEF OwnBuffers, BuffersInv

\* Only memmove makes two records share their buffers.
LEMMA NextBuffers ==
  ASSUME TableInv, BuffersInv, [Next]_vars, [LastOnly]_vars
  PROVE  BuffersInv'
<1>0. table \in [Slots -> Connections] /\ count \in Nat /\ TypeOK
  BY DEF TableInv, TypeOK
<1>1. SUFFICES SameData
  BY <1>1 DEF SameData, BuffersInv
<1>2. CASE ~CloseStale /\ \A c \in Clients : ~Accept(c) /\ ~Connect(c)
  BY <1>2, OtherStepsSameSockets
<1>3. ASSUME NEW c \in Clients, Connect(c) PROVE SameData
  BY <1>3 DEF Connect, tableVars, SameData
<1>4. ASSUME NEW c \in Clients, Accept(c) PROVE SameData
  <2> DEFINE r == [ResetConnection(table[count]) EXCEPT !.sock = c, !.alive = TRUE, !.fresh = TRUE,
                                                        !.ws = FALSE]
  <2>1. count \in Slots /\ table[count] \in Connections
    BY <1>0, <1>4, WebbyAssumption DEF Accept, TypeOK, Slots
  <2>2. r.data = table[count].data
    BY <2>1 DEF ResetConnection, Connections
  <2>3. table' = [table EXCEPT ![count] = r]
    BY <1>4 DEF Accept
  <2> HIDE DEF r
  <2> QED BY <1>0, <2>1, <2>2, <2>3 DEF SameData
<1>5. CASE CloseStale
  <2>1. idx = count - 1 \/ UNCHANGED vars
    BY <1>5 DEF LastOnly
  <2>2. CASE UNCHANGED vars
    BY <2>2 DEF vars, tableVars, SameData
  <2>3. CASE idx = count - 1
    <3>0. idx \in 0 .. count - 1 /\ idx \in Slots
      BY <1>0, <1>5, CloseStaleRecords, SlotsInRange
    <3>1. idx .. count - 2 = {} /\ idx \in Slots
      BY <1>0, <2>3, <3>0
    <3>2. table' = Compacted(idx) /\ table[idx] \in Connections
      BY <1>0, <1>5, <3>1 DEF CloseStale
    <3>3. ASSUME NEW j \in Slots PROVE table'[j].data = table[j].data
      <4>1. j \notin idx .. count - 2
        BY <3>1
      <4>2. table'[j] = IF j = idx THEN [table[idx] EXCEPT
                                   !.sock = NoSocket, !.alive = FALSE, !.fresh = FALSE,
                                   !.ws = FALSE] ELSE table[j]
        BY <3>2, <4>1 DEF Compacted
      <4> QED BY <3>2, <4>2 DEF Connections
    <3> QED BY <3>3 DEF SameData
  <2> QED BY <2>1, <2>2, <2>3
<1> QED BY <1>2, <1>3, <1>4, <1>5

\* While viewers leave last in, first out, memmove moves nothing and no two
\* connections ever share their buffers: each is served for what its own
\* client sent and nothing else.
THEOREM MessagesUnlessMoved == Spec /\ [][LastOnly]_vars => []MessageIntact
<1>1. Init => TableInv /\ MessageInv /\ BuffersInv
  <2>1. Init => BuffersInv
    BY DEF Init, FreshTable, BuffersInv
  <2> QED BY <2>1, InitTable, InitMessage
<1>2. TableInv /\ MessageInv /\ BuffersInv /\ [Next]_vars /\ [LastOnly]_vars
        => (TableInv /\ MessageInv /\ BuffersInv)'
  <2> SUFFICES ASSUME TableInv, MessageInv, BuffersInv, [Next]_vars, [LastOnly]_vars
               PROVE  TableInv' /\ InboxOwn' /\ (\A i \in 0 .. count' - 1 : Collected(i)')
                      /\ MessageIntact' /\ BuffersInv'
    BY DEF MessageInv
  <2>1. OwnBuffers
    BY OwnBuffersFollow DEF TableInv
  <2> QED BY <2>1, NextTable, NextInbox, NextCollected, NextIntact, NextBuffers DEF MessageInv
<1>3. MessageInv => MessageIntact
  BY DEF MessageInv
<1> QED BY <1>1, <1>2, <1>3, PTL DEF Spec

\* The steps of the sink keep what the messages need.
LEMMA SinkNextMessage ==
  ASSUME TableInv, SinkTypeOK, OwnBuffers, MessageInv, [SinkNext]_sinkAll
  PROVE  MessageInv'
<1>1. CASE [Next]_vars
  <2>1. InboxOwn' /\ (\A i \in 0 .. count' - 1 : Collected(i)') /\ MessageIntact'
    BY <1>1, NextInbox, NextCollected, NextIntact DEF MessageInv
  <2> QED BY <2>1 DEF MessageInv
<1>2. ASSUME NEW s \in Sessions, WriteFailed(s) PROVE MessageInv'
  <2>a. SameRecords /\ UNCHANGED <<memory, inbox, passVars>>
    BY <1>2, WriteFailedRecords
  <2>b. count \in Nat /\ pc = "idle"
    BY <1>2 DEF WriteFailed, TableInv, TypeOK
  <2>1. SameRecords /\ UNCHANGED <<memory, inbox, passVars>> /\ pc = "idle" /\ count \in Nat
    BY <2>a, <2>b
  <2>2. InboxOwn'
    BY <2>1 DEF MessageInv, InboxOwn
  <2>3. \A i \in 0 .. count' - 1 : Collected(i)'
    BY <2>1 DEF MessageInv, SameRecords, Collected, FromOwn
  <2>4. MessageIntact'
    <3>1. SUFFICES ASSUME NEW i \in 0 .. count - 1, Using(i)'
                   PROVE  \A k \in DOMAIN table'[i].message :
                            table'[i].message[k].from = table'[i].sock
      BY <2>1 DEF MessageIntact, SameRecords
    <3>2. Using(i)
      BY <2>1, <3>1 DEF Using, SameRecords, passVars
    <3> QED BY <2>1, <3>2 DEF MessageInv, MessageIntact, SameRecords
  <2> QED BY <2>2, <2>3, <2>4 DEF MessageInv
<1>3. ASSUME NEW ok \in BOOLEAN, Listen(ok) PROVE MessageInv'
  BY <1>3 DEF Listen, MessageInv, InboxOwn, MessageIntact
<1> QED BY <1>1, <1>2, <1>3, SinkCases

\* And so do they with the buffers: a failed write leaves them where they are,
\* and listen_web gives every record its own.
LEMMA SinkNextBuffers ==
  ASSUME TableInv, SinkTypeOK, BuffersInv, [SinkNext]_sinkAll, [LastOnly]_vars
  PROVE  BuffersInv'
<1>1. CASE [Next]_vars
  BY <1>1, NextBuffers
<1>2. ASSUME NEW s \in Sessions, WriteFailed(s) PROVE BuffersInv'
  <2>1. heap[s].conn \in Slots /\ table \in [Slots -> Connections]
    BY SessionsInHeap DEF SinkTypeOK, TableInv, TypeOK
  <2>2. \A i \in Slots : table'[i].data = table[i].data
    BY <1>2, <2>1 DEF WriteFailed, Connections
  <2> QED BY <2>2 DEF BuffersInv
<1>3. ASSUME NEW ok \in BOOLEAN, Listen(ok) PROVE BuffersInv'
  BY <1>3 DEF Listen, FreshTable, BuffersInv
<1> QED BY <1>1, <1>2, <1>3, SinkCases

\* The same with the sink's callbacks, failed writes and listen_web.
THEOREM SinkMessagesUnlessMoved == SinkSpec /\ [][LastOnly]_vars => []MessageIntact
<1> DEFINE Inv == TableInv /\ SinkTypeOK /\ MessageInv /\ BuffersInv
<1>1. SinkInit => Inv
  <2>1. Init => BuffersInv
    BY DEF Init, FreshTable, BuffersInv
  <2> QED BY <2>1, InitTable, InitSinkType, InitMessage DEF SinkInit
<1>2. Inv /\ [SinkNext]_sinkAll /\ [LastOnly]_vars => Inv'
  <2> SUFFICES ASSUME Inv, [SinkNext]_sinkAll, [LastOnly]_vars PROVE Inv'
    OBVIOUS
  <2>1. OwnBuffers
    BY OwnBuffersFollow DEF TableInv
  <2> QED BY <2>1, SinkNextTable, NextSinkType, SinkNextMessage, SinkNextBuffers
<1>3. Inv => MessageIntact
  BY DEF MessageInv
<1> QED BY <1>1, <1>2, <1>3, PTL DEF SinkSpec

-----------------------------------------------------------------------------
(* The list: a stack while the newest session goes first *)

\* The sessions in memory; none has one before it in the list.
Live     == {a \in Addresses : heap[a].live}
PrevNull == \A a \in Addresses : heap[a].prev = NULL

\* L is the list, the oldest session first and the newest at _sessions.
IsStack(n, L) ==
  /\ \A i, j \in 1 .. n : L[i] = L[j] => i = j
  /\ Live = {L[i] : i \in 1 .. n}
  /\ sessions = IF n = 0 THEN NULL ELSE L[n]
  /\ \A i \in 1 .. n : heap[L[i]].next = IF i = 1 THEN NULL ELSE L[i - 1]
\* The sessions are a stack.
Stack == \E n \in Nat : \E L \in [1 .. n -> Addresses] : IsStack(n, L)

\* From _sessions no way leads to a null pointer.
IsTrap(C) == sessions \in C /\ \A a \in C : heap[a].live => heap[a].next \in C
\* The list is a trap.
Trap == \E C \in SUBSET Addresses : IsTrap(C)

\* The sessions are those of webby's websockets, one for each.
Match ==
  /\ \A a \in Live : /\ heap[a].conn < count /\ table[heap[a].conn].ws
                     /\ table[heap[a].conn].sock = heap[a].client
  /\ \A i \in 0 .. count - 1 : table[i].ws => \E a \in Live : heap[a].conn = i
  /\ \A a, b \in Live : heap[a].conn = heap[b].conn => a = b

\* A walk over a stack goes from the newest session to the oldest and ends
\* at the null pointer; it meets every session there is.
LEMMA StackWalk ==
  ASSUME SinkTypeOK, Stack
  PROVE  /\ WalkEnd = NULL /\ Sessions = Live
         /\ \A a \in Live : \E k \in 0 .. Size : Walk[k] = a
         /\ sessions = NULL <=> Live = {}
         /\ \A a \in Live : heap[a].next = NULL \/ heap[a].next \in Live
         /\ sessions = NULL \/ sessions \in Live
<1>1. PICK n \in Nat : \E L \in [1 .. n -> Addresses] : IsStack(n, L)
  BY DEF Stack
<1>2. PICK L \in [1 .. n -> Addresses] : IsStack(n, L)
  BY <1>1
<1>3. /\ \A i, j \in 1 .. n : L[i] = L[j] => i = j
      /\ Live = {L[i] : i \in 1 .. n}
      /\ sessions = IF n = 0 THEN NULL ELSE L[n]
      /\ \A i \in 1 .. n : heap[L[i]].next = IF i = 1 THEN NULL ELSE L[i - 1]
  BY <1>2 DEF IsStack
<1>4. \A i \in 1 .. n : L[i] \in Addresses /\ heap[L[i]].live /\ Alive(L[i])
  BY <1>3, SinkAssumption DEF Live, Alive
<1>5. n <= Size /\ Size \in Nat
  <2>1. L \in Injection(1 .. n, Addresses)
    BY <1>3 DEF Injection, IsInjective
  <2>2. Cardinality(1 .. n) <= Size
    BY <2>1, FS_Injection, SinkAssumption DEF Size
  <2>3. Cardinality(1 .. n) = n
    BY FS_Interval
  <2> QED BY <2>2, <2>3, SizeNat
<1>6. \A k \in 0 .. Size : Walk[k] = IF k < n THEN L[n - k] ELSE NULL
  <2> DEFINE At(k) == IF k < n THEN L[n - k] ELSE NULL
             T == {k \in Nat : k \in 0 .. Size => Walk[k] = At(k)}
  <2>1. 0 \in T
    <3>1. Walk[0] = sessions
      BY WalkSteps
    <3> QED BY <1>3, <3>1
  <2>2. ASSUME NEW k \in Nat, k \in T PROVE k + 1 \in T
    <3> SUFFICES ASSUME k + 1 \in 0 .. Size PROVE Walk[k + 1] = At(k + 1)
      OBVIOUS
    <3>1. k \in 0 .. Size /\ k + 1 \in 1 .. Size /\ (k + 1) - 1 = k
      BY <1>5
    <3>2. Walk[k + 1] = IF Alive(Walk[k]) THEN heap[Walk[k]].next ELSE Walk[k]
      BY <3>1, WalkSteps
    <3>3. Walk[k] = At(k)
      BY <2>2, <3>1
    <3>4. CASE k < n
      <4>1. n - k \in 1 .. n /\ (n - k) - 1 = n - (k + 1) /\ (n - k = 1 <=> ~(k + 1 < n))
        BY <3>4
      <4>2. Walk[k] = L[n - k]
        BY <3>3, <3>4
      <4>3. Walk[k + 1] = IF n - k = 1 THEN NULL ELSE L[(n - k) - 1]
        BY <1>3, <1>4, <3>2, <4>1, <4>2
      <4> QED BY <4>1, <4>3
    <3>5. CASE ~(k < n)
      <4>1. ~(k + 1 < n)
        BY <3>5
      <4>2. Walk[k] = NULL /\ ~Alive(NULL)
        BY <3>3, <3>5 DEF Alive
      <4> QED BY <3>2, <4>1, <4>2
    <3> QED BY <3>4, <3>5
  <2>3. Nat \subseteq T
    <3> HIDE DEF T
    <3> QED BY <2>1, <2>2, SetInduction
  <2> QED BY <1>5, <2>3
<1>7. WalkEnd = NULL
  BY <1>5, <1>6 DEF WalkEnd, Size
<1>8. \A i \in 1 .. n : \E k \in 0 .. Size : Walk[k] = L[i]
  <2> TAKE i \in 1 .. n
  <2>1. n - i \in 0 .. Size /\ n - i < n /\ n - (n - i) = i
    BY <1>5
  <2>2. Walk[n - i] = L[i]
    BY <1>6, <2>1
  <2> QED BY <2>1, <2>2
<1>9. DOMAIN Walk = 0 .. Size
  BY WalkSteps
<1>10. Sessions = Live
  <2>1. ASSUME NEW a \in Live PROVE a \in Sessions
    <3>1. PICK i \in 1 .. n : a = L[i]
      BY <1>3
    <3> QED BY <1>4, <1>8, <1>9, <3>1 DEF Sessions
  <2>2. ASSUME NEW a \in Sessions PROVE a \in Live
    BY <2>2, SessionsInHeap DEF Live
  <2> QED BY <2>1, <2>2
<1>11. \A i \in 1 .. n : i = 1 \/ i - 1 \in 1 .. n
  OBVIOUS
<1>12. \A a \in Live : heap[a].next = NULL \/ heap[a].next \in Live
  <2> TAKE a \in Live
  <2>1. PICK i \in 1 .. n : a = L[i]
    BY <1>3
  <2>2. heap[a].next = IF i = 1 THEN NULL ELSE L[i - 1]
    BY <1>3, <2>1
  <2> QED BY <1>3, <1>11, <2>2
<1>13. (sessions = NULL <=> Live = {}) /\ (sessions = NULL \/ sessions \in Live)
  <2>1. CASE n = 0
    BY <1>3, <2>1
  <2>2. CASE n # 0
    <3>1. n \in 1 .. n
      BY <2>2
    <3>2. sessions \in Live /\ sessions # NULL
      BY <1>3, <1>4, <2>2, <3>1, SinkAssumption
    <3> QED BY <3>2
  <2> QED BY <2>1, <2>2
<1>14. \A a \in Live : \E k \in 0 .. Size : Walk[k] = a
  <2> TAKE a \in Live
  <2>1. PICK i \in 1 .. n : a = L[i]
    BY <1>3
  <2> QED BY <1>8, <2>1
<1> QED BY <1>7, <1>10, <1>12, <1>13, <1>14

\* A walk in a trap never meets the null pointer.
LEMMA TrapWalk ==
  ASSUME SinkTypeOK, Trap
  PROVE  \A k \in 0 .. Size : Walk[k] # NULL
<1>1. PICK C \in SUBSET Addresses : IsTrap(C)
  BY DEF Trap
<1> DEFINE T == {k \in Nat : k \in 0 .. Size => Walk[k] \in C}
<1>2. 0 \in T
  <2>1. Walk[0] = sessions
    BY WalkSteps
  <2> QED BY <1>1, <2>1 DEF IsTrap
<1>3. ASSUME NEW k \in Nat, k \in T PROVE k + 1 \in T
  <2> SUFFICES ASSUME k + 1 \in 0 .. Size PROVE Walk[k + 1] \in C
    OBVIOUS
  <2>1. k \in 0 .. Size /\ k + 1 \in 1 .. Size /\ (k + 1) - 1 = k
    BY SizeNat
  <2>2. Walk[k + 1] = IF Alive(Walk[k]) THEN heap[Walk[k]].next ELSE Walk[k]
    BY <2>1, WalkSteps
  <2>3. Walk[k] \in C
    BY <1>3, <2>1
  <2> QED BY <1>1, <2>2, <2>3 DEF IsTrap, Alive
<1>4. Nat \subseteq T
  <2> HIDE DEF T
  <2> QED BY <1>2, <1>3, SetInduction
<1> QED BY <1>4, SizeNat, SinkAssumption

-----------------------------------------------------------------------------
(* What the steps do to the list *)

\* Without sessions before it in the list, a session that is destroyed takes
\* no other's pointers along.
LEMMA DestroyEffect ==
  ASSUME SinkTypeOK, PrevNull, NEW s \in Pointers, DestroySession(s), ~Stray(s)
  PROVE  /\ s \in Live /\ heap' = [heap EXCEPT ![s].live = FALSE] /\ UNCHANGED fault
         /\ sessions' = IF sessions = s THEN heap[s].next ELSE sessions
<1>1. s \in Live /\ s \in Addresses
  BY DEF Stray, Alive, Pointers, Live
<1>2. /\ UNCHANGED fault /\ heap' = [a \in Addresses |-> Unlinked(s, a)]
      /\ sessions' = IF sessions = s THEN heap[s].next ELSE sessions
  BY DestroyCases
<1>3. ASSUME NEW a \in Addresses, a # s PROVE Unlinked(s, a) = heap[a]
  <2> DEFINE p == IF a = heap[s].next THEN heap[s].prev ELSE heap[a].prev
             n == IF a = heap[s].prev THEN heap[s].next ELSE heap[a].next
  <2>1. p = heap[a].prev /\ n = heap[a].next
    BY <1>1, SinkAssumption DEF PrevNull
  <2>2. Unlinked(s, a) = [heap[a] EXCEPT !.prev = p, !.next = n]
    BY <1>3 DEF Unlinked
  <2> HIDE DEF p, n
  <2> QED BY <2>1, <2>2 DEF SinkTypeOK
<1>4. Unlinked(s, s) = [heap[s] EXCEPT !.live = FALSE]
  BY DEF Unlinked
<1>5. heap \in [Addresses -> [live : BOOLEAN, next : Addresses \cup {NULL},
                             prev : Addresses \cup {NULL}, conn : Slots,
                             client : Clients \cup {NoSocket}]]
  BY DEF SinkTypeOK
<1>6. heap' = [heap EXCEPT ![s].live = FALSE]
  BY <1>1, <1>2, <1>3, <1>4, <1>5
<1> QED BY <1>1, <1>2, <1>6

\* Failing to create a session changes nothing in the list.
LEMMA NoSessionEffect ==
  ASSUME SinkTypeOK, PrevNull, NEW what \in Failing, NoSession(what)
  PROVE  /\ UNCHANGED <<heap, sessions>> /\ mishaps' = mishaps \cup {"refused"}
         /\ fault' = fault \/ (sessions # NULL /\ ~heap[sessions].live)
<1>1. UNCHANGED sessions /\ mishaps' = mishaps \cup {"refused"}
  BY DEF NoSession
<1>2. CASE heap' = [heap EXCEPT ![sessions].prev = NULL] /\ UNCHANGED fault
  <2>1. CASE sessions = NULL
    BY <1>1, <1>2, <2>1, SinkAssumption DEF SinkTypeOK
  <2>2. CASE sessions # NULL
    <3>1. sessions \in Addresses
      BY <2>2 DEF SinkTypeOK
    <3>2. [heap[sessions] EXCEPT !.prev = NULL] = heap[sessions]
      BY <3>1 DEF PrevNull, SinkTypeOK
    <3> QED BY <1>1, <1>2, <3>1, <3>2 DEF SinkTypeOK
  <2> QED BY <2>1, <2>2
<1>3. CASE fault' = "dangling" /\ UNCHANGED heap /\ sessions # NULL /\ ~heap[sessions].live
  BY <1>1, <1>3
<1>4. CASE UNCHANGED <<heap, fault>>
  BY <1>1, <1>4
<1> QED BY <1>2, <1>3, <1>4 DEF NoSession

\* CreateSession pushes.
LEMMA StackCreate ==
  ASSUME SinkTypeOK, Stack, NEW s \in Addresses, CreateSession(s)
  PROVE  Stack'
<1>1. PICK n \in Nat : \E L \in [1 .. n -> Addresses] : IsStack(n, L)
  BY DEF Stack
<1>2. PICK L \in [1 .. n -> Addresses] : IsStack(n, L)
  BY <1>1
<1>3. /\ \A i, j \in 1 .. n : L[i] = L[j] => i = j
      /\ Live = {L[i] : i \in 1 .. n}
      /\ sessions = IF n = 0 THEN NULL ELSE L[n]
      /\ \A i \in 1 .. n : heap[L[i]].next = IF i = 1 THEN NULL ELSE L[i - 1]
  BY <1>2 DEF IsStack
<1> DEFINE r == [live |-> TRUE, next |-> sessions, prev |-> NULL, conn |-> idx, client |-> conn.sock]
           M == [i \in 1 .. n + 1 |-> IF i = n + 1 THEN s ELSE L[i]]
<1>4. heap' = [heap EXCEPT ![s] = r] /\ sessions' = s /\ s \notin Live /\ r.live /\ r.next = sessions
  BY DEF CreateSession, Live
<1>5. /\ \A i \in 1 .. n : M[i] = L[i] /\ M[i] # s /\ i # n + 1 /\ i \in 1 .. n + 1
      /\ M[n + 1] = s /\ n + 1 \in 1 .. n + 1
      /\ \A i \in 1 .. n + 1 : i = n + 1 \/ i \in 1 .. n
      /\ M \in [1 .. n + 1 -> Addresses]
  BY <1>3, <1>4
<1> HIDE DEF r, M
<1>6. \A a \in Addresses : heap'[a] = IF a = s THEN r ELSE heap[a]
  BY <1>4 DEF SinkTypeOK
<1>7. Live' = Live \cup {s}
  BY <1>4, <1>6 DEF Live
<1>8. \A i, j \in 1 .. n + 1 : M[i] = M[j] => i = j
  BY <1>3, <1>5
<1>9. Live' = {M[i] : i \in 1 .. n + 1}
  BY <1>3, <1>5, <1>7
<1>10. \A i \in 1 .. n + 1 : heap'[M[i]].next = IF i = 1 THEN NULL ELSE M[i - 1]
  <2> TAKE i \in 1 .. n + 1
  <2>1. CASE i = n + 1
    <3>1. heap'[M[i]].next = sessions
      BY <1>4, <1>5, <1>6, <2>1
    <3>2. CASE n = 0
      BY <1>3, <2>1, <3>1, <3>2
    <3>3. CASE n # 0
      <4>1. n \in 1 .. n /\ i # 1 /\ i - 1 = n
        BY <2>1, <3>3
      <4> QED BY <1>3, <1>5, <3>1, <3>3, <4>1
    <3> QED BY <3>2, <3>3
  <2>2. CASE i # n + 1
    <3>1. i \in 1 .. n /\ (i = 1 \/ i - 1 \in 1 .. n)
      BY <2>2
    <3>2. heap'[M[i]] = heap[L[i]]
      BY <1>5, <1>6, <3>1
    <3> QED BY <1>3, <1>5, <3>1, <3>2
  <2> QED BY <2>1, <2>2
<1>11. n + 1 # 0 /\ n + 1 \in Nat
  OBVIOUS
<1>12. IsStack(n + 1, M)'
  BY <1>4, <1>5, <1>8, <1>9, <1>10, <1>11 DEF IsStack
<1> QED BY <1>5, <1>11, <1>12 DEF Stack

\* Destroying the newest session pops.
LEMMA StackPop ==
  ASSUME SinkTypeOK, Stack, sessions # NULL,
         heap' = [heap EXCEPT ![sessions].live = FALSE], sessions' = heap[sessions].next
  PROVE  Stack'
<1>1. PICK n \in Nat : \E L \in [1 .. n -> Addresses] : IsStack(n, L)
  BY DEF Stack
<1>2. PICK L \in [1 .. n -> Addresses] : IsStack(n, L)
  BY <1>1
<1>3. /\ \A i, j \in 1 .. n : L[i] = L[j] => i = j
      /\ Live = {L[i] : i \in 1 .. n}
      /\ sessions = IF n = 0 THEN NULL ELSE L[n]
      /\ \A i \in 1 .. n : heap[L[i]].next = IF i = 1 THEN NULL ELSE L[i - 1]
  BY <1>2 DEF IsStack
<1>4. n # 0 /\ n \in 1 .. n /\ n - 1 \in Nat /\ sessions = L[n] /\ L[n] \in Addresses
  BY <1>3
<1>5. /\ \A i \in 1 .. n - 1 : i \in 1 .. n /\ i # n /\ (i = 1 \/ i - 1 \in 1 .. n - 1)
      /\ \A i \in 1 .. n : i = n \/ i \in 1 .. n - 1
      /\ (n = 1 <=> n - 1 = 0) /\ (n - 1 # 0 => n - 1 \in 1 .. n - 1)
  BY <1>4
<1> DEFINE M == [i \in 1 .. n - 1 |-> L[i]]
<1>6. M \in [1 .. n - 1 -> Addresses] /\ \A i \in 1 .. n - 1 : M[i] = L[i] /\ L[i] # L[n]
  BY <1>3, <1>4, <1>5
<1> HIDE DEF M
<1>7. \A a \in Addresses : /\ heap'[a].next = heap[a].next
                           /\ heap'[a].live = (heap[a].live /\ a # L[n])
  BY <1>4 DEF SinkTypeOK
<1>8. Live' = Live \ {L[n]}
  BY <1>7 DEF Live
<1>9. Live' = {M[i] : i \in 1 .. n - 1}
  BY <1>3, <1>5, <1>6, <1>8
<1>10. \A i, j \in 1 .. n - 1 : M[i] = M[j] => i = j
  BY <1>3, <1>5, <1>6
<1>11. \A i \in 1 .. n - 1 : heap'[M[i]].next = IF i = 1 THEN NULL ELSE M[i - 1]
  BY <1>3, <1>5, <1>6, <1>7
<1>12. sessions' = IF n - 1 = 0 THEN NULL ELSE M[n - 1]
  BY <1>3, <1>4, <1>5, <1>6
<1>13. IsStack(n - 1, M)'
  BY <1>9, <1>10, <1>11, <1>12 DEF IsStack
<1> QED BY <1>4, <1>6, <1>13 DEF Stack

\* No sessions and a null pointer are a stack, before a step and after it.
LEMMA StackEmpty ==
  /\ Live = {} /\ sessions = NULL => Stack
  /\ (Live = {} /\ sessions = NULL => Stack)'
<1> DEFINE L == [i \in 1 .. 0 |-> NULL]
<1>1. L \in [1 .. 0 -> Addresses]
  OBVIOUS
<1>2. Live = {} /\ sessions = NULL => IsStack(0, L)
  BY DEF IsStack
<1>3. Live' = {} /\ sessions' = NULL => IsStack(0, L)'
  BY DEF IsStack
<1> HIDE DEF L
<1> QED BY <1>1, <1>2, <1>3 DEF Stack

\* A session that goes before a newer one leaves a way from the newest to
\* freed memory, and no way around it.
LEMMA StackToTrap ==
  ASSUME SinkTypeOK, Stack, NEW s \in Live, s # sessions,
         heap' = [heap EXCEPT ![s].live = FALSE], sessions' = sessions
  PROVE  Trap'
<1>1. PICK n \in Nat : \E L \in [1 .. n -> Addresses] : IsStack(n, L)
  BY DEF Stack
<1>2. PICK L \in [1 .. n -> Addresses] : IsStack(n, L)
  BY <1>1
<1>3. /\ \A i, j \in 1 .. n : L[i] = L[j] => i = j
      /\ Live = {L[i] : i \in 1 .. n}
      /\ sessions = IF n = 0 THEN NULL ELSE L[n]
      /\ \A i \in 1 .. n : heap[L[i]].next = IF i = 1 THEN NULL ELSE L[i - 1]
  BY <1>2 DEF IsStack
<1>4. PICK k \in 1 .. n : s = L[k]
  BY <1>3
<1>5. n \in k .. n /\ n # 0 /\ sessions = L[n] /\ \A i \in k .. n : i \in 1 .. n
  BY <1>3, <1>4
<1> DEFINE C == {L[i] : i \in k .. n}
<1>6. C \in SUBSET Addresses /\ sessions' \in C
  BY <1>5
<1>7. \A a \in Addresses : heap'[a].next = heap[a].next /\ (heap'[a].live => a # s)
  BY <1>4 DEF SinkTypeOK
<1>8. ASSUME NEW a \in C, heap'[a].live PROVE heap'[a].next \in C
  <2>1. PICK i \in k .. n : a = L[i]
    OBVIOUS
  <2>2. a \in Addresses
    BY <1>6
  <2>3. i # k /\ i \in 1 .. n
    BY <1>4, <1>5, <1>7, <1>8, <2>1, <2>2
  <2>4. i # 1 /\ i - 1 \in k .. n
    BY <1>4, <2>1, <2>3
  <2> QED BY <1>3, <1>7, <2>1, <2>2, <2>3, <2>4
<1> HIDE DEF C
<1>9. IsTrap(C)'
  BY <1>6, <1>8 DEF IsTrap
<1> QED BY <1>6, <1>9 DEF Trap

\* There is no way out of a trap: a new session points into it.
LEMMA TrapKept ==
  ASSUME SinkTypeOK, Trap,
         \/ \E s \in Addresses : CreateSession(s)
         \/ UNCHANGED <<heap, sessions>>
         \/ \E s \in Live : /\ heap' = [heap EXCEPT ![s].live = FALSE]
                            /\ sessions' = IF sessions = s THEN heap[s].next ELSE sessions
  PROVE  Trap'
<1>1. PICK C \in SUBSET Addresses : IsTrap(C)
  BY DEF Trap
<1>2. ASSUME NEW s \in Addresses, CreateSession(s) PROVE Trap'
  <2> DEFINE r == [live |-> TRUE, next |-> sessions, prev |-> NULL, conn |-> idx, client |-> conn.sock]
  <2>1. heap' = [heap EXCEPT ![s] = r] /\ sessions' = s /\ r.next = sessions
    BY <1>2 DEF CreateSession
  <2> HIDE DEF r
  <2>2. \A a \in Addresses : heap'[a] = IF a = s THEN r ELSE heap[a]
    BY <2>1 DEF SinkTypeOK
  <2>3. IsTrap(C \cup {s})'
    BY <1>1, <2>1, <2>2 DEF IsTrap
  <2>4. C \cup {s} \in SUBSET Addresses
    OBVIOUS
  <2> QED BY <2>3, <2>4 DEF Trap
<1>3. CASE UNCHANGED <<heap, sessions>>
  BY <1>1, <1>3 DEF Trap, IsTrap
<1>4. ASSUME NEW s \in Live, heap' = [heap EXCEPT ![s].live = FALSE],
             sessions' = IF sessions = s THEN heap[s].next ELSE sessions
      PROVE  Trap'
  <2>1. \A a \in Addresses : heap'[a].next = heap[a].next /\ (heap'[a].live => heap[a].live)
    BY <1>4 DEF SinkTypeOK
  <2>2. heap[s].live
    BY DEF Live
  <2>3. IsTrap(C)'
    BY <1>1, <1>4, <2>1, <2>2 DEF IsTrap
  <2> QED BY <2>3 DEF Trap
<1> QED BY <1>2, <1>3, <1>4

-----------------------------------------------------------------------------
(* What webby's steps do to the connections the sessions belong to *)

\* No viewer changes its slot or what it is.
SameViewers ==
  /\ count' = count
  /\ \A i \in 0 .. count - 1 : table'[i].ws = table[i].ws /\ table'[i].sock = table[i].sock

\* RespondUpgrade makes a websocket of the connection at idx, which was none.
LEMMA UpgradeRecord ==
  ASSUME TableInv, RespondUpgrade
  PROVE  OnlyThis /\ table'[idx].ws = TRUE /\ conn.state = "serve"
<1>1. idx \in 0 .. count - 1 /\ idx \in Slots /\ conn = table[idx] /\ conn \in Connections
  BY ConnInRange DEF RespondUpgrade, AtClient
<1>2. table \in [Slots -> Connections] /\ \A i \in 0 .. count - 1 : i \in Slots
  BY SlotsInRange DEF TableInv, TypeOK
<1> DEFINE r == [ResetConnection(conn) EXCEPT !.ws = TRUE, !.state = "websocket"]
<1>3. table' = [table EXCEPT ![idx] = r] /\ count' = count /\ conn.state = "serve"
  BY <1>1 DEF RespondUpgrade
<1>4. r.ws = TRUE /\ r.sock = conn.sock /\ r.data = conn.data
  BY <1>1 DEF ResetConnection, Connections
<1> HIDE DEF r
<1> QED BY <1>1, <1>2, <1>3, <1>4 DEF OnlyThis

\* The steps without a callback that changes the list leave every viewer in
\* its slot, or add a connection.
LEMMA QuietViewers ==
  ASSUME TableInv, Select \/ Quiet \/ DataFrame \/ (\E c \in Clients : Client(c))
  PROVE  SameViewers \/ \E c \in Clients : Accept(c)
<1>0. count \in Nat
  BY DEF TableInv, TypeOK
<1>1. CASE Minor
  BY <1>1, MinorRecords DEF SameRecords, SameViewers
<1>2. ASSUME OnlyThis, table'[idx].ws = conn.ws PROVE SameViewers
  BY <1>2, <1>0 DEF OnlyThis, SameViewers
<1>3. ASSUME NEW ok \in BOOLEAN, SendContinue(ok) PROVE SameViewers
  BY <1>2, <1>3, SendContinueRecord
<1>4. CASE ReadRequest
  BY <1>2, <1>4, ReadRequestRecord
<1>5. CASE ReadFrame
  BY <1>2, <1>5, ReadFrameRecord
<1>6. CASE RespondError \/ FrameDone
  <2>1. CASE SameRecords
    BY <2>1 DEF SameRecords, SameViewers
  <2>2. CASE ~SameRecords
    <3>1. ~RespondUpgrade
      BY <1>6 DEF RespondError, FrameDone, RespondUpgrade
    <3> QED BY <1>2, <1>6, <2>2, <3>1, ResetRecord
  <2> QED BY <2>1, <2>2
<1> QED BY <1>1, <1>3, <1>4, <1>5, <1>6 DEF Quiet, Minor

\* While the sessions stay as they are, and every viewer in its slot, each
\* still is the session of its viewer; a connection that is accepted is not a
\* websocket yet.
LEMMA MatchKept ==
  ASSUME TableInv, SinkTypeOK, Match, UNCHANGED heap,
         SameViewers \/ \E c \in Clients : Accept(c)
  PROVE  Match'
<1>0. /\ \A a \in Live : a \in Addresses /\ heap[a].conn \in Nat
      /\ count \in Nat /\ Live' = Live
  <2>1. \A a \in Addresses : heap[a].conn \in Nat
    BY DEF SinkTypeOK, Slots
  <2> QED BY <2>1 DEF Live, TableInv, TypeOK
<1>1. CASE SameViewers
  BY <1>0, <1>1 DEF Match, SameViewers
<1>2. ASSUME NEW c \in Clients, Accept(c) PROVE Match'
  <2>0. /\ count' = count + 1
        /\ \A i \in 0 .. count - 1 : table'[i] = table[i]
        /\ table'[count] = [ResetConnection(table[count]) EXCEPT
                               !.sock = c, !.alive = TRUE, !.fresh = TRUE, !.ws = FALSE]
        /\ 0 .. count' - 1 = (0 .. count - 1) \cup {count}
        /\ table[count] \in Connections
    BY <1>2, AcceptRecords, Zenon
  <2>1. table'[count].ws = FALSE /\ count' = count + 1
    BY <2>0 DEF ResetConnection, Connections
  <2>2. /\ \A i \in 0 .. count - 1 : table'[i] = table[i]
        /\ \A i \in 0 .. count' - 1 : i = count \/ i \in 0 .. count - 1
    BY <2>0
  <2> QED BY <1>0, <2>1, <2>2 DEF Match
<1> QED BY <1>1, <1>2

\* The session of a new websocket is its only one.
LEMMA MatchCreate ==
  ASSUME TableInv, StateInv, SinkTypeOK, Match, RespondUpgrade,
         NEW s \in Addresses, CreateSession(s)
  PROVE  Match'
<1>x. PICK x : x = idx
  OBVIOUS
<1>1. OnlyThis /\ table'[idx].ws = TRUE /\ conn.state = "serve"
  BY UpgradeRecord
<1>2. idx \in 0 .. count - 1 /\ conn = table[idx] /\ count \in Nat
  BY <1>1 DEF OnlyThis, TableInv, TypeOK
<1>3. ~table[idx].ws
  BY <1>1, <1>2 DEF StateInv
<1> DEFINE r == [live |-> TRUE, next |-> sessions, prev |-> NULL, conn |-> idx, client |-> conn.sock]
<1>4. heap' = [heap EXCEPT ![s] = r] /\ s \notin Live /\ r.live /\ r.conn = x /\ r.client = table[x].sock
  BY <1>x, <1>2 DEF CreateSession, Live
<1> HIDE DEF r
<1>5. \A a \in Addresses : heap'[a] = IF a = s THEN r ELSE heap[a]
  BY <1>4 DEF SinkTypeOK
<1>6. Live' = Live \cup {s}
  BY <1>4, <1>5 DEF Live
<1>7. \A a \in Live : a \in Addresses /\ a # s /\ heap[a].conn \in 0 .. count - 1 /\ heap[a].conn # x
  <2>1. \A a \in Addresses : heap[a].conn \in Nat
    BY DEF SinkTypeOK, Slots
  <2>2. \A a \in Live : heap[a].conn < count /\ table[heap[a].conn].ws
    BY DEF Match
  <2> QED BY <1>x, <1>2, <1>3, <1>4, <2>1, <2>2 DEF Live
<1>8. \A a \in Live' : /\ heap'[a].conn < count' /\ table'[heap'[a].conn].ws
                       /\ table'[heap'[a].conn].sock = heap'[a].client
  BY <1>x, <1>1, <1>2, <1>4, <1>5, <1>6, <1>7 DEF Match, OnlyThis
<1>9. \A i \in 0 .. count' - 1 : table'[i].ws => \E a \in Live' : heap'[a].conn = i
  BY <1>x, <1>1, <1>2, <1>4, <1>5, <1>6, <1>7 DEF Match, OnlyThis
<1>10. \A a, b \in Live' : heap'[a].conn = heap'[b].conn => a = b
  BY <1>4, <1>5, <1>6, <1>7 DEF Match
<1> QED BY <1>8, <1>9, <1>10 DEF Match

\* The websocket at the end of the table goes, and its session with it; or a
\* connection goes that is none.
LEMMA MatchClose ==
  ASSUME TableInv, SinkTypeOK, Match, CloseStale,
         \A i \in idx + 1 .. count - 1 : ~table[i].ws,
         IF conn.ws THEN \E s \in Live : /\ heap[s].conn = idx
                                         /\ heap' = [heap EXCEPT ![s].live = FALSE]
                    ELSE UNCHANGED heap
  PROVE  Match'
<1>x. PICK x : x = idx
  OBVIOUS
<1>1. /\ count' = count - 1 /\ idx \in 0 .. count - 1 /\ conn = table[idx]
      /\ \A j \in 0 .. count' - 1 :
           /\ table'[j] = table[IF j < idx THEN j ELSE j + 1]
           /\ j \in 0 .. count - 1 /\ j + 1 \in 0 .. count - 1
  BY CloseStaleRecords
<1>2. count \in Nat
  BY DEF TableInv, TypeOK
<1>3. Live' = {a \in Live : heap[a].conn # x} /\ \A a \in Addresses : heap'[a].conn = heap[a].conn
        /\ heap'[a].client = heap[a].client
  <2>1. CASE conn.ws
    <3>1. PICK s \in Live : heap[s].conn = idx /\ heap' = [heap EXCEPT ![s].live = FALSE]
      BY <2>1
    <3>2. \A a \in Addresses : /\ heap'[a].conn = heap[a].conn /\ heap'[a].client = heap[a].client
                               /\ (heap'[a].live <=> heap[a].live /\ a # s)
      BY <3>1 DEF SinkTypeOK, Live
    <3>3. \A a \in Live : heap[a].conn = x <=> a = s
      BY <1>x, <3>1 DEF Match
    <3> QED BY <3>2, <3>3 DEF Live
  <2>2. CASE ~conn.ws
    <3>1. heap' = heap /\ \A a \in Live : heap[a].conn # x
      BY <1>x, <1>1, <2>2 DEF Match
    <3> QED BY <3>1 DEF Live
  <2> QED BY <2>1, <2>2
<1>4. \A a \in Live : a \in Addresses /\ heap[a].conn \in 0 .. count - 1 /\ table[heap[a].conn].ws
  <2>1. \A a \in Addresses : heap[a].conn \in Nat
    BY DEF SinkTypeOK, Slots
  <2> QED BY <1>2, <2>1 DEF Match, Live
<1>5. \A a \in Live' : a \in Live /\ heap[a].conn < x
  <2> TAKE a \in Live'
  <2>1. a \in Live /\ heap[a].conn # x
    BY <1>3
  <2>2. heap[a].conn \notin idx + 1 .. count - 1
    BY <1>4, <2>1
  <2> QED BY <1>x, <1>1, <1>2, <1>4, <2>1, <2>2
<1>6. \A j \in 0 .. count' - 1 : table'[j].ws => j < x /\ table'[j] = table[j] /\ j \in 0 .. count - 1
  <2> SUFFICES ASSUME NEW j \in 0 .. count' - 1, table'[j].ws, ~(j < x) PROVE FALSE
    BY <1>x, <1>1
  <2>1. table'[j] = table[j + 1]
    BY <1>x, <1>1
  <2>2. j + 1 \in idx + 1 .. count - 1
    BY <1>x, <1>1, <1>2
  <2> QED BY <2>1, <2>2
<1>7. \A j \in 0 .. count' - 1 : j < x => table'[j] = table[j]
  BY <1>x, <1>1
<1>8. \A a \in Live' : heap[a].conn \in 0 .. count' - 1
  BY <1>x, <1>1, <1>2, <1>4, <1>5
<1>9. \A a \in Live' : /\ heap'[a].conn < count' /\ table'[heap'[a].conn].ws
                       /\ table'[heap'[a].conn].sock = heap'[a].client
  <2> TAKE a \in Live'
  <2>1. a \in Live /\ heap[a].conn < x /\ heap[a].conn \in 0 .. count' - 1
    BY <1>5, <1>8
  <2>2. table'[heap[a].conn] = table[heap[a].conn]
    BY <1>7, <2>1
  <2> QED BY <1>1, <1>2, <1>3, <1>4, <2>1, <2>2 DEF Match
<1>10. \A i \in 0 .. count' - 1 : table'[i].ws => \E a \in Live' : heap'[a].conn = i
  <2> SUFFICES ASSUME NEW i \in 0 .. count' - 1, table'[i].ws PROVE \E a \in Live' : heap'[a].conn = i
    OBVIOUS
  <2>1. i < x /\ table[i].ws /\ i \in 0 .. count - 1
    BY <1>6
  <2>2. PICK a \in Live : heap[a].conn = i
    BY <2>1 DEF Match
  <2>3. a \in Live' /\ heap'[a].conn = i
    BY <1>x, <1>1, <1>3, <1>4, <2>1, <2>2
  <2> QED BY <2>3
<1>11. \A a, b \in Live' : heap'[a].conn = heap'[b].conn => a = b
  BY <1>3, <1>4, <1>5 DEF Match
<1> QED BY <1>9, <1>10, <1>11 DEF Match

-----------------------------------------------------------------------------
(* The invariant of the list *)

\* The list is a stack until a session is destroyed that is not the newest;
\* then it is a trap.  Without a mishap it has one session for each websocket.
ListInv ==
  /\ PrevNull
  /\ fault = "none" => /\ "unlinked" \notin mishaps => Stack
                       /\ "unlinked" \in mishaps => Trap
                       /\ mishaps = {} => Match
  /\ FaultsExplained

\* The inductive invariant of the sink.
SinkInv == TableInv /\ SinkTypeOK /\ StateInv /\ ListInv

\* Initially the list is empty, and so is the table.
LEMMA InitList == SinkInit => StateInv /\ ListInv
<1> SUFFICES ASSUME SinkInit PROVE StateInv /\ ListInv
  OBVIOUS
<1>1. Live = {} /\ PrevNull /\ sessions = NULL /\ count = 0
  BY DEF SinkInit, Init, Live, PrevNull
<1>2. Stack
  BY <1>1, StackEmpty
<1>3. Match
  BY <1>1 DEF Match
<1>4. FaultsExplained
  BY DEF SinkInit, FaultsExplained
<1>5. "unlinked" \notin mishaps
  BY DEF SinkInit
<1> QED BY <1>1, <1>2, <1>3, <1>4, <1>5 DEF ListInv, StateInv

\* The steps of the sink keep what a websocket is.
LEMMA SinkNextState ==
  ASSUME TableInv, StateInv, SinkTypeOK, [SinkNext]_sinkAll
  PROVE  StateInv'
<1>1. CASE [Next]_vars
  BY <1>1, NextState
<1>2. ASSUME NEW s \in Sessions, WriteFailed(s) PROVE StateInv'
  BY <1>2, WriteFailedRecords DEF StateInv, SameRecords
<1>3. ASSUME NEW ok \in BOOLEAN, Listen(ok) PROVE StateInv'
  BY <1>3 DEF Listen, StateInv
<1> QED BY <1>1, <1>2, <1>3, SinkCases

\* The form of the list depends on nothing but the sessions.
LEMMA ListKept ==
  ASSUME UNCHANGED <<heap, sessions>>
  PROVE  (Stack => Stack') /\ (Trap => Trap') /\ (PrevNull => PrevNull')
<1>1. Live' = Live
  BY DEF Live
<1>2. \A n, L : IsStack(n, L) => IsStack(n, L)'
  BY <1>1 DEF IsStack
<1>3. \A C : IsTrap(C) => IsTrap(C)'
  BY DEF IsTrap
<1> QED BY <1>2, <1>3 DEF Stack, Trap, PrevNull

\* The lookup of a connection, while nothing has gone wrong: a websocket's
\* session is found, and where none is found the walk ends at null.
LEMMA FoundInStack ==
  ASSUME SinkTypeOK, Stack, NEW slot
  PROVE  /\ FindSession(slot) = NULL \/ FindSession(slot) \in Live
         /\ FindSession(slot) # NULL => heap[FindSession(slot)].conn = slot
         /\ (\E a \in Live : heap[a].conn = slot) => FindSession(slot) # NULL
<1> DEFINE f == FindSession(slot)
<1>1. WalkEnd = NULL /\ \A a \in Live : \E k \in 0 .. Size : Walk[k] = a
  BY StackWalk
<1>2. /\ f \in Pointers
      /\ \A n \in 0 .. Size : Alive(Walk[n]) /\ heap[Walk[n]].conn = slot =>
              Alive(f) /\ heap[f].conn = slot
      /\ ~(Alive(f) /\ heap[f].conn = slot) => f = WalkEnd
  BY Found
<1> HIDE DEF f
<1>3. f = NULL \/ (f \in Live /\ heap[f].conn = slot)
  BY <1>1, <1>2 DEF Live, Alive, Pointers
<1>4. ASSUME NEW a \in Live, heap[a].conn = slot PROVE f # NULL
  <2>1. Alive(a)
    BY SinkAssumption DEF Live, Alive
  <2>2. PICK k \in 0 .. Size : Walk[k] = a
    BY <1>1
  <2> QED BY <1>2, <1>4, <2>1, <2>2 DEF Alive
<1> QED BY <1>3, <1>4 DEF f

\* webby_closed keeps the invariant of the list.
LEMMA ClosedList ==
  ASSUME TableInv, SinkTypeOK, ListInv, fault = "none", Closed
  PROVE  ListInv'
<1> DEFINE f == FindSession(idx)
           moved    == \E i \in idx + 1 .. count - 1 : table[i].ws
           unlinked == conn.ws /\ f # sessions
<1>0. idx \in 0 .. count - 1 /\ conn = table[idx] /\ CloseStale
  BY CloseStaleRecords DEF Closed
<1>1. mishaps' = mishaps \cup (IF moved THEN {"moved"} ELSE {})
                         \cup (IF unlinked THEN {"unlinked"} ELSE {})
  BY DEF Closed
<1>2. /\ mishaps' = {} => mishaps = {} /\ ~moved /\ ~unlinked
      /\ "unlinked" \in mishaps' <=> "unlinked" \in mishaps \/ unlinked
      /\ \A x \in mishaps : x \in mishaps'
  BY <1>1
<1>3. CASE ~conn.ws
  <2>1. UNCHANGED <<heap, sessions, fault>>
    BY <1>3 DEF Closed
  <2>2. /\ PrevNull' /\ Stack = Stack' /\ Trap = Trap'
    BY <2>1, ListKept DEF ListInv, Stack, Trap, IsStack, IsTrap, Live
  <2>3. mishaps' = {} => Match'
    BY <1>0, <1>2, <1>3, <2>1, MatchClose DEF ListInv
  <2>4. FaultsExplained'
    BY <2>1 DEF FaultsExplained
  <2>5. ~unlinked
    BY <1>3
  <2> HIDE DEF moved, unlinked
  <2> QED BY <1>2, <2>2, <2>3, <2>4, <2>5 DEF ListInv
<1>4. CASE conn.ws
  <2>1. f \in Pointers
    BY Found
  <2>2. CASE Alive(f) /\ heap[f].conn # idx
    <3>1. fault' = "endless" /\ UNCHANGED <<heap, sessions>>
      BY <1>4, <2>2 DEF Closed
    <3>2. "unlinked" \in mishaps
      <4> SUFFICES ASSUME "unlinked" \notin mishaps PROVE FALSE
        OBVIOUS
      <4>1. Stack
        BY DEF ListInv
      <4> QED BY <2>2, <4>1, FoundInStack DEF Alive
    <3>3. PrevNull'
      BY <3>1, ListKept DEF ListInv
    <3> HIDE DEF moved, unlinked
    <3>4. FaultsExplained'
      BY <1>2, <3>1, <3>2 DEF FaultsExplained
    <3> QED BY <3>1, <3>3, <3>4 DEF ListInv
  <2>3. CASE ~(Alive(f) /\ heap[f].conn # idx)
    <3>1. DestroySession(f)
      BY <1>4, <2>3 DEF Closed
    <3>2. CASE Stray(f)
      <4>1. fault' = (IF f = NULL THEN "null" ELSE "dangling") /\ UNCHANGED <<heap, sessions>>
        BY <3>1, <3>2, DestroyCases
      <4>2. PrevNull'
        BY <4>1, ListKept DEF ListInv
      <4>3. CASE f = NULL
        <5>1. mishaps \cap {"moved", "refused"} # {}
          <6> SUFFICES ASSUME mishaps \cap {"moved", "refused"} = {} PROVE FALSE
            OBVIOUS
          <6>1. CASE "unlinked" \in mishaps
            <7>1. Trap
              BY <6>1 DEF ListInv
            <7>2. \E n \in 0 .. Size : f = Walk[n]
              BY Found
            <7> QED BY <4>3, <7>1, <7>2, TrapWalk
          <6>2. CASE "unlinked" \notin mishaps
            <7>1. mishaps = {} /\ Stack
              BY <6>2 DEF ListInv, SinkTypeOK
            <7>2. \E a \in Live : heap[a].conn = idx
              BY <1>0, <1>4, <7>1 DEF ListInv, Match
            <7> QED BY <4>3, <7>1, <7>2, FoundInStack
          <6> QED BY <6>1, <6>2
        <5> HIDE DEF moved, unlinked
        <5>2. FaultsExplained'
          BY <1>2, <4>1, <4>3, <5>1 DEF FaultsExplained
        <5> QED BY <4>1, <4>2, <4>3, <5>2 DEF ListInv
      <4>4. CASE f # NULL
        <5>1. "unlinked" \in mishaps
          <6> SUFFICES ASSUME "unlinked" \notin mishaps PROVE FALSE
            OBVIOUS
          <6>1. Stack
            BY DEF ListInv
          <6>2. f \in Live /\ (heap[f].next = NULL \/ heap[f].next \in Live)
            BY <4>4, <6>1, FoundInStack, StackWalk
          <6>3. heap[f].prev = NULL
            BY <6>2 DEF ListInv, PrevNull, Live
          <6> QED BY <3>2, <4>4, <6>2, <6>3 DEF Stray, Alive, Live
        <5> HIDE DEF moved, unlinked
        <5>2. FaultsExplained'
          BY <1>2, <4>1, <4>4, <5>1 DEF FaultsExplained
        <5> QED BY <4>1, <4>2, <4>4, <5>2 DEF ListInv
      <4> QED BY <4>3, <4>4
    <3>3. CASE ~Stray(f)
      <4>1. /\ f \in Live /\ heap' = [heap EXCEPT ![f].live = FALSE] /\ UNCHANGED fault
            /\ sessions' = IF sessions = f THEN heap[f].next ELSE sessions
        BY <2>1, <3>1, <3>3, DestroyEffect DEF ListInv
      <4>2. PrevNull'
        BY <4>1 DEF ListInv, PrevNull, SinkTypeOK
      <4>3. "unlinked" \notin mishaps' => Stack'
        <5> SUFFICES ASSUME "unlinked" \notin mishaps' PROVE Stack'
          OBVIOUS
        <5>1. f = sessions /\ "unlinked" \notin mishaps
          BY <1>2, <1>4
        <5>2. f # NULL
          BY <4>1, SinkAssumption DEF Live
        <5> HIDE DEF f
        <5> QED BY <4>1, <5>1, <5>2, StackPop DEF ListInv
      <4>4. "unlinked" \in mishaps' => Trap'
        <5>1. CASE "unlinked" \in mishaps
          <6> HIDE DEF f
          <6> QED BY <4>1, <5>1, TrapKept DEF ListInv
        <5>2. CASE "unlinked" \notin mishaps /\ unlinked
          <6>1. f # sessions /\ Stack
            BY <5>2 DEF ListInv
          <6> HIDE DEF f, unlinked
          <6> QED BY <4>1, <6>1, StackToTrap
        <5> QED BY <1>2, <5>1, <5>2
      <4>5. mishaps' = {} => Match'
        <5> SUFFICES ASSUME mishaps' = {} PROVE Match'
          OBVIOUS
        <5>1. mishaps = {} /\ ~moved
          BY <1>2
        <5>2. Match /\ Stack
          BY <5>1 DEF ListInv
        <5>3. heap[f].conn = idx
          BY <4>1, <5>2, FoundInStack, SinkAssumption DEF Live
        <5> HIDE DEF f
        <5> QED BY <1>0, <1>4, <4>1, <5>1, <5>2, <5>3, MatchClose
      <4>6. FaultsExplained'
        BY <4>1 DEF FaultsExplained
      <4> HIDE DEF moved, unlinked, f
      <4> QED BY <4>2, <4>3, <4>4, <4>5, <4>6 DEF ListInv
    <3> QED BY <3>2, <3>3
  <2> QED BY <2>2, <2>3
<1> QED BY <1>3, <1>4

\* webby_connected keeps the invariant of the list.
LEMMA ConnectedList ==
  ASSUME TableInv, StateInv, SinkTypeOK, ListInv, fault = "none", Connected
  PROVE  ListInv'
<1>0. RespondUpgrade
  BY DEF Connected
<1>1. ASSUME NEW s \in Addresses, CreateSession(s) PROVE ListInv'
  <2>1. UNCHANGED <<fault, mishaps>>
    BY <1>1 DEF CreateSession
  <2>2. "unlinked" \notin mishaps' => Stack'
    BY <1>1, <2>1, StackCreate DEF ListInv
  <2>3. "unlinked" \in mishaps' => Trap'
    BY <1>1, <2>1, TrapKept DEF ListInv
  <2>4. mishaps' = {} => Match'
    BY <1>0, <1>1, <2>1, MatchCreate DEF ListInv
  <2>5. PrevNull'
    BY <1>1 DEF CreateSession, ListInv, PrevNull, SinkTypeOK
  <2>6. FaultsExplained'
    BY <2>1 DEF ListInv, FaultsExplained
  <2> QED BY <2>2, <2>3, <2>4, <2>5, <2>6 DEF ListInv
<1>2. ASSUME NEW what \in Failing, NoSession(what) PROVE ListInv'
  <2>1. /\ UNCHANGED <<heap, sessions>> /\ mishaps' = mishaps \cup {"refused"}
        /\ fault' = fault \/ (sessions # NULL /\ ~heap[sessions].live)
    BY <1>2, NoSessionEffect DEF ListInv
  <2>2. PrevNull' /\ (Stack => Stack') /\ (Trap => Trap')
    BY <2>1, ListKept DEF ListInv
  <2>3. mishaps' # {} /\ ("unlinked" \in mishaps' <=> "unlinked" \in mishaps)
    BY <2>1
  <2>4. fault' \in {"none", "dangling"}
    BY <1>2 DEF NoSession
  <2>5. "unlinked" \notin mishaps => fault' = "none"
    <3> SUFFICES ASSUME "unlinked" \notin mishaps PROVE fault' = "none"
      OBVIOUS
    <3>1. sessions = NULL \/ sessions \in Live
      BY StackWalk DEF ListInv
    <3> QED BY <2>1, <3>1 DEF Live
  <2>6. FaultsExplained'
    BY <2>3, <2>4, <2>5 DEF FaultsExplained
  <2> QED BY <2>2, <2>3, <2>6 DEF ListInv
<1> QED BY <1>1, <1>2 DEF Connected

\* webby_frame keeps the invariant of the list.
LEMMA FramedList ==
  ASSUME TableInv, SinkTypeOK, ListInv, fault = "none", Framed
  PROVE  ListInv'
<1> DEFINE f == FindSession(idx)
<1>1. UNCHANGED <<heap, sessions, mishaps>> /\ DataFrame
      /\ fault' = WalkFault(IF Alive(f) /\ heap[f].conn = idx THEN NULL ELSE f)
  BY DEF Framed
<1>2. PrevNull' /\ (Stack => Stack') /\ (Trap => Trap')
  BY <1>1, ListKept DEF ListInv
<1>3. SameViewers \/ \E c \in Clients : Accept(c)
  BY <1>1, QuietViewers
<1>4. mishaps' = {} => Match'
  BY <1>1, <1>3, MatchKept DEF ListInv
<1>5. fault' \in {"none", "endless", "dangling"}
  BY <1>1 DEF WalkFault
<1>6. "unlinked" \notin mishaps => fault' = "none"
  <2> SUFFICES ASSUME "unlinked" \notin mishaps PROVE fault' = "none"
    OBVIOUS
  <2>1. WalkEnd = NULL
    BY StackWalk DEF ListInv
  <2>2. ~(Alive(f) /\ heap[f].conn = idx) => f = NULL
    BY <2>1, Found
  <2> HIDE DEF f
  <2>3. (IF Alive(f) /\ heap[f].conn = idx THEN NULL ELSE f) = NULL
    BY <2>2
  <2> QED BY <1>1, <2>3 DEF WalkFault
<1>7. FaultsExplained'
  BY <1>1, <1>5, <1>6 DEF FaultsExplained
<1> QED BY <1>1, <1>2, <1>4, <1>7 DEF ListInv

\* listen_web keeps the invariant of the list.
LEMMA ListenList ==
  ASSUME TableInv, SinkTypeOK, ListInv, fault = "none", NEW ok \in BOOLEAN, Listen(ok)
  PROVE  ListInv'
<1>1. UNCHANGED mishaps /\ count' = 0
  BY DEF Listen
<1>2. CASE WalkEnd = NULL
  <2>1. /\ heap' = [a \in Addresses |-> [heap[a] EXCEPT !.live = @ /\ a \notin Sessions]]
        /\ sessions' = NULL /\ UNCHANGED fault
    BY <1>2 DEF Listen
  <2>2. \A a \in Addresses : heap'[a].prev = heap[a].prev
                             /\ (heap'[a].live <=> heap[a].live /\ a \notin Sessions)
    BY <2>1 DEF SinkTypeOK
  <2>3. "unlinked" \notin mishaps
    <3> SUFFICES ASSUME Trap PROVE FALSE
      BY DEF ListInv
    <3>1. Size \in 0 .. Size /\ WalkEnd = Walk[Size]
      BY SizeNat DEF WalkEnd, Size
    <3> QED BY <1>2, <3>1, TrapWalk
  <2>4. Sessions = Live
    BY <2>3, StackWalk DEF ListInv
  <2>5. Live' = {}
    BY <2>2, <2>4 DEF Live
  <2>6. Stack'
    BY <2>1, <2>5, StackEmpty
  <2>7. Match'
    BY <1>1, <2>5 DEF Match
  <2>8. PrevNull'
    BY <2>2 DEF ListInv, PrevNull
  <2>9. FaultsExplained'
    BY <2>1 DEF FaultsExplained
  <2> QED BY <1>1, <2>3, <2>6, <2>7, <2>8, <2>9 DEF ListInv
<1>3. CASE WalkEnd # NULL
  <2>1. fault' = "dangling" /\ UNCHANGED <<heap, sessions>>
    BY <1>3 DEF Listen
  <2>2. "unlinked" \in mishaps
    BY <1>3, StackWalk DEF ListInv
  <2>3. PrevNull'
    BY <2>1, ListKept DEF ListInv
  <2>4. FaultsExplained'
    BY <1>1, <2>1, <2>2 DEF FaultsExplained
  <2> QED BY <2>1, <2>3, <2>4 DEF ListInv
<1> QED BY <1>2, <1>3

\* Every step of the sink keeps the invariant of the list.
LEMMA NextList ==
  ASSUME TableInv, StateInv, SinkTypeOK, ListInv, [SinkNext]_sinkAll
  PROVE  ListInv'
<1>1. ASSUME UNCHANGED sinkVars, SameViewers \/ \E c \in Clients : Accept(c)
      PROVE  ListInv'
  <2>1. UNCHANGED <<heap, sessions, fault, mishaps>>
    BY <1>1 DEF sinkVars
  <2>2. PrevNull' /\ (Stack => Stack') /\ (Trap => Trap')
    BY <2>1, ListKept DEF ListInv
  <2>3. (mishaps' = {} /\ fault' = "none") => Match'
    BY <1>1, <2>1, MatchKept DEF ListInv
  <2>4. FaultsExplained'
    BY <2>1 DEF ListInv, FaultsExplained
  <2> QED BY <2>1, <2>2, <2>3, <2>4 DEF ListInv
<1>2. CASE UNCHANGED sinkAll
  <2>1. UNCHANGED sinkVars /\ SameViewers
    BY <1>2 DEF sinkAll, SameViewers, vars, tableVars
  <2> QED BY <1>1, <2>1
<1>3. CASE SinkNext
  <2>0. fault = "none"
    BY <1>3 DEF SinkNext
  <2>1. CASE Update \/ Serve \/ \E c \in Clients : SinkClient(c)
    <3>1. UNCHANGED sinkVars /\ (Select \/ Quiet \/ \E c \in Clients : Client(c))
      BY <2>1 DEF Update, Serve, SinkClient
    <3> QED BY <1>1, <3>1, QuietViewers
  <2>2. CASE WriteFaults
    <3>1. /\ fault' = WalkFault(WalkEnd) /\ WalkFault(WalkEnd) # "none"
          /\ UNCHANGED <<heap, sessions, mishaps>>
      BY <2>2 DEF WriteFaults
    <3>2. "unlinked" \in mishaps
      <4> SUFFICES ASSUME "unlinked" \notin mishaps PROVE FALSE
        OBVIOUS
      <4>1. WalkEnd = NULL
        BY <2>0, StackWalk DEF ListInv
      <4> QED BY <3>1, <4>1 DEF WalkFault
    <3>3. fault' \in {"dangling", "endless"}
      BY <3>1 DEF WalkFault
    <3>4. FaultsExplained'
      BY <3>1, <3>2, <3>3 DEF FaultsExplained
    <3>5. PrevNull'
      BY <3>1, ListKept DEF ListInv
    <3> QED BY <3>3, <3>4, <3>5 DEF ListInv
  <2>3. ASSUME NEW s \in Sessions, WriteFailed(s) PROVE ListInv'
    <3>1. SameRecords /\ UNCHANGED sinkVars
      BY <2>3, WriteFailedRecords DEF WriteFailed
    <3>2. SameViewers
      BY <3>1 DEF SameRecords, SameViewers
    <3> QED BY <1>1, <3>1, <3>2
  <2> QED BY <1>3, <2>0, <2>1, <2>2, <2>3, ConnectedList, FramedList, ClosedList, ListenList
          DEF SinkNext, Background
<1> QED BY <1>2, <1>3

\* The inductive invariant of the sink holds initially,
LEMMA InitSinkInv == SinkInit => SinkInv
BY InitTable, InitSinkType, InitList DEF SinkInit, SinkInv

\* and every step keeps it.
LEMMA NextSinkInv == SinkInv /\ [SinkNext]_sinkAll => SinkInv'
BY SinkNextTable, NextSinkType, SinkNextState, NextList DEF SinkInv

\* Without a mishap the list of sessions is webby's list of websockets.
LEMMA ListMatches ==
  ASSUME SinkInv, mishaps = {}
  PROVE  OwnConnection /\ OneSessionEach /\ NothingLost /\ fault = "none"
<1> USE DEF SinkInv
<1>1. fault = "none"
  BY DEF ListInv, FaultsExplained, SinkTypeOK
<1>2. Stack /\ Match
  BY <1>1 DEF ListInv
<1>3. Sessions = Live /\ WalkEnd = NULL
  BY <1>2, StackWalk
<1>4. OwnConnection
  BY <1>2, <1>3 DEF Match, OwnConnection
<1>5. NothingLost
  BY <1>3 DEF NothingLost, Live
<1>6. ASSUME NEW i \in 0 .. count - 1, table[i].ws
      PROVE  Cardinality({s \in Sessions : heap[s].client = table[i].sock}) = 1
  <2>1. PICK a \in Live : heap[a].conn = i
    BY <1>2, <1>6 DEF Match
  <2>2. heap[a].client = table[i].sock
    BY <1>2, <2>1 DEF Match
  <2>3. ASSUME NEW b \in Live, heap[b].client = table[i].sock PROVE b = a
    <3>1. heap[b].conn \in Nat /\ heap[b].conn < count /\ count \in Nat
          /\ table[heap[b].conn].sock = table[i].sock
      <4>1. count \in Nat
        BY DEF TableInv, TypeOK
      <4>2. heap[b].conn \in Nat
        BY DEF Live, SinkTypeOK, Slots
      <4> QED BY <1>2, <2>3, <4>1, <4>2 DEF Match
    <3>2. heap[b].conn = i
      BY <3>1 DEF TableInv, SocketsAccounted
    <3> QED BY <1>2, <2>1, <3>2 DEF Match
  <2>4. {s \in Sessions : heap[s].client = table[i].sock} = {a}
    BY <1>3, <2>1, <2>2, <2>3
  <2> QED BY <2>4, FS_Singleton
<1>7. OneSessionEach
  BY <1>6 DEF OneSessionEach
<1> QED BY <1>1, <1>4, <1>5, <1>7

\* While viewers leave last in, first out, and allocations succeed, the list
\* of sessions is webby's list of websockets: for every number of viewers and
\* of connections, and across listen_web.
THEOREM SessionsFollow == SinkSpec => []SessionsMatch
<1>1. SinkInv => SessionsMatch
  BY ListMatches DEF SessionsMatch
<1> QED BY <1>1, InitSinkInv, NextSinkInv, PTL DEF SinkSpec

\* The sink ends with an invalid access only after one of the three things
\* that its list cannot take.
THEOREM FaultCauses == SinkSpec => []FaultsExplained
<1>1. SinkInv => FaultsExplained
  BY DEF SinkInv, ListInv
<1> QED BY <1>1, InitSinkInv, NextSinkInv, PTL DEF SinkSpec
=============================================================================
