---------------------------- MODULE WebsocketSink ----------------------------
(***************************************************************************)
(* The sessions of src/src/WebsocketSink.cpp on top of the connections of  *)
(* webby: webby's steps are those of WebbyServer, and where webby calls    *)
(* ws_connected, ws_frame or ws_closed the step is joined with what the    *)
(* callback does to the list of sessions.                                  *)
(*                                                                         *)
(* A session remembers its connection by address, here the slot of the     *)
(* record in webby's table.  An address of a session can be handed out     *)
(* again once it is freed.  The program stops at its first access to       *)
(* memory it does not own, and fault says which one that was.              *)
(*                                                                         *)
(* listen_web is called while the background thread is elsewhere; what     *)
(* happens when it is not is a property of GlobalState.                    *)
(***************************************************************************)
EXTENDS WebbyServer

CONSTANTS Addresses,   \* where the allocator can put a session
          NULL,        \* the null pointer
          Failing,     \* the allocations that may fail, of Allocations
          MaxListens   \* bound: calls of listen_web

Allocations == {"server", "session", "buffer", "table"}

ASSUME SinkAssumption == /\ IsFiniteSet(Addresses) /\ NULL \notin Addresses
                         /\ Failing \subseteq Allocations /\ MaxListens \in Nat

VARIABLES server,    \* _server is not null
          sessions,  \* _sessions
          heap,      \* the sessions, freed ones as they were left
          fault,     \* the invalid access that ended the program
          mishaps,   \* history: what has happened that the list cannot take
          listens    \* calls of listen_web so far

sinkVars == <<server, sessions, heap, fault, mishaps, listens>>
sinkAll  == <<vars, sinkVars>>

SinkInit ==
  /\ Init
  /\ server = FALSE /\ sessions = NULL
  /\ heap = [a \in Addresses |-> [live |-> FALSE, next |-> NULL, prev |-> NULL,
                                  conn |-> 0, client |-> NoSocket]]
  /\ fault = "none" /\ mishaps = {} /\ listens = 0

-----------------------------------------------------------------------------
(* The list of sessions *)

Alive(s) == s # NULL /\ heap[s].live

\* the n-th session after the first; a walk gets no further than a null
\* pointer or a pointer to freed memory
Walk[n \in 0 .. Cardinality(Addresses)] ==
  IF n = 0 THEN sessions
  ELSE IF Alive(Walk[n - 1]) THEN heap[Walk[n - 1]].next ELSE Walk[n - 1]

Sessions == {s \in {Walk[n] : n \in DOMAIN Walk} : Alive(s)}
WalkEnd  == Walk[Cardinality(Addresses)]

\* for comparison: the loop starts behind the head
FindSessionSkipsHead(slot) ==
  LET found == {n \in DOMAIN Walk \ {0} : Alive(Walk[n]) /\ heap[Walk[n]].conn = slot}
  IN  IF found = {} THEN WalkEnd
      ELSE Walk[CHOOSE n \in found : \A m \in found : n <= m]

\* FindSession: the first one with this connection, or where the walk ends
FindSession(slot) ==
  LET found == {n \in DOMAIN Walk : Alive(Walk[n]) /\ heap[Walk[n]].conn = slot}
  IN  IF found = {} THEN WalkEnd
      ELSE Walk[CHOOSE n \in found : \A m \in found : n <= m]

\* what a walk that ends at s has run into
WalkFault(s) == IF s = NULL THEN "none" ELSE IF heap[s].live THEN "endless" ELSE "dangling"

\* for comparison: the list is not told of the new session
CreateSessionUnlinked(s) ==
  /\ ~heap[s].live
  /\ heap' = [heap EXCEPT ![s] = [live |-> TRUE, next |-> sessions, prev |-> NULL,
                                  conn |-> idx, client |-> conn.sock]]
  /\ UNCHANGED <<server, sessions, fault, mishaps, listens>>

\* CreateSession(connection) for the connection at idx, in memory at s
CreateSession(s) ==
  /\ ~heap[s].live
  /\ heap' = [heap EXCEPT ![s] = [live |-> TRUE, next |-> sessions, prev |-> NULL,
                                  conn |-> idx, client |-> conn.sock]]
  /\ sessions' = s
  /\ UNCHANGED <<server, fault, mishaps, listens>>

\* ... without memory for the session; or without any for its buffer or its
\* table, when DestroySession runs on a session that is not in the list yet
NoSession(what) ==
  /\ what \in Failing \cap {"session", "buffer", "table"}
  /\ mishaps' = mishaps \cup {"refused"}
  /\ IF what # "session" /\ sessions # NULL
     THEN IF heap[sessions].live
          THEN heap' = [heap EXCEPT ![sessions].prev = NULL] /\ UNCHANGED fault
          ELSE fault' = "dangling" /\ UNCHANGED heap
     ELSE UNCHANGED <<heap, fault>>
  /\ UNCHANGED <<server, sessions, listens>>

\* DestroySession(session)
DestroySession(s) ==
  LET next == heap[s].next
      prev == heap[s].prev
  IN  IF ~Alive(s) \/ \E q \in {next, prev} : q # NULL /\ ~Alive(q)
      THEN /\ fault' = IF s = NULL THEN "null" ELSE "dangling"
           /\ UNCHANGED <<sessions, heap>>
      ELSE /\ heap' = [a \in Addresses |->
                IF a = s THEN [heap[a] EXCEPT !.live = FALSE]
                ELSE [heap[a] EXCEPT !.prev = IF a = next THEN prev ELSE @,
                                     !.next = IF a = prev THEN next ELSE @]]
           /\ sessions' = IF sessions = s THEN next ELSE sessions
           /\ UNCHANGED fault

-----------------------------------------------------------------------------
(* webby's steps, with the callbacks *)

\* Update: nothing without a server
Update == Select /\ server /\ UNCHANGED sinkVars

Serve == Quiet /\ UNCHANGED sinkVars

\* webby_connected
Connected == /\ RespondUpgrade
             /\ \/ \E s \in Addresses : CreateSession(s)
                \/ \E what \in Failing : NoSession(what)

\* webby_frame looks the session up, although it does not use it
Framed ==
  /\ DataFrame
  /\ fault' = WalkFault(IF Alive(FindSession(idx)) /\ heap[FindSession(idx)].conn = idx
                        THEN NULL ELSE FindSession(idx))
  /\ UNCHANGED <<server, sessions, heap, mishaps, listens>>

\* webby_closed, before the connections behind it are moved
Closed ==
  /\ CloseStale
  /\ IF conn.ws
     THEN IF Alive(FindSession(idx)) /\ heap[FindSession(idx)].conn # idx
          THEN fault' = "endless" /\ UNCHANGED <<sessions, heap>>
          ELSE DestroySession(FindSession(idx))
     ELSE UNCHANGED <<sessions, heap, fault>>
  /\ mishaps' = mishaps
       \cup (IF \E i \in idx + 1 .. count - 1 : table[i].ws THEN {"moved"} ELSE {})
       \cup (IF conn.ws /\ FindSession(idx) # sessions THEN {"unlinked"} ELSE {})
  /\ UNCHANGED <<server, listens>>

-----------------------------------------------------------------------------
(* Between two passes *)

\* Flush or WriteEvent walks the list and finds the end of it in memory that
\* was freed, or never
WriteFaults ==
  /\ pc = "idle" /\ WalkFault(WalkEnd) # "none"
  /\ fault' = WalkFault(WalkEnd)
  /\ UNCHANGED <<vars, server, sessions, heap, mishaps, listens>>

\* the record a session takes for its connection is written to, and the socket
\* in it has no one at the other end
WriteFailed(s) ==
  /\ pc = "idle"
  /\ table[heap[s].conn].sock \notin {c \in Clients : peer[c] = "up"}
  /\ table' = [table EXCEPT ![heap[s].conn].alive = FALSE]
  /\ UNCHANGED <<count, memory, passVars, clientVars, backlog, inbox, open, sinkVars>>

\* for comparison: Close does not destroy the sessions
ListenKeepsSessions(ok) ==
  /\ pc = "idle" /\ listens < MaxListens
  /\ ok \/ "server" \in Failing
  /\ listens' = listens + 1
  /\ table' = FreshTable /\ count' = 0 /\ memory' = FreshMemory
  /\ peer' = [c \in Clients |-> IF c \in open \cup backlog THEN "closed" ELSE peer[c]]
  /\ open' = {} /\ backlog' = {}
  /\ server' = ok
  /\ UNCHANGED <<passVars, inbox, stage, sent, mishaps, heap, sessions, fault>>

\* Listen: Close with WebbyServerShutdown, which calls nobody back, and the
\* sessions destroyed one after the other; then a new server, in fresh memory
Listen(ok) ==
  /\ pc = "idle" /\ listens < MaxListens
  /\ ok \/ "server" \in Failing
  /\ listens' = listens + 1
  /\ table' = FreshTable /\ count' = 0 /\ memory' = FreshMemory
  /\ peer' = [c \in Clients |-> IF c \in open \cup backlog THEN "closed" ELSE peer[c]]
  /\ open' = {} /\ backlog' = {}
  /\ server' = ok
  /\ IF WalkEnd = NULL
     THEN /\ heap' = [a \in Addresses |-> [heap[a] EXCEPT !.live = @ /\ a \notin Sessions]]
          /\ sessions' = NULL
          /\ UNCHANGED fault
     ELSE fault' = "dangling" /\ UNCHANGED <<heap, sessions>>
  /\ UNCHANGED <<passVars, inbox, stage, sent, mishaps>>

-----------------------------------------------------------------------------
Background == Update \/ Serve \/ Connected \/ Framed \/ Closed

SinkClient(c) == /\ Client(c)
                 /\ peer[c] = "away" => server
                 /\ UNCHANGED sinkVars

SinkNext == /\ fault = "none"
            /\ \/ Background
               \/ WriteFaults \/ (\E s \in Sessions : WriteFailed(s))
               \/ \E ok \in BOOLEAN : Listen(ok)
               \/ \E c \in Clients : SinkClient(c)

SinkSpec == SinkInit /\ [][SinkNext]_sinkAll

\* The background thread keeps running, and so does webby's pass.
FairSinkSpec == SinkSpec /\ WF_sinkAll(fault = "none" /\ Background)

-----------------------------------------------------------------------------
(* Properties *)

\* Type invariant of the sink's own variables.
SinkTypeOK ==
  /\ server \in BOOLEAN /\ sessions \in Addresses \cup {NULL}
  /\ heap \in [Addresses -> [live : BOOLEAN, next : Addresses \cup {NULL},
                             prev : Addresses \cup {NULL}, conn : Slots,
                             client : Clients \cup {NoSocket}]]
  /\ fault \in {"none", "null", "dangling", "endless"}
  /\ mishaps \subseteq {"moved", "unlinked", "refused"} /\ listens \in 0 .. MaxListens

\* The tables of webby and of the sink keep their form, and every accepted
\* socket is in exactly one slot, also across listen_web.
TablesSound == TypeOK /\ SinkTypeOK /\ SocketsAccounted

\* A session writes to the connection it was created for: the record whose
\* address it holds still is the one of its own viewer's socket.
OwnConnection ==
  \A s \in Sessions : /\ heap[s].conn < count /\ table[heap[s].conn].ws
                      /\ table[heap[s].conn].sock = heap[s].client

\* What a session writes goes to the viewer it was created for, as long as its
\* websocket is open: "you can start sending WebSocket frames over the
\* connection" (webby/README.md:35).  Fails: the session keeps the address of a
\* record, and memmove (webby.c:1373) makes room there for another viewer.
WritesToOwnViewer == \A s \in Sessions : table[heap[s].conn].sock = heap[s].client

\* Every websocket has exactly one session.
OneSessionEach ==
  \A i \in 0 .. count - 1 : table[i].ws =>
    Cardinality({s \in Sessions : heap[s].client = table[i].sock}) = 1

\* Every session in memory is in the list, and the list ends.
NothingLost == /\ \A a \in Addresses : heap[a].live => a \in Sessions
               /\ WalkEnd = NULL

\* While viewers leave last in, first out, and allocations succeed, the list
\* of sessions is webby's list of websockets.
SessionsMatch ==
  mishaps = {} => OwnConnection /\ OneSessionEach /\ NothingLost /\ fault = "none"

\* With one connection the list of sessions is webby's list of websockets,
\* also across listen_web, which closes the sockets and calls nobody back.
SessionsMatchAlways == OwnConnection /\ OneSessionEach /\ NothingLost /\ fault = "none"

\* A fault has a cause: a viewer that left before a newer one, a websocket
\* whose record was moved, or a session that could not be created.
FaultsExplained ==
  /\ fault = "null" => mishaps \cap {"moved", "refused"} # {}
  /\ fault \in {"dangling", "endless"} => "unlinked" \in mishaps

\* The program has ended with an invalid access, or waits in WebbyRead for
\* what a client owes it.
Stopped == fault # "none" \/ pc = "reading"

\* Every call of WebbyServerUpdate returns, whatever clients ask for and
\* wherever they stop, unless it waits for a body.
PassEnds == pc # "idle" ~> pc = "idle" \/ Stopped

\* The socket of a client that hung up is closed.
HungUpClosed ==
  \A c \in Clients : c \in open /\ peer[c] # "up" ~> c \notin open \/ Stopped

\* A client that asked for a websocket gets it, or is disconnected.
UpgradeAnswered ==
  \A c \in Clients : c \in open /\ stage[c] = "asked"
                       ~> stage[c] # "asked" \/ c \notin open \/ Stopped
=============================================================================
