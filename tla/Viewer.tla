------------------------------- MODULE Viewer -------------------------------
(***************************************************************************)
(* The web viewer of src/tools/web: YsProtocol's socket, the button of     *)
(* index.html, and the frames and the counter that YsState keeps.  The     *)
(* page runs handlers one at a time; what the browser may call next is     *)
(* what a websocket may do.                                                *)
(*                                                                         *)
(* All sockets lead to one program.  Its ticks reach a socket in time      *)
(* order.  A header carries the time of the connection, which may be after *)
(* that of ticks still queued in the program; counter values come batch by *)
(* batch of threads and in no order at all.  A counter keeps its times and *)
(* the amounts; regions and strings are kept as they come and are left to  *)
(* SessionStream.                                                          *)
(***************************************************************************)
EXTENDS Integers, Sequences, FiniteSets

CONSTANTS Sockets,    \* each call of connect makes a new one
          MaxTime,    \* bound: times are 0 .. MaxTime
          Amounts,    \* what is added to a counter
          MaxEvents,  \* bound: events of the program
          NULL

ASSUME ViewerAssumption == /\ MaxTime \in Nat /\ MaxEvents \in Nat
                           /\ Amounts \subseteq Int /\ NULL \notin Sockets

VARIABLES ws,       \* YsProtocol._ws
          socket,   \* the state of each WebSocket
          button,   \* the connect button: its text; disabled while connecting
          frames,   \* YsFrameSet._frames; by: the event that started a frame
          current,  \* YsFrameSet._current: an index into frames, or 0
          lastTick, \* YsState._lastTick
          data,     \* YsCounter._data of a counter
          accum,    \* YsCounter._accum
          clock,    \* the program: time of the last tick that was sent
          events,   \* history: events received
          added,    \* history: sum of the amounts received
          late      \* history: a socket's end was heard of after the next connect

connection == <<ws, socket, button, late>>
store == <<frames, current, lastTick, data, accum>>
program == <<clock, events, added>>
vars == <<connection, store, program>>

Times == 0 .. MaxTime

Init ==
  /\ ws = NULL /\ socket = [s \in Sockets |-> "new"] /\ button = "Connect"
  /\ frames = << >> /\ current = 0 /\ lastTick = 0 /\ data = << >> /\ accum = 0
  /\ clock = 0 /\ events = 0 /\ added = 0 /\ late = FALSE

-----------------------------------------------------------------------------
(* YsFrameSet *)

\* endFrame on the frames fs, whose current one is at c
EndFrame(fs, c, time) ==
  IF c = 0 THEN fs ELSE [fs EXCEPT ![c].length = time - fs[c].start]

\* for comparison: the frame before is not ended
StartFrameLeavesOpen(time, by) ==
  /\ frames' = Append(frames, [start |-> time, length |-> 0, by |-> by])
  /\ current' = Len(frames) + 1

\* startFrame
StartFrame(time, by) ==
  /\ frames' = Append(EndFrame(frames, current, time),
                      [start |-> time, length |-> 0, by |-> by])
  /\ current' = Len(frames) + 1

-----------------------------------------------------------------------------
(* YsCounter *)

\* for comparison: the value goes behind the last one, as if times were in order
InsertedAtEnd(values, v) == Append(values, v)

\* setValue: behind the last value that is not later, but never before the first
Inserted(values, v) ==
  LET places == {i \in 1 .. Len(values) : i = 1 \/ values[i].time <= v.time}
      at     == IF values = << >> THEN 0 ELSE CHOOSE i \in places : \A j \in places : i >= j
  IN  SubSeq(values, 1, at) \o <<v>> \o SubSeq(values, at + 1, Len(values))

\* findIndexByTime, of counters and of frames
FindIndex(keys, time) ==
  LET ranges == {r \in (0 .. Len(keys)) \X (0 .. Len(keys)) : r[1] + r[2] <= Len(keys)}
      search[r \in ranges] ==   \* r: <<start, count>>
        LET step == r[2] \div 2
            i    == r[1] + step
        IN  IF r[2] = 0 THEN r[1]
            ELSE IF keys[i + 1] < time THEN search[<<i + 1, r[2] - (step + 1)>>]
                 ELSE search[<<r[1], step>>]
  IN  search[<<0, Len(keys)>>]

-----------------------------------------------------------------------------
(* The connection *)

\* what YsState and index.html do when 'disconnect' is emitted
Disconnected ==
  /\ frames' = EndFrame(frames, current, lastTick)
  /\ current' = 0
  /\ button' = "Connect"
  /\ UNCHANGED <<lastTick, data, accum>>

\* for comparison: the socket is forgotten and left open
ClickDisconnectLeavesOpen ==
  /\ button # "Connecting..." /\ ws # NULL
  /\ ws' = NULL
  /\ Disconnected
  /\ UNCHANGED <<socket, program, late>>

\* the button, unless it is disabled: disconnect, or connect
ClickDisconnect ==
  /\ button # "Connecting..." /\ ws # NULL
  /\ socket' = [socket EXCEPT ![ws] = IF @ = "connecting" THEN "aborted" ELSE "closing"]
  /\ ws' = NULL
  /\ Disconnected
  /\ UNCHANGED <<program, late>>

ClickConnect(s) ==
  /\ button # "Connecting..." /\ ws = NULL /\ socket[s] = "new"
  /\ ws' = s
  /\ socket' = [socket EXCEPT ![s] = "connecting"]
  /\ button' = "Connecting..."
  /\ UNCHANGED <<store, program, late>>

\* onopen: 'connect'
OnOpen(s) ==
  /\ socket[s] = "connecting"
  /\ socket' = [socket EXCEPT ![s] = "open"]
  /\ button' = "Disconnect"
  /\ UNCHANGED <<ws, late, store, program>>

\* the handlers forget the socket, whichever it is
Forget(s) == /\ ws' = NULL
             /\ late' = (late \/ ws \notin {s, NULL})

\* onerror: 'error', which changes a text; a close event always follows
OnError(s) ==
  /\ socket[s] \in {"connecting", "aborted"}
  /\ socket' = [socket EXCEPT ![s] = "failed"]
  /\ Forget(s)
  /\ UNCHANGED <<button, store, program>>

\* for comparison: 'disconnect' is not emitted
OnCloseSilent(s) ==
  /\ socket[s] \in {"open", "live", "closing", "failed"}
  /\ socket' = [socket EXCEPT ![s] = "closed"]
  /\ Forget(s)
  /\ UNCHANGED <<button, store, program>>

\* onclose: 'disconnect', whether the program, an error or disconnect() is the cause
OnClose(s) ==
  /\ socket[s] \in {"open", "live", "closing", "failed"}
  /\ socket' = [socket EXCEPT ![s] = "closed"]
  /\ Forget(s)
  /\ Disconnected
  /\ UNCHANGED program

-----------------------------------------------------------------------------
(* handleEvent, for an event in a message of socket s *)

Message(s, state) == /\ socket[s] = state /\ events < MaxEvents
                     /\ events' = events + 1
                     /\ UNCHANGED <<ws, button, late>>

\* a session begins with its header, which starts a frame
Header(s, time) ==
  /\ Message(s, "open") /\ time >= clock
  /\ \A i \in DOMAIN frames : frames[i].by = "header" => frames[i].start <= time
  /\ socket' = [socket EXCEPT ![s] = "live"]
  /\ lastTick' = time
  /\ StartFrame(time, "header")
  /\ UNCHANGED <<data, accum, clock, added>>

\* for comparison: the counter's sum is not reset
TickKeepsSum(s, time) ==
  /\ Message(s, "live") /\ time >= clock
  /\ StartFrame(time, "tick")
  /\ data' = IF accum # 0 THEN Inserted(data, [time |-> time, sum |-> accum]) ELSE data
  /\ lastTick' = time /\ clock' = time
  /\ UNCHANGED <<socket, accum, added>>

\* tick: a new frame, and the counter's sum, if any, becomes a value
Tick(s, time) ==
  /\ Message(s, "live") /\ time >= clock
  /\ StartFrame(time, "tick")
  /\ data' = IF accum # 0 THEN Inserted(data, [time |-> time, sum |-> accum]) ELSE data
  /\ accum' = 0
  /\ lastTick' = time /\ clock' = time
  /\ UNCHANGED <<socket, added>>

\* counter_set, from any thread and so for any time
CounterSet(s, time) ==
  /\ Message(s, "live")
  /\ data' = Inserted(data, [time |-> time, sum |-> 0])
  /\ UNCHANGED <<socket, frames, current, lastTick, accum, clock, added>>

CounterAdd(s, amount) ==
  /\ Message(s, "live")
  /\ accum' = accum + amount
  /\ added' = added + amount
  /\ UNCHANGED <<socket, frames, current, lastTick, data, clock>>

-----------------------------------------------------------------------------
Browser(s) == OnOpen(s) \/ OnError(s) \/ OnClose(s)
Event(s) == \/ \E t \in Times : Header(s, t) \/ Tick(s, t) \/ CounterSet(s, t)
            \/ \E a \in Amounts : CounterAdd(s, a)

Next == \/ ClickDisconnect
        \/ \E s \in Sockets : ClickConnect(s) \/ Browser(s) \/ Event(s)

Spec == Init /\ [][Next]_vars

\* A connection attempt is answered, and an error is followed by a close.
FairSpec == Spec /\ \A s \in Sockets :
  WF_vars(socket[s] \notin {"open", "live"} /\ Browser(s))

-----------------------------------------------------------------------------
(* Properties *)

\* The button tells the truth, while no socket's end is heard of late: it says
\* "Disconnect" exactly while the socket that _ws holds is open, every other
\* socket is on its way out, and a press disconnects.
ButtonTrue ==
  ~late => /\ button = "Disconnect" <=> ws # NULL /\ socket[ws] \in {"open", "live"}
           /\ ws # NULL /\ socket[ws] = "connecting" => button = "Connecting..."
           /\ \A s \in Sockets : socket[s] \in {"connecting", "open", "live"} => s = ws

\* Frames that a tick started do not end before they start, and each frame of a
\* session begins where the one before it ends.
FramesTile ==
  ~late => /\ \A i \in DOMAIN frames : frames[i].by = "tick" => frames[i].length >= 0
           /\ \A i \in 2 .. Len(frames) : frames[i].by = "tick" =>
                frames[i - 1].start + frames[i - 1].length = frames[i].start

\* A chart that starts at a time leaves out only values before it and draws
\* none of them, the first value of a counter excepted.
ChartExact ==
  \A t \in Times :
    LET first == FindIndex([i \in DOMAIN data |-> data[i].time], t)
    IN  \A i \in 2 .. Len(data) : i > first <=> data[i].time >= t

\* No amount added to a counter is lost or counted twice, whatever ticks and
\* connections come in between.
Sums == LET sum[i \in 0 .. Len(data)] == IF i = 0 THEN 0 ELSE sum[i - 1] + data[i].sum
        IN  sum[Len(data)]
AmountsConserved == Sums + accum = added

\* A press of "Connect" is answered: the button does not stay disabled.
ButtonComesBack == button = "Connecting..." ~> button # "Connecting..."
=============================================================================
