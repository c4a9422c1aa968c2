---------------------------- MODULE GlobalState ----------------------------
(***************************************************************************)
(* The library's global state (src/src/GlobalState.cpp) with the threads   *)
(* that share it: controllers calling initialize, shutdown and listen_web, *)
(* emitters calling the emit functions and tick through their thread_local *)
(* ThreadState, and the background thread running ThreadMain.              *)
(*                                                                         *)
(* An emitter's queue has one producer and one consumer.  ConcurrentQueue  *)
(* is shown to be a bounded first-in first-out queue under that use, and   *)
(* here TryEnque and TryDeque are single steps of such a queue, taken at   *)
(* their stores to _sequence[slot].                                        *)
(*                                                                         *)
(* RegisterThread and DeregisterThread run under _threadsLock and touch    *)
(* only what that lock protects, so each is one step, possible while the   *)
(* lock is free.  The only holder over several steps is the background     *)
(* thread, walking the list in FlushThreads.                               *)
(*                                                                         *)
(* What the background thread calls in the sink may wait for a viewer:     *)
(* sends go to a blocking socket, and webby_frame asks WebbyRead for 1024  *)
(* bytes whatever the frame holds.  Nothing makes a viewer go on.          *)
(***************************************************************************)
EXTENDS Naturals, Sequences, FiniteSets

CONSTANTS Emitters,       \* threads, hence ThreadState objects
          Controllers,    \* threads calling Initialize, Shutdown, ListenWebsocket
          NULL,           \* nullptr; also: nobody holds the lock
          QueueCapacity,  \* 512, the size of ThreadState::_queue
          FlushBatch,     \* 512, count of ProcessThread
          MaxLive,        \* bound: ThreadStates existing at the same time
          MaxCalls        \* bound: calls of each controller

ASSUME NullAssumption  == NULL \notin Emitters \cup Controllers
ASSUME SizesAssumption == /\ QueueCapacity \in Nat \ {0} /\ FlushBatch \in Nat \ {0}
                          /\ MaxLive \in Nat /\ MaxCalls \in Nat

VARIABLES active,             \* _active
          stateLock,          \* the controller holding _stateLock, or NULL
          allocator,          \* _allocator != nullptr
          server,             \* _websocketSink._server != nullptr
          ready,              \* _signal._ready
          bgpc,               \* control point of the background thread
          cursor, count,      \* locals of FlushThreads and ProcessThread
          blocked,            \* its call into the sink waits for a viewer
          head, next, prev,   \* _threads and the links of the ThreadStates
          queue,              \* _queue of every ThreadState
          epc, event,         \* per emitter: control point, event to enqueue
          cpc, calls          \* per controller: control point, calls made

listVars == <<head, next, prev>>
bgVars   == <<bgpc, cursor, count, blocked>>
vars == <<active, stateLock, allocator, server, ready, bgVars, listVars,
          queue, epc, event, cpc, calls>>

\* An event is the one a property follows on its way, or any other.
Events == {"tracked", "other"}

Init ==
  /\ active = FALSE /\ stateLock = NULL /\ allocator = FALSE
  /\ server = FALSE /\ ready = FALSE
  /\ bgpc = "none" /\ cursor = NULL /\ count = 0 /\ blocked = FALSE
  /\ head = NULL
  /\ next = [e \in Emitters |-> NULL] /\ prev = [e \in Emitters |-> NULL]
  /\ queue = [e \in Emitters |-> << >>]
  /\ epc = [e \in Emitters |-> "unborn"] /\ event = [e \in Emitters |-> "other"]
  /\ cpc = [c \in Controllers |-> "idle"] /\ calls = [c \in Controllers |-> 0]

\* _backgroundThread.joinable()
Joinable == bgpc # "none"

\* notify_all: wakes the background thread if it sleeps in Wait
Notify == bgpc' = IF bgpc = "asleep" THEN "predicate" ELSE bgpc

-----------------------------------------------------------------------------
(* GlobalState::Initialize, Shutdown, ListenWebsocket *)

sharedWithEmitters == <<listVars, queue, epc, event>>

\* the unlocked early returns: AlreadyInitialized, InvalidParameter
InitializeCheck(c, hasAlloc) ==
  /\ cpc[c] = "idle" /\ calls[c] < MaxCalls
  /\ calls' = [calls EXCEPT ![c] = @ + 1]
  /\ cpc' = [cpc EXCEPT ![c] = IF active \/ ~hasAlloc THEN "idle" ELSE "initLock"]
  /\ UNCHANGED <<active, stateLock, allocator, server, ready, bgVars, sharedWithEmitters>>

\* LockGuard guard(_stateLock); _allocator = alloc; _active.store(true)
InitializeLocked(c) ==
  /\ cpc[c] = "initLock" /\ stateLock = NULL
  /\ stateLock' = c
  /\ allocator' = TRUE
  /\ active' = TRUE
  /\ cpc' = [cpc EXCEPT ![c] = "initStart"]
  /\ UNCHANGED <<server, ready, bgVars, calls, sharedWithEmitters>>

\* if (!_backgroundThread.joinable()) start it; unlock; return Success
InitializeStart(c) ==
  /\ cpc[c] = "initStart"
  /\ bgpc' = IF Joinable THEN bgpc ELSE "loop"
  /\ stateLock' = NULL
  /\ cpc' = [cpc EXCEPT ![c] = "idle"]
  /\ UNCHANGED <<active, allocator, server, ready, cursor, count, blocked, calls, sharedWithEmitters>>

\* LockGuard guard(_stateLock); return Uninitialized, or _active.store(false)
ShutdownLock(c) ==
  /\ cpc[c] = "idle" /\ calls[c] < MaxCalls /\ stateLock = NULL
  /\ calls' = [calls EXCEPT ![c] = @ + 1]
  /\ stateLock' = IF active THEN c ELSE NULL
  /\ active' = FALSE
  /\ cpc' = [cpc EXCEPT ![c] = IF active THEN "shutPost" ELSE "idle"]
  /\ UNCHANGED <<allocator, server, ready, bgVars, sharedWithEmitters>>

\* if (joinable()) _signal.Post(): _ready = 1 first, without the mutex
ShutdownPost(c) ==
  /\ cpc[c] = "shutPost"
  /\ IF Joinable
     THEN /\ ready' = TRUE
          /\ cpc' = [cpc EXCEPT ![c] = "shutNotify"]
          /\ UNCHANGED <<stateLock, allocator>>
     ELSE /\ allocator' = FALSE
          /\ stateLock' = NULL
          /\ cpc' = [cpc EXCEPT ![c] = "idle"]
          /\ UNCHANGED ready
  /\ UNCHANGED <<active, server, bgVars, calls, sharedWithEmitters>>

\* _cond.notify_all()
ShutdownNotify(c) ==
  /\ cpc[c] = "shutNotify"
  /\ Notify
  /\ cpc' = [cpc EXCEPT ![c] = "shutJoin"]
  /\ UNCHANGED <<active, stateLock, allocator, server, ready, cursor, count, blocked, calls,
                 sharedWithEmitters>>

\* Mutant: shutdown does not wait for the background thread
ShutdownDetach(c) ==
  /\ cpc[c] = "shutJoin"
  /\ allocator' = FALSE
  /\ stateLock' = NULL
  /\ cpc' = [cpc EXCEPT ![c] = "idle"]
  /\ UNCHANGED <<active, server, ready, bgVars, calls, sharedWithEmitters>>

\* _backgroundThread.join() returns; _allocator = nullptr; unlock; Success
ShutdownJoin(c) ==
  /\ cpc[c] = "shutJoin" /\ bgpc = "done"
  /\ bgpc' = "none"
  /\ allocator' = FALSE
  /\ stateLock' = NULL
  /\ cpc' = [cpc EXCEPT ![c] = "idle"]
  /\ UNCHANGED <<active, server, ready, cursor, count, blocked, calls, sharedWithEmitters>>

\* LockGuard guard(_stateLock); return Uninitialized, or Listen: Close() first
ListenLock(c) ==
  /\ cpc[c] = "idle" /\ calls[c] < MaxCalls /\ stateLock = NULL
  /\ calls' = [calls EXCEPT ![c] = @ + 1]
  /\ IF active
     THEN /\ stateLock' = c
          /\ server' = FALSE
          /\ cpc' = [cpc EXCEPT ![c] = "listen"]
     ELSE UNCHANGED <<stateLock, server, cpc>>
  /\ UNCHANGED <<active, allocator, ready, bgVars, sharedWithEmitters>>

\* the rest of Listen: Success, or NoMemory / Unknown without a server; unlock
ListenDone(c, ok) ==
  /\ cpc[c] = "listen"
  /\ server' = ok
  /\ stateLock' = NULL
  /\ cpc' = [cpc EXCEPT ![c] = "idle"]
  /\ UNCHANGED <<active, allocator, ready, bgVars, calls, sharedWithEmitters>>

-----------------------------------------------------------------------------
(* ThreadState and EmitEvent *)

sharedWithControllers == <<active, stateLock, allocator, server, cpc, calls>>

\* a ThreadState object exists
Live(e) == epc[e] \notin {"unborn", "dead"}

\* _threadsLock is free
ThreadsUnlocked == bgpc # "process"

\* Mutant: the new ThreadState is never made the head of the list
RegisterThreadUnlinked(e) ==
  /\ ~Live(e)
  /\ ThreadsUnlocked
  /\ Cardinality({d \in Emitters : Live(d)}) < MaxLive
  /\ epc' = [epc EXCEPT ![e] = "idle"]
  /\ next' = [next EXCEPT ![e] = head]
  /\ prev' = [prev EXCEPT ![e] = NULL]
  /\ UNCHANGED <<sharedWithControllers, ready, bgVars, head, queue, event>>

\* thread_instance() in a new thread: ThreadState(), RegisterThread; the
\* memory may be that of a ThreadState whose thread has ended
RegisterThread(e) ==
  /\ ~Live(e)
  /\ ThreadsUnlocked
  /\ Cardinality({d \in Emitters : Live(d)}) < MaxLive
  /\ epc' = [epc EXCEPT ![e] = "idle"]
  /\ next' = [d \in Emitters |-> IF d = head THEN e        \* _threads->_next = thread
                                 ELSE IF d = e THEN head   \* thread->_next = _threads
                                 ELSE next[d]]
  /\ prev' = [prev EXCEPT ![e] = NULL]
  /\ head' = e
  /\ UNCHANGED <<sharedWithControllers, ready, bgVars, queue, event>>

\* Mutant: the head of the list is forgotten
DeregisterThreadKeepsHead(e) ==
  /\ epc[e] = "idle"
  /\ ThreadsUnlocked
  /\ epc' = [epc EXCEPT ![e] = "dead"]
  /\ queue' = [queue EXCEPT ![e] = << >>]
  /\ UNCHANGED <<sharedWithControllers, ready, bgVars, listVars, event>>

\* ~ThreadState: the thread ends, events still queued are gone with it
DeregisterThread(e) ==
  /\ epc[e] = "idle"
  /\ ThreadsUnlocked
  /\ epc' = [epc EXCEPT ![e] = "dead"]
  /\ queue' = [queue EXCEPT ![e] = << >>]
  /\ prev' = [d \in Emitters |-> IF d = next[e] THEN prev[e] ELSE prev[d]]
  /\ next' = [d \in Emitters |-> IF d = prev[e] THEN next[e] ELSE next[d]]
  /\ head' = IF head = e THEN next'[e] ELSE head
  /\ UNCHANGED <<sharedWithControllers, ready, bgVars, event>>

\* an emit function or tick builds an event; at most one per queue is followed
EmitEvent(e, ev) ==
  /\ epc[e] = "idle"
  /\ ev = "tracked" => \A i \in 1 .. Len(queue[e]) : queue[e][i] # "tracked"
  /\ event' = [event EXCEPT ![e] = ev]
  /\ epc' = [epc EXCEPT ![e] = "check"]
  /\ UNCHANGED <<sharedWithControllers, ready, bgVars, listVars, queue>>

\* Mutant: the while loop does not ask again whether the library is active
IsActiveOnce(e) ==
  /\ epc[e] \in {"check", "recheck"}
  /\ epc' = [epc EXCEPT ![e] = IF epc[e] = "recheck" THEN "retry"
                               ELSE IF active THEN "try" ELSE "idle"]
  /\ UNCHANGED <<sharedWithControllers, ready, bgVars, listVars, queue, event>>

\* gs.IsActive(), in the if and in the while: return when shut down
IsActive(e) ==
  /\ epc[e] \in {"check", "recheck"}
  /\ epc' = [epc EXCEPT ![e] = IF ~active THEN "idle"
                               ELSE IF epc[e] = "check" THEN "try" ELSE "retry"]
  /\ UNCHANGED <<sharedWithControllers, ready, bgVars, listVars, queue, event>>

\* _queue.TryEnque(ev) in the if or the while
TryEnque(e) ==
  /\ epc[e] \in {"try", "retry"}
  /\ IF Len(queue[e]) < QueueCapacity
     THEN /\ queue' = [queue EXCEPT ![e] = Append(@, event[e])]
          /\ epc' = [epc EXCEPT ![e] = "idle"]
     ELSE /\ epc' = [epc EXCEPT ![e] = IF epc[e] = "try" THEN "post" ELSE "recheck"]
          /\ UNCHANGED queue
  /\ UNCHANGED <<sharedWithControllers, ready, bgVars, listVars, event>>

\* gs.SignalPost(), first half
EnquePost(e) ==
  /\ epc[e] = "post"
  /\ ready' = TRUE
  /\ epc' = [epc EXCEPT ![e] = "notify"]
  /\ UNCHANGED <<sharedWithControllers, bgVars, listVars, queue, event>>

\* gs.SignalPost(), second half
EnqueNotify(e) ==
  /\ epc[e] = "notify"
  /\ Notify
  /\ epc' = [epc EXCEPT ![e] = "recheck"]
  /\ UNCHANGED <<sharedWithControllers, ready, cursor, count, blocked, listVars, queue,
                 event>>

-----------------------------------------------------------------------------
(* GlobalState::ThreadMain *)

others == <<active, stateLock, allocator, server, listVars, epc, event, cpc, calls>>

\* while (_active.load())
MainLoop ==
  /\ bgpc = "loop"
  /\ bgpc' = IF active THEN "predicate" ELSE "done"
  /\ UNCHANGED <<others, ready, cursor, count, blocked, queue>>

\* Signal::Wait: the predicate is read before the thread is queued to sleep
WaitPredicate ==
  /\ bgpc = "predicate"
  /\ bgpc' = IF ready THEN "clear" ELSE "block"
  /\ UNCHANGED <<others, ready, cursor, count, blocked, queue>>

WaitBlock ==
  /\ bgpc = "block"
  /\ bgpc' = "asleep"
  /\ UNCHANGED <<others, ready, cursor, count, blocked, queue>>

\* Mutant: a wait without a time limit
WaitForever == FALSE /\ UNCHANGED vars

\* the 100 microseconds are over; a notification is Notify above
WaitTimeout ==
  /\ bgpc = "asleep"
  /\ bgpc' = "clear"
  /\ UNCHANGED <<others, ready, cursor, count, blocked, queue>>

\* _ready = false
WaitClear ==
  /\ bgpc = "clear"
  /\ ready' = FALSE
  /\ bgpc' = "flush"
  /\ UNCHANGED <<others, cursor, count, blocked, queue>>

\* FlushThreads moves to thread t: ProcessThread(t), or the end of the loop
\* and the unlock
GoTo(t) ==
  /\ cursor' = t
  /\ count' = IF t = NULL THEN 0 ELSE FlushBatch
  /\ bgpc' = IF t = NULL THEN "sink" ELSE "process"

\* FlushThreads: LockGuard guard(_threadsLock); thread = _threads
FlushThreads ==
  /\ bgpc = "flush"
  /\ GoTo(head)
  /\ UNCHANGED <<others, ready, blocked, queue>>

\* Mutant: ProcessThread without the count
ProcessUnlimited ==
  /\ bgpc = "process"
  /\ queue[cursor] # << >>
  /\ queue' = [queue EXCEPT ![cursor] = Tail(@)]
  /\ UNCHANGED <<others, ready, bgVars>>

\* a call into the sink: with a server it may have to wait, in WebbyRead for
\* bytes a viewer has not sent, or in a send to one that does not read
CallSink == blocked' \in IF server THEN BOOLEAN ELSE {FALSE}

\* the viewer sends or reads what the call waits for, or its connection fails
ViewerAnswers ==
  /\ blocked
  /\ blocked' = FALSE
  /\ UNCHANGED <<others, ready, bgpc, cursor, count, queue>>

\* ProcessThread: --count, Deque and WriteEvent, which sends a full buffer
ProcessEvent ==
  /\ bgpc = "process" /\ count > 1
  /\ queue[cursor] # << >>
  /\ count' = count - 1
  /\ queue' = [queue EXCEPT ![cursor] = Tail(@)]
  /\ CallSink
  /\ UNCHANGED <<others, ready, bgpc, cursor>>

\* ProcessThread returns; thread = thread->_next, which is anything once the
\* ThreadState is destroyed
ProcessDone(t) ==
  /\ bgpc = "process" /\ (count = 1 \/ queue[cursor] = << >>)
  /\ Live(cursor) => t = next[cursor]
  /\ GoTo(t)
  /\ UNCHANGED <<others, ready, blocked, queue>>

\* _websocketSink.Flush() and Update(); the loop goes on once they return
SinkPass ==
  /\ bgpc = "sink"
  /\ bgpc' = "loop"
  /\ CallSink
  /\ UNCHANGED <<others, ready, cursor, count, queue>>

-----------------------------------------------------------------------------
\* a controller inside a call, and one that makes a call
ControllerStep(c) ==
  \/ InitializeLocked(c) \/ InitializeStart(c)
  \/ ShutdownPost(c) \/ ShutdownNotify(c) \/ ShutdownJoin(c)
  \/ \E ok \in BOOLEAN : ListenDone(c, ok)
Call(c) == \/ \E hasAlloc \in BOOLEAN : InitializeCheck(c, hasAlloc)
           \/ ShutdownLock(c)
           \/ ListenLock(c)

\* an emitter inside Enque, and one that is created, emits or ends
EmitterStep(e) == IsActive(e) \/ TryEnque(e) \/ EnquePost(e) \/ EnqueNotify(e)
Emitter(e) == \/ RegisterThread(e) \/ DeregisterThread(e)
              \/ \E ev \in Events : EmitEvent(e, ev)

Background == /\ ~blocked
              /\ \/ MainLoop \/ WaitPredicate \/ WaitBlock \/ WaitTimeout \/ WaitClear
                 \/ FlushThreads \/ ProcessEvent
                 \/ \E t \in Emitters \cup {NULL} : ProcessDone(t)
                 \/ SinkPass

Next == \/ \E c \in Controllers : Call(c) \/ ControllerStep(c)
        \/ \E e \in Emitters : Emitter(e) \/ EmitterStep(e)
        \/ Background
        \/ ViewerAnswers

Spec == Init /\ [][Next]_vars

\* Threads inside the library keep running.  Nothing is assumed of a thread
\* outside of it, nor of one waiting for _threadsLock to come or go, nor of a
\* viewer that the background thread waits for.
Fairness == /\ WF_vars(Background)
            /\ \A e \in Emitters : WF_vars(EmitterStep(e))
            /\ \A c \in Controllers : WF_vars(ControllerStep(c))

FairSpec == Spec /\ Fairness
-----------------------------------------------------------------------------
(* Properties *)

BackgroundPoints == {"none", "loop", "predicate", "block", "asleep", "clear",
                     "flush", "process", "sink", "done"}
EmitterPoints    == {"unborn", "idle", "check", "try", "post", "notify", "recheck",
                     "retry", "dead"}
ControllerPoints == {"idle", "initLock", "initStart", "shutPost", "shutNotify",
                     "shutJoin", "listen"}

\* Type invariant: queues hold at most their capacity, the list holds
\* ThreadStates, the locals of the walk are in range.
TypeOK ==
  /\ active \in BOOLEAN /\ allocator \in BOOLEAN /\ server \in BOOLEAN /\ ready \in BOOLEAN
  /\ stateLock \in Controllers \cup {NULL}
  /\ bgpc \in BackgroundPoints
  /\ cursor \in Emitters \cup {NULL} /\ count \in 0 .. FlushBatch
  /\ blocked \in BOOLEAN
  /\ head \in Emitters \cup {NULL}
  /\ next \in [Emitters -> Emitters \cup {NULL}]
  /\ prev \in [Emitters -> Emitters \cup {NULL}]
  /\ queue \in [Emitters -> Seq(Events)]
  /\ \A e \in Emitters : Len(queue[e]) <= QueueCapacity
  /\ epc \in [Emitters -> EmitterPoints] /\ event \in [Emitters -> Events]
  /\ cpc \in [Controllers -> ControllerPoints] /\ calls \in [Controllers -> 0 .. MaxCalls]
  /\ bgpc = "process" => cursor # NULL /\ count > 0

\* Whenever no initialize, shutdown or listen_web is half way, the library is
\* in one of two states: running, with an allocator and one background thread
\* that has not left its loop, or stopped, with neither.  Any number of
\* initialize and shutdown calls may race.
LifecycleConsistent ==
  stateLock = NULL =>
    IF active THEN allocator /\ bgpc \notin {"none", "done"}
              ELSE ~allocator /\ bgpc = "none"

\* FlushThreads visits only ThreadStates that exist.
NoDanglingWalk == bgpc = "process" => Live(cursor)

\* No viewer keeps the background thread waiting for ever.  The code does not
\* see to that: what follows holds of viewers that answer.
ViewersAnswer == []<>~blocked

\* If viewers answer, the background thread leaves the walk of FlushThreads,
\* however fast the emitters refill their queues, and so comes back to the
\* network.
FlushEnds == ViewersAnswer => (bgpc = "process" ~> bgpc # "process")

\* Shutdown returns, whatever viewers do: it waits for nobody but the background
\* thread, which is to notice that the library is no longer active.
InShutdown(c) == cpc[c] \in {"shutPost", "shutNotify", "shutJoin"}
ShutdownAlwaysReturns == \A c \in Controllers : InShutdown(c) ~> ~InShutdown(c)

\* Shutdown returns if viewers answer.
ShutdownReturns == ViewersAnswer => ShutdownAlwaysReturns

\* Shutdown returns, at least while viewers answer and no emitting thread ends.
ShutdownReturnsWhileAllLive ==
  [](\A e \in Emitters : epc[e] # "dead") => ShutdownReturns

\* If viewers answer, Enque returns: a full queue is drained, or the shutdown
\* noticed.
InEnque(e) == epc[e] \notin {"unborn", "idle", "dead"}
EnqueReturns == ViewersAnswer => \A e \in Emitters : InEnque(e) ~> ~InEnque(e)

\* If viewers answer, an event accepted into a queue reaches the sink unless the
\* library is shut down or the emitting thread ends first.
Queued(e) == \E i \in 1 .. Len(queue[e]) : queue[e][i] = "tracked"
EventsFlushed ==
  ViewersAnswer => \A e \in Emitters : Queued(e) ~> ~Queued(e) \/ ~active

-----------------------------------------------------------------------------
(* The inductive invariant behind LifecycleConsistent: which controller    *)
(* holds _stateLock, and what it has done so far.                          *)

Holding(c) == cpc[c] \notin {"idle", "initLock"}

Holder(c) ==
  /\ Holding(c) <=> stateLock = c
  /\ cpc[c] = "initStart" => active /\ allocator /\ bgpc # "done"
  /\ InShutdown(c) => ~active /\ allocator /\ bgpc # "none"
  /\ cpc[c] = "listen" => active /\ allocator /\ bgpc \notin {"none", "done"}

\* The lifecycle invariant: see the comment above.
IInv == /\ TypeOK
        /\ \A c \in Controllers : Holder(c)
        /\ LifecycleConsistent
=============================================================================
