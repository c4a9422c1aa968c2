------------------------- MODULE GlobalStateProofs -------------------------
(***************************************************************************)
(* The lifecycle of the library, for any number of controllers and         *)
(* emitters, any queue size and any number of calls; and under which       *)
(* conditions the walk over the ThreadStates meets only ones that exist.   *)
(***************************************************************************)
EXTENDS GlobalState, TLAPS

\* The library starts stopped, with nobody inside a call.
LEMMA InitIInv == Init => IInv
<1> SUFFICES ASSUME Init PROVE IInv
  OBVIOUS
<1>1. TypeOK
  <2>1. << >> \in Seq(Events) /\ Len(<< >>) = 0 /\ Len(<< >>) <= QueueCapacity
    BY SizesAssumption
  <2>2. 0 \in 0 .. FlushBatch /\ 0 \in 0 .. MaxCalls
    BY SizesAssumption
  <2>3. queue \in [Emitters -> Seq(Events)] /\ \A e \in Emitters : Len(queue[e]) <= QueueCapacity
    BY <2>1 DEF Init
  <2> QED BY <2>2, <2>3 DEF Init, TypeOK, BackgroundPoints, EmitterPoints, ControllerPoints, Events
<1>2. \A c \in Controllers : Holder(c)
  BY NullAssumption DEF Init, Holder, Holding, InShutdown
<1> QED BY <1>1, <1>2 DEF Init, IInv, LifecycleConsistent

\* The types are kept by each party.
LEMMA ControllerTypeOK ==
  ASSUME TypeOK, NEW c \in Controllers, Call(c) \/ ControllerStep(c)
  PROVE  TypeOK'
<1> USE DEF TypeOK, BackgroundPoints, ControllerPoints, sharedWithEmitters, bgVars, listVars
<1>1. ASSUME NEW a \in BOOLEAN, InitializeCheck(c, a) PROVE TypeOK'
  BY <1>1, SizesAssumption DEF InitializeCheck
<1>2. CASE InitializeLocked(c)
  BY <1>2 DEF InitializeLocked
<1>3. CASE InitializeStart(c)
  BY <1>3 DEF InitializeStart, Joinable
<1>4. CASE ShutdownLock(c)
  <2>1. calls' \in [Controllers -> 0 .. MaxCalls]
    BY <1>4, SizesAssumption DEF ShutdownLock
  <2>2. cpc' \in [Controllers -> ControllerPoints] /\ stateLock' \in Controllers \cup {NULL}
    BY <1>4 DEF ShutdownLock
  <2> QED BY <1>4, <2>1, <2>2 DEF ShutdownLock
<1>5. CASE ShutdownPost(c)
  BY <1>5 DEF ShutdownPost
<1>6. CASE ShutdownNotify(c)
  BY <1>6 DEF ShutdownNotify, Notify
<1>7. CASE ShutdownJoin(c)
  BY <1>7 DEF ShutdownJoin
<1>8. CASE ListenLock(c)
  <2>1. calls' \in [Controllers -> 0 .. MaxCalls]
    BY <1>8, SizesAssumption DEF ListenLock
  <2>2. /\ cpc' \in [Controllers -> ControllerPoints] /\ stateLock' \in Controllers \cup {NULL}
        /\ server' \in BOOLEAN
    BY <1>8 DEF ListenLock
  <2> QED BY <1>8, <2>1, <2>2 DEF ListenLock
<1>9. ASSUME NEW ok \in BOOLEAN, ListenDone(c, ok) PROVE TypeOK'
  BY <1>9 DEF ListenDone
<1> QED BY <1>1, <1>2, <1>3, <1>4, <1>5, <1>6, <1>7, <1>8, <1>9 DEF Call, ControllerStep

\* The same for ThreadState and EmitEvent.
LEMMA EmitterTypeOK ==
  ASSUME TypeOK, NEW e \in Emitters, Emitter(e) \/ EmitterStep(e)
  PROVE  TypeOK'
<1> USE DEF TypeOK, BackgroundPoints, EmitterPoints, sharedWithControllers, bgVars, listVars
<1>1. CASE RegisterThread(e)
  BY <1>1 DEF RegisterThread
<1>2. CASE DeregisterThread(e)
  BY <1>2, SizesAssumption DEF DeregisterThread
<1>3. ASSUME NEW ev \in Events, EmitEvent(e, ev) PROVE TypeOK'
  BY <1>3 DEF EmitEvent
<1>4. CASE IsActive(e)
  BY <1>4 DEF IsActive
<1>5. CASE TryEnque(e)
  <2>1. epc' \in [Emitters -> EmitterPoints]
    BY <1>5 DEF TryEnque
  <2>2. /\ queue' \in [Emitters -> Seq(Events)]
        /\ \A d \in Emitters : Len(queue'[d]) <= QueueCapacity
    <3>1. CASE Len(queue[e]) < QueueCapacity
      <4>1. /\ Append(queue[e], event[e]) \in Seq(Events)
            /\ Len(Append(queue[e], event[e])) <= QueueCapacity
        BY <3>1, SizesAssumption
      <4> QED BY <1>5, <3>1, <4>1 DEF TryEnque
    <3>2. CASE ~(Len(queue[e]) < QueueCapacity)
      BY <1>5, <3>2 DEF TryEnque
    <3> QED BY <3>1, <3>2
  <2> QED BY <1>5, <2>1, <2>2 DEF TryEnque
<1>6. CASE EnquePost(e)
  BY <1>6 DEF EnquePost
<1>7. CASE EnqueNotify(e)
  BY <1>7 DEF EnqueNotify, Notify
<1> QED BY <1>1, <1>2, <1>3, <1>4, <1>5, <1>6, <1>7 DEF Emitter, EmitterStep

\* The same for ThreadMain.
LEMMA BackgroundTypeOK ==
  ASSUME TypeOK, Background
  PROVE  TypeOK'
<1>0. CallSink => blocked' \in BOOLEAN
  BY DEF CallSink, TypeOK
<1> USE DEF TypeOK, BackgroundPoints, others, listVars
<1>1. CASE MainLoop \/ WaitPredicate \/ WaitBlock \/ WaitTimeout \/ WaitClear \/ SinkPass
  BY <1>0, <1>1 DEF MainLoop, WaitPredicate, WaitBlock, WaitTimeout, WaitClear, SinkPass
<1>2. CASE FlushThreads
  BY <1>2, SizesAssumption DEF FlushThreads, GoTo
<1>3. CASE ProcessEvent
  <2>1. queue' \in [Emitters -> Seq(Events)] /\ \A e \in Emitters : Len(queue'[e]) <= QueueCapacity
    BY <1>3, SizesAssumption DEF ProcessEvent
  <2>2. count' \in 0 .. FlushBatch /\ count' > 0
    BY <1>3, SizesAssumption DEF ProcessEvent
  <2> QED BY <1>0, <1>3, <2>1, <2>2 DEF ProcessEvent
<1>4. ASSUME NEW t \in Emitters \cup {NULL}, ProcessDone(t) PROVE TypeOK'
  BY <1>4, SizesAssumption DEF ProcessDone, GoTo
<1> QED BY <1>1, <1>2, <1>3, <1>4 DEF Background

\* A viewer that answers changes nothing else.
LEMMA ViewerIInv == ASSUME IInv, ViewerAnswers PROVE IInv'
  BY DEF ViewerAnswers, others, listVars, IInv, TypeOK, Holder, Holding, InShutdown,
         LifecycleConsistent

\* One controller at a time is inside a locked section; it alone moves the
\* library from one stable state to the other.
LEMMA ControllerLifecycle ==
  ASSUME IInv, NEW c \in Controllers, Call(c) \/ ControllerStep(c)
  PROVE  (\A d \in Controllers : Holder(d))' /\ LifecycleConsistent'
<1> USE NullAssumption
    DEF IInv, TypeOK, Holder, Holding, InShutdown, LifecycleConsistent, bgVars
<1>1. ASSUME NEW a \in BOOLEAN, InitializeCheck(c, a)
      PROVE  (\A d \in Controllers : Holder(d))' /\ LifecycleConsistent'
  BY <1>1 DEF InitializeCheck
<1>2. CASE InitializeLocked(c)
  BY <1>2 DEF InitializeLocked
<1>3. CASE InitializeStart(c)
  BY <1>3 DEF InitializeStart, Joinable
<1>4. CASE ShutdownLock(c)
  BY <1>4 DEF ShutdownLock
<1>5. CASE ShutdownPost(c)
  BY <1>5 DEF ShutdownPost, Joinable
<1>6. CASE ShutdownNotify(c)
  BY <1>6 DEF ShutdownNotify, Notify
<1>7. CASE ShutdownJoin(c)
  BY <1>7 DEF ShutdownJoin
<1>8. CASE ListenLock(c)
  BY <1>8 DEF ListenLock
<1>9. ASSUME NEW ok \in BOOLEAN, ListenDone(c, ok)
      PROVE  (\A d \in Controllers : Holder(d))' /\ LifecycleConsistent'
  BY <1>9 DEF ListenDone
<1> QED BY <1>1, <1>2, <1>3, <1>4, <1>5, <1>6, <1>7, <1>8, <1>9 DEF Call, ControllerStep

\* Emitters touch none of it, except to wake the background thread.
LEMMA EmitterLifecycle ==
  ASSUME IInv, NEW e \in Emitters, Emitter(e) \/ EmitterStep(e)
  PROVE  (\A d \in Controllers : Holder(d))' /\ LifecycleConsistent'
<1>1. /\ UNCHANGED <<active, stateLock, allocator, cpc>>
      /\ bgpc' = bgpc \/ (bgpc = "asleep" /\ bgpc' = "predicate")
  BY DEF Emitter, EmitterStep, RegisterThread, DeregisterThread, EmitEvent, IsActive,
         TryEnque, EnquePost, EnqueNotify, Notify, sharedWithControllers, bgVars
<1> QED BY <1>1 DEF IInv, Holder, Holding, InShutdown, LifecycleConsistent

\* The background thread ends only when it sees the library inactive, which
\* it can only while a shutdown waits for it.
LEMMA BackgroundLifecycle ==
  ASSUME IInv, Background
  PROVE  (\A d \in Controllers : Holder(d))' /\ LifecycleConsistent'
<1>1. /\ UNCHANGED <<active, stateLock, allocator, cpc>>
      /\ bgpc \notin {"none", "done"} /\ bgpc' # "none"
      /\ bgpc' = "done" => ~active
  BY DEF Background, MainLoop, WaitPredicate, WaitBlock, WaitTimeout, WaitClear,
         FlushThreads, ProcessEvent, ProcessDone, GoTo, SinkPass, others
<1> QED BY <1>1 DEF IInv, Holder, Holding, InShutdown, LifecycleConsistent

\* Every step of every thread keeps the lifecycle invariant.
LEMMA NextIInv == IInv /\ [Next]_vars => IInv'
<1> SUFFICES ASSUME IInv, [Next]_vars PROVE IInv'
  OBVIOUS
<1>1. ASSUME NEW c \in Controllers, Call(c) \/ ControllerStep(c) PROVE IInv'
  BY <1>1, ControllerTypeOK, ControllerLifecycle DEF IInv
<1>2. ASSUME NEW e \in Emitters, Emitter(e) \/ EmitterStep(e) PROVE IInv'
  BY <1>2, EmitterTypeOK, EmitterLifecycle DEF IInv
<1>3. CASE Background
  BY <1>3, BackgroundTypeOK, BackgroundLifecycle DEF IInv
<1>4. CASE UNCHANGED vars
  BY <1>4 DEF vars, bgVars, listVars, IInv, TypeOK, Holder, Holding, InShutdown,
              LifecycleConsistent
<1> QED BY <1>1, <1>2, <1>3, <1>4, ViewerIInv DEF Next

\* The state keeps its types, and the controller that holds _stateLock has
\* left the library in the state its progress says.
THEOREM Invariance == Spec => []IInv
<1> QED BY InitIInv, NextIInv, PTL DEF Spec

\* However initialize, shutdown and listen_web race, the library is always
\* either running with one background thread or stopped with none.
THEOREM Lifecycle == Spec => []LifecycleConsistent
<1>1. IInv => LifecycleConsistent
  BY DEF IInv
<1> QED BY <1>1, Invariance, PTL

-----------------------------------------------------------------------------
(* The walk of FlushThreads                                                *)

\* The steps that change what the walk reads, and what the others leave alone.
LEMMA WalkCases ==
  ASSUME [Next]_vars
  PROVE  \/ \E e \in Emitters : RegisterThread(e) \/ DeregisterThread(e)
         \/ FlushThreads
         \/ \E t \in Emitters \cup {NULL} : ProcessDone(t)
         \/ /\ UNCHANGED <<head, next>>
            /\ bgpc' = "process" => bgpc = "process" /\ cursor' = cursor
            /\ \A e \in Emitters : Live(e)' <=> Live(e)
<1> DEFINE Same == /\ UNCHANGED <<head, next>>
                   /\ bgpc' = "process" => bgpc = "process" /\ cursor' = cursor
                   /\ \A e \in Emitters : Live(e)' <=> Live(e)
<1>1. CASE UNCHANGED vars
  BY <1>1 DEF vars, bgVars, listVars, Live
<1>2. ASSUME NEW c \in Controllers, Call(c) \/ ControllerStep(c) PROVE Same
  BY <1>2 DEF Call, ControllerStep, InitializeCheck, InitializeLocked, InitializeStart,
              ShutdownLock, ShutdownPost, ShutdownNotify, ShutdownJoin, ListenLock, ListenDone,
              Notify, sharedWithEmitters, bgVars, listVars, Live
<1>3. ASSUME NEW e \in Emitters, (\E ev \in Events : EmitEvent(e, ev)) \/ EmitterStep(e)
      PROVE  Same
  <2>1. /\ UNCHANGED <<head, next>>
        /\ bgpc' = "process" => bgpc = "process" /\ cursor' = cursor
    BY <1>3 DEF EmitterStep, EmitEvent, IsActive, TryEnque, EnquePost, EnqueNotify, Notify,
                bgVars, listVars
  <2>2. \A d \in Emitters : Live(d)' <=> Live(d)
    <3>1. PICK x : epc' = [epc EXCEPT ![e] = x] /\ x \notin {"unborn", "dead"} /\ Live(e)
      BY <1>3 DEF EmitterStep, EmitEvent, IsActive, TryEnque, EnquePost, EnqueNotify, Live
    <3> QED BY <3>1 DEF Live
  <2> QED BY <2>1, <2>2
<1>4. CASE \/ MainLoop \/ WaitPredicate \/ WaitBlock \/ WaitTimeout \/ WaitClear
           \/ ProcessEvent \/ SinkPass \/ ViewerAnswers
  BY <1>4 DEF MainLoop, WaitPredicate, WaitBlock, WaitTimeout, WaitClear, ProcessEvent, SinkPass,
              ViewerAnswers, others, listVars, Live
<1> QED BY <1>1, <1>2, <1>3, <1>4 DEF Next, Emitter, Background

\* While no thread has ended, every pointer the walk can follow leads to a
\* ThreadState that exists.
LiveLinks ==
  /\ head # NULL => Live(head)
  /\ \A e \in Emitters : Live(e) /\ next[e] # NULL => Live(next[e])
  /\ NoDanglingWalk

\* No thread has ended.
NoneDead == \A e \in Emitters : epc[e] # "dead"

\* A new ThreadState and the old head then point at each other, and nowhere
\* else.
LEMMA NextLiveLinks ==
  ASSUME TypeOK, LiveLinks, NoneDead, NoneDead', [Next]_vars
  PROVE  LiveLinks'
<1>0. /\ head \in Emitters \cup {NULL} /\ next \in [Emitters -> Emitters \cup {NULL}]
      /\ epc \in [Emitters -> EmitterPoints] /\ (bgpc = "process" => cursor \in Emitters)
      /\ NULL \notin Emitters
  BY NullAssumption DEF TypeOK
<1>1. ASSUME NEW e \in Emitters, RegisterThread(e) PROVE LiveLinks'
  <2>1. /\ bgpc' = bgpc /\ cursor' = cursor /\ bgpc # "process" /\ head' = e
        /\ \A d \in Emitters : next'[d] = IF d = head THEN e ELSE IF d = e THEN head ELSE next[d]
        /\ \A d \in Emitters : Live(d)' <=> Live(d) \/ d = e
    BY <1>0, <1>1 DEF RegisterThread, ThreadsUnlocked, bgVars, Live
  <2> QED BY <1>0, <2>1 DEF LiveLinks, NoDanglingWalk
<1>2. ASSUME NEW e \in Emitters, DeregisterThread(e) PROVE FALSE
  BY <1>0, <1>2 DEF DeregisterThread, NoneDead
<1>3. CASE FlushThreads
  <2>1. UNCHANGED <<head, next, epc>> /\ (bgpc' = "process" => cursor' = head /\ head # NULL)
    BY <1>3 DEF FlushThreads, GoTo, others, listVars
  <2> QED BY <1>0, <2>1 DEF LiveLinks, NoDanglingWalk, Live
<1>4. ASSUME NEW t \in Emitters \cup {NULL}, ProcessDone(t) PROVE LiveLinks'
  <2>1. /\ UNCHANGED <<head, next, epc>> /\ (bgpc' = "process" => cursor' = t /\ t # NULL)
        /\ bgpc = "process" /\ (Live(cursor) => t = next[cursor])
    BY <1>4 DEF ProcessDone, GoTo, others, listVars
  <2> QED BY <1>0, <2>1 DEF LiveLinks, NoDanglingWalk, Live
<1>5. CASE /\ UNCHANGED <<head, next>>
           /\ bgpc' = "process" => bgpc = "process" /\ cursor' = cursor
           /\ \A e \in Emitters : Live(e)' <=> Live(e)
  BY <1>0, <1>5 DEF LiveLinks, NoDanglingWalk
<1> QED BY <1>1, <1>2, <1>3, <1>4, <1>5, WalkCases

\* For any number of threads: the walk meets only ThreadStates that exist as
\* long as none is destroyed.
THEOREM WalkWhileAllLive == Spec /\ []NoneDead => []NoDanglingWalk
<1>1. Init => LiveLinks
  BY DEF Init, LiveLinks, NoDanglingWalk, Live
<1>2. IInv /\ LiveLinks /\ NoneDead /\ NoneDead' /\ [Next]_vars => LiveLinks'
  BY NextLiveLinks DEF IInv
<1>3. LiveLinks => NoDanglingWalk
  BY DEF LiveLinks
<1> QED BY <1>1, <1>2, <1>3, Invariance, PTL DEF Spec

\* At most one ThreadState exists.
AtMostOne == \A d, e \in Emitters : Live(d) /\ Live(e) => d = e

\* The list holds the only ThreadState there is and nothing else, and the walk
\* is at it.
Alone ==
  /\ head # NULL => Live(head)
  /\ \A e \in Emitters : Live(e) => head = e /\ next[e] = NULL
  /\ NoDanglingWalk

\* The lock keeps a ThreadState in the list while the walk is at it, and its
\* destructor leaves the list empty.
LEMMA NextAlone ==
  ASSUME TypeOK, Alone, AtMostOne', [Next]_vars
  PROVE  Alone'
<1>0. /\ head \in Emitters \cup {NULL} /\ next \in [Emitters -> Emitters \cup {NULL}]
      /\ epc \in [Emitters -> EmitterPoints] /\ (bgpc = "process" => cursor \in Emitters)
      /\ NULL \notin Emitters
  BY NullAssumption DEF TypeOK
<1>1. ASSUME NEW e \in Emitters, RegisterThread(e) PROVE Alone'
  <2>1. /\ bgpc' = bgpc /\ cursor' = cursor /\ bgpc # "process" /\ head' = e /\ ~Live(e)
        /\ \A d \in Emitters : next'[d] = IF d = head THEN e ELSE IF d = e THEN head ELSE next[d]
        /\ \A d \in Emitters : Live(d)' <=> Live(d) \/ d = e
    BY <1>0, <1>1 DEF RegisterThread, ThreadsUnlocked, bgVars, Live
  <2>2. \A d \in Emitters : ~Live(d)
    BY <2>1 DEF AtMostOne
  <2>3. head = NULL
    BY <1>0, <2>2 DEF Alone
  <2> QED BY <1>0, <2>1, <2>2, <2>3 DEF Alone, NoDanglingWalk
<1>2. ASSUME NEW e \in Emitters, DeregisterThread(e) PROVE Alone'
  <2>1. head = e /\ next[e] = NULL
    BY <1>0, <1>2 DEF DeregisterThread, Alone, Live
  <2>2. /\ bgpc' = bgpc /\ bgpc # "process" /\ head' = NULL
        /\ \A d \in Emitters : Live(d)' <=> Live(d) /\ d # e
    BY <1>0, <1>2, <2>1 DEF DeregisterThread, ThreadsUnlocked, bgVars, Live
  <2> QED BY <1>0, <2>1, <2>2 DEF Alone, NoDanglingWalk
<1>3. CASE FlushThreads
  <2>1. UNCHANGED <<head, next, epc>> /\ (bgpc' = "process" => cursor' = head /\ head # NULL)
    BY <1>3 DEF FlushThreads, GoTo, others, listVars
  <2> QED BY <1>0, <2>1 DEF Alone, NoDanglingWalk, Live
<1>4. ASSUME NEW t \in Emitters \cup {NULL}, ProcessDone(t) PROVE Alone'
  <2>1. /\ UNCHANGED <<head, next, epc>> /\ (bgpc' = "process" => cursor' = t /\ t # NULL)
        /\ bgpc = "process" /\ (Live(cursor) => t = next[cursor])
    BY <1>4 DEF ProcessDone, GoTo, others, listVars
  <2>2. t = NULL
    BY <1>0, <2>1 DEF Alone, NoDanglingWalk
  <2> QED BY <1>0, <2>1, <2>2 DEF Alone, NoDanglingWalk, Live
<1>5. CASE /\ UNCHANGED <<head, next>>
           /\ bgpc' = "process" => bgpc = "process" /\ cursor' = cursor
           /\ \A e \in Emitters : Live(e)' <=> Live(e)
  BY <1>0, <1>5 DEF Alone, NoDanglingWalk
<1> QED BY <1>1, <1>2, <1>3, <1>4, <1>5, WalkCases

\* Threads that emit one after the other, each gone before the next comes, are
\* safe from the walk, although each of them is destroyed.
THEOREM WalkAlone == Spec /\ []AtMostOne => []NoDanglingWalk
<1>1. Init => Alone
  BY DEF Init, Alone, NoDanglingWalk, Live
<1>2. IInv /\ Alone /\ AtMostOne' /\ [Next]_vars => Alone'
  BY NextAlone DEF IInv
<1>3. Alone => NoDanglingWalk
  BY DEF Alone
<1> QED BY <1>1, <1>2, <1>3, Invariance, PTL DEF Spec
=============================================================================
