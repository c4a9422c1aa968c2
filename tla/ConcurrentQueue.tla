-------------------------- MODULE ConcurrentQueue --------------------------
(***************************************************************************)
(* The bounded lock-free queue of src/src/ConcurrentQueue.h, one action    *)
(* per shared-memory access.                                               *)
(*                                                                         *)
(* Tickets.  The code numbers operations with std::uint32_t counters that  *)
(* wrap.  Here enque, deque, sequence and the local targets hold the       *)
(* unwrapped number (the ticket), and every place where the code compares  *)
(* two of them compares them modulo Modulus = 2^32: Delta is the signed    *)
(* difference the code computes, SameWord the test of compare_exchange.    *)
(* Adding a constant commutes with wrapping, and BufferSize divides        *)
(* Modulus, so the slot of a ticket is the slot of its word: the model and *)
(* the machine words move in lock step, across any number of wraps.        *)
(***************************************************************************)
EXTENDS Integers, Sequences

CONSTANTS Producers,    \* threads calling TryEnque / Enque
          Consumers,    \* threads calling TryDeque
          Values,       \* what the queue carries
          BufferSize,   \* kBufferSize
          Modulus,      \* 2^32, the range of the counters
          MaxTickets,   \* bound: no new enqueue starts beyond this ticket
          NoValue       \* content of a slot or output never written

ASSUME SizeAssumption    == BufferSize \in Nat /\ BufferSize >= 2
ASSUME ModulusAssumption == /\ Modulus \in Nat
                            /\ Modulus % 2 = 0
                            /\ Modulus % BufferSize = 0
                            /\ Modulus > 2 * BufferSize
ASSUME BoundAssumption   == MaxTickets \in Nat
ASSUME ValueAssumption   == NoValue \notin Values

VARIABLES sequence,   \* _sequence[kBufferSize]
          enque,      \* _enque
          deque,      \* _deque
          buffer,     \* _buffer[kBufferSize]
          ppc, ptgt, arg,   \* per producer: control point, target, value
          cpc, ctgt, out,   \* per consumer: control point, target, out
          log         \* history: the value of every ticket claimed so far

vars == <<sequence, enque, deque, buffer, ppc, ptgt, arg, cpc, ctgt, out, log>>

Slots == 0 .. BufferSize - 1

\* target & kBufferMask
Slot(t) == t % BufferSize

\* std::int32_t delta = a - b: the difference as a signed machine word
Delta(a, b) == LET w == (a - b) % Modulus
               IN  IF w < Modulus \div 2 THEN w ELSE w - Modulus

\* the comparison made by compare_exchange
SameWord(a, b) == (a - b) % Modulus = 0

\* Mutant: all slots start at 0
InitNoStagger ==
  /\ sequence = [i \in Slots |-> 0]
  /\ enque = 0 /\ deque = 0
  /\ buffer = [i \in Slots |-> NoValue]
  /\ ppc = [p \in Producers |-> "idle"]
  /\ ptgt = [p \in Producers |-> 0]
  /\ arg = [p \in Producers |-> NoValue]
  /\ cpc = [c \in Consumers |-> "idle"]
  /\ ctgt = [c \in Consumers |-> 0]
  /\ out = [c \in Consumers |-> NoValue]
  /\ log = << >>

\* ConcurrentQueue(): counters at 0, slot i ready for ticket i
Init ==
  /\ sequence = [i \in Slots |-> i]
  /\ enque = 0 /\ deque = 0
  /\ buffer = [i \in Slots |-> NoValue]
  /\ ppc = [p \in Producers |-> "idle"]
  /\ ptgt = [p \in Producers |-> 0]
  /\ arg = [p \in Producers |-> NoValue]
  /\ cpc = [c \in Consumers |-> "idle"]
  /\ ctgt = [c \in Consumers |-> 0]
  /\ out = [c \in Consumers |-> NoValue]
  /\ log = << >>

-----------------------------------------------------------------------------
(* TryEnque, and the loop of Enque around it *)

consumerVars == <<cpc, ctgt, out>>

StartEnque(p, v) ==
  /\ ppc[p] = "idle"
  /\ enque < MaxTickets
  /\ ppc' = [ppc EXCEPT ![p] = "load"]
  /\ arg' = [arg EXCEPT ![p] = v]
  /\ UNCHANGED <<sequence, enque, deque, buffer, ptgt, consumerVars, log>>

\* target = _enque.load()
EnqueLoad(p) ==
  /\ ppc[p] = "load"
  /\ ptgt' = [ptgt EXCEPT ![p] = enque]
  /\ ppc' = [ppc EXCEPT ![p] = "check"]
  /\ UNCHANGED <<sequence, enque, deque, buffer, arg, consumerVars, log>>

\* Mutant: the slot is never looked at
EnqueCheckIgnoresFull(p) ==
  /\ ppc[p] = "check"
  /\ ppc' = [ppc EXCEPT ![p] = "claim"]
  /\ UNCHANGED <<sequence, enque, deque, buffer, ptgt, arg, consumerVars, log>>

\* Mutant: a ticket that another producer took counts as a full queue
EnqueCheckLostIsFull(p) ==
  /\ ppc[p] = "check"
  /\ LET delta == Delta(sequence[Slot(ptgt[p])], ptgt[p])
     IN  ppc' = [ppc EXCEPT ![p] = IF delta = 0 THEN "claim" ELSE "refused"]
  /\ UNCHANGED <<sequence, enque, deque, buffer, ptgt, arg, consumerVars, log>>

\* id = _sequence[slot].load(); the branches on delta touch only locals
EnqueCheck(p) ==
  /\ ppc[p] = "check"
  /\ LET delta == Delta(sequence[Slot(ptgt[p])], ptgt[p])
     IN  ppc' = [ppc EXCEPT ![p] = IF delta = 0 THEN "claim"
                                   ELSE IF delta < 0 THEN "refused"
                                   ELSE "load"]
  /\ UNCHANGED <<sequence, enque, deque, buffer, ptgt, arg, consumerVars, log>>

\* Mutant: a plain store instead of compare_exchange
EnqueClaimByStore(p) ==
  /\ ppc[p] = "claim"
  /\ enque' = ptgt[p] + 1
  /\ log' = Append(log, arg[p])
  /\ ppc' = [ppc EXCEPT ![p] = "write"]
  /\ UNCHANGED <<sequence, deque, buffer, ptgt, arg, consumerVars>>

\* _enque.compare_exchange_weak(target, target + 1) succeeds
EnqueClaim(p) ==
  /\ ppc[p] = "claim"
  /\ SameWord(enque, ptgt[p])
  /\ enque' = enque + 1
  /\ log' = Append(log, arg[p])
  /\ ppc' = [ppc EXCEPT ![p] = "write"]
  /\ UNCHANGED <<sequence, deque, buffer, ptgt, arg, consumerVars>>

\* ... or fails: another producer was faster, or spuriously (weak form)
EnqueClaimFails(p) ==
  /\ ppc[p] = "claim"
  /\ ppc' = [ppc EXCEPT ![p] = "load"]
  /\ UNCHANGED <<sequence, enque, deque, buffer, ptgt, arg, consumerVars, log>>

\* _buffer[slot] = value
EnqueWrite(p) ==
  /\ ppc[p] = "write"
  /\ buffer' = [buffer EXCEPT ![Slot(ptgt[p])] = arg[p]]
  /\ ppc' = [ppc EXCEPT ![p] = "publish"]
  /\ UNCHANGED <<sequence, enque, deque, ptgt, arg, consumerVars, log>>

\* Mutant: the + 1 of the published number is missing
EnquePublishSameNumber(p) ==
  /\ ppc[p] = "publish"
  /\ ppc' = [ppc EXCEPT ![p] = "idle"]
  /\ UNCHANGED <<sequence, enque, deque, buffer, ptgt, arg, consumerVars, log>>

\* _sequence[slot].store(target + 1); return true
EnquePublish(p) ==
  /\ ppc[p] = "publish"
  /\ sequence' = [sequence EXCEPT ![Slot(ptgt[p])] = ptgt[p] + 1]
  /\ ppc' = [ppc EXCEPT ![p] = "idle"]
  /\ UNCHANGED <<enque, deque, buffer, ptgt, arg, consumerVars, log>>

\* return false from TryEnque to a caller that gives up ...
EnqueGiveUp(p) ==
  /\ ppc[p] = "refused"
  /\ ppc' = [ppc EXCEPT ![p] = "idle"]
  /\ UNCHANGED <<sequence, enque, deque, buffer, ptgt, arg, consumerVars, log>>

\* ... or to a caller that loops: Enque, and ThreadState::Enque
EnqueRetry(p) ==
  /\ ppc[p] = "refused"
  /\ ppc' = [ppc EXCEPT ![p] = "load"]
  /\ UNCHANGED <<sequence, enque, deque, buffer, ptgt, arg, consumerVars, log>>

-----------------------------------------------------------------------------
(* TryDeque *)

producerVars == <<ppc, ptgt, arg>>

\* target = _deque.load()
DequeLoad(c) ==
  /\ cpc[c] \in {"idle", "load"}
  /\ ctgt' = [ctgt EXCEPT ![c] = deque]
  /\ cpc' = [cpc EXCEPT ![c] = "check"]
  /\ UNCHANGED <<sequence, enque, deque, buffer, producerVars, out, log>>

\* id = _sequence[slot].load(); delta < 0 returns false: nothing to take
DequeCheck(c) ==
  /\ cpc[c] = "check"
  /\ LET delta == Delta(sequence[Slot(ctgt[c])], ctgt[c] + 1)
     IN  cpc' = [cpc EXCEPT ![c] = IF delta = 0 THEN "claim"
                                   ELSE IF delta < 0 THEN "idle"
                                   ELSE "load"]
  /\ UNCHANGED <<sequence, enque, deque, buffer, producerVars, ctgt, out, log>>

\* _deque.compare_exchange_weak(target, target + 1) succeeds
DequeClaim(c) ==
  /\ cpc[c] = "claim"
  /\ SameWord(deque, ctgt[c])
  /\ deque' = deque + 1
  /\ cpc' = [cpc EXCEPT ![c] = "read"]
  /\ UNCHANGED <<sequence, enque, buffer, producerVars, ctgt, out, log>>

\* ... or fails, possibly spuriously
DequeClaimFails(c) ==
  /\ cpc[c] = "claim"
  /\ cpc' = [cpc EXCEPT ![c] = "load"]
  /\ UNCHANGED <<sequence, enque, deque, buffer, producerVars, ctgt, out, log>>

\* Mutant: the slot is computed from _deque again instead of the target
DequeReadReloads(c) ==
  /\ cpc[c] = "read"
  /\ out' = [out EXCEPT ![c] = buffer[Slot(deque)]]
  /\ cpc' = [cpc EXCEPT ![c] = "release"]
  /\ UNCHANGED <<sequence, enque, deque, buffer, producerVars, ctgt, log>>

\* out = _buffer[slot]
DequeRead(c) ==
  /\ cpc[c] = "read"
  /\ out' = [out EXCEPT ![c] = buffer[Slot(ctgt[c])]]
  /\ cpc' = [cpc EXCEPT ![c] = "release"]
  /\ UNCHANGED <<sequence, enque, deque, buffer, producerVars, ctgt, log>>

\* _sequence[slot].store(target + kBufferMask + 1); return true
DequeRelease(c) ==
  /\ cpc[c] = "release"
  /\ sequence' = [sequence EXCEPT ![Slot(ctgt[c])] = ctgt[c] + BufferSize]
  /\ cpc' = [cpc EXCEPT ![c] = "idle"]
  /\ UNCHANGED <<enque, deque, buffer, producerVars, ctgt, out, log>>

-----------------------------------------------------------------------------
Producer(p) ==
  \/ \E v \in Values : StartEnque(p, v)
  \/ EnqueLoad(p) \/ EnqueCheck(p)
  \/ EnqueClaim(p) \/ EnqueClaimFails(p)
  \/ EnqueWrite(p) \/ EnquePublish(p)
  \/ EnqueGiveUp(p) \/ EnqueRetry(p)

Consumer(c) ==
  \/ DequeLoad(c) \/ DequeCheck(c)
  \/ DequeClaim(c) \/ DequeClaimFails(c)
  \/ DequeRead(c) \/ DequeRelease(c)

Next == (\E p \in Producers : Producer(p)) \/ (\E c \in Consumers : Consumer(c))

Spec == Init /\ [][Next]_vars
-----------------------------------------------------------------------------
(* Properties *)

ProducerPoints == {"idle", "load", "check", "claim", "write", "publish", "refused"}
ConsumerPoints == {"idle", "load", "check", "claim", "read", "release"}

\* Type invariant: counters and targets are tickets, a call in progress has
\* a value to enqueue, the history has one value per claimed ticket.
TypeOK ==
  /\ sequence \in [Slots -> Nat]
  /\ enque \in Nat /\ deque \in Nat
  /\ buffer \in [Slots -> Values \cup {NoValue}]
  /\ ppc \in [Producers -> ProducerPoints]
  /\ ptgt \in [Producers -> Nat]
  /\ arg \in [Producers -> Values \cup {NoValue}]
  /\ \A p \in Producers : ppc[p] # "idle" => arg[p] \in Values
  /\ cpc \in [Consumers -> ConsumerPoints]
  /\ ctgt \in [Consumers -> Nat]
  /\ out \in [Consumers -> Values \cup {NoValue}]
  /\ log \in Seq(Values)
  /\ Len(log) = enque

\* producer p, consumer c has exclusive use of the slot of its ticket
Writing(p) == ppc[p] \in {"write", "publish"}
Reading(c) == cpc[c] \in {"read", "release"}

\* The plain (non-atomic) _buffer accesses never race: two threads between
\* their claim and their sequence store never use the same slot, although
\* the only thing that keeps them apart is the value of _sequence[slot] each
\* of them read earlier.
SlotExclusion ==
  /\ \A p, q \in Producers : Writing(p) /\ Writing(q) /\ p # q
                               => Slot(ptgt[p]) # Slot(ptgt[q])
  /\ \A c, d \in Consumers : Reading(c) /\ Reading(d) /\ c # d
                               => Slot(ctgt[c]) # Slot(ctgt[d])
  /\ \A p \in Producers, c \in Consumers :
       Writing(p) /\ Reading(c) => Slot(ptgt[p]) # Slot(ctgt[c])

\* First in, first out: what TryDeque hands out under its ticket is the value
\* that was enqueued under the same ticket, however slots were reused.
FifoDelivery ==
  \A c \in Consumers : cpc[c] = "release" => out[c] = log[ctgt[c] + 1]

\* TryEnque returns false only at a moment when every slot is occupied: by a
\* ticket not yet taken, or by a consumer still copying out of the slot.
Full == \/ enque - deque = BufferSize
        \/ \E c \in Consumers : Reading(c) /\ ctgt[c] = enque - BufferSize
RefusedOnlyWhenFull ==
  [][\A p \in Producers :
       ppc[p] = "check" /\ ppc'[p] = "refused" => Full]_vars

\* TryDeque returns false only at a moment when there is nothing to take: the
\* queue is empty, or the oldest value is still being written.
NothingToTake == \/ enque = deque
                 \/ \E p \in Producers : Writing(p) /\ ptgt[p] = deque
EmptyOnlyWhenEmpty ==
  [][\A c \in Consumers :
       cpc[c] = "check" /\ cpc'[c] = "idle" => NothingToTake]_vars

\* The queue implements a bounded first-in first-out queue: a value enters at
\* the producer's compare_exchange and leaves at the consumer's.
Abstract == INSTANCE BoundedQueue
              WITH Capacity <- BufferSize, queue <- SubSeq(log, deque + 1, enque)
ImplementsBoundedQueue == Abstract!Spec

-----------------------------------------------------------------------------
(* The inductive invariant.  The window deque .. deque + BufferSize - 1 of *)
(* tickets covers every slot once; it says what the slot of each ticket    *)
(* holds.  The rest says what the threads know about their targets.        *)

Window(t) ==
  IF t < enque
  THEN \/ sequence[Slot(t)] = t + 1 /\ buffer[Slot(t)] = log[t + 1]
       \/ sequence[Slot(t)] = t /\ \E p \in Producers : Writing(p) /\ ptgt[p] = t
  ELSE \/ sequence[Slot(t)] = t
       \/ /\ sequence[Slot(t)] = t - BufferSize + 1
          /\ \E c \in Consumers : Reading(c) /\ ctgt[c] = t - BufferSize

ProducerInv(p) ==
  /\ ppc[p] \in {"check", "claim"} => ptgt[p] <= enque
  /\ ppc[p] = "claim" /\ ptgt[p] = enque => sequence[Slot(enque)] = enque
  /\ Writing(p) => /\ deque <= ptgt[p] /\ ptgt[p] < enque
                   /\ sequence[Slot(ptgt[p])] = ptgt[p]
                   /\ log[ptgt[p] + 1] = arg[p]
  /\ ppc[p] = "publish" => buffer[Slot(ptgt[p])] = arg[p]
  /\ \A q \in Producers : Writing(p) /\ Writing(q) /\ ptgt[p] = ptgt[q] => p = q

ConsumerInv(c) ==
  /\ cpc[c] \in {"check", "claim"} => ctgt[c] <= deque
  /\ cpc[c] = "claim" /\ ctgt[c] = deque => sequence[Slot(deque)] = deque + 1
  /\ Reading(c) => /\ ctgt[c] < deque /\ enque <= ctgt[c] + BufferSize
                   /\ sequence[Slot(ctgt[c])] = ctgt[c] + 1
                   /\ buffer[Slot(ctgt[c])] = log[ctgt[c] + 1]
  /\ cpc[c] = "release" => out[c] = log[ctgt[c] + 1]
  /\ \A d \in Consumers : Reading(c) /\ Reading(d) /\ ctgt[c] = ctgt[d] => c = d

\* The invariant behind the properties above: see the comment before Window.
IInv ==
  /\ TypeOK
  /\ deque <= enque /\ enque <= deque + BufferSize
  /\ \A t \in deque .. deque + BufferSize - 1 : Window(t)
  /\ \A p \in Producers : ProducerInv(p)
  /\ \A c \in Consumers : ConsumerInv(c)

\* No thread sleeps between its load and its compare_exchange while the
\* others use up half of the counters' range (2^31 operations).
NoLag ==
  /\ \A p \in Producers : ppc[p] \in {"check", "claim"}
       => enque - ptgt[p] < Modulus \div 2 - BufferSize
  /\ \A c \in Consumers : cpc[c] \in {"check", "claim"}
       => deque - ctgt[c] < Modulus \div 2 - BufferSize
=============================================================================
