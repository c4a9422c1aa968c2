----------------------- MODULE ConcurrentQueueProofs -----------------------
(***************************************************************************)
(* Proofs about the queue of src/src/ConcurrentQueue.h, for any number of  *)
(* threads, any buffer size and any counter width.                         *)
(*                                                                         *)
(* The tickets deque .. deque + BufferSize - 1 cover every slot once, and  *)
(* the sequence number of a slot says which of them it serves (Window).    *)
(* A thread that sees the number of its target and then takes the ticket   *)
(* owns the slot until it stores the next number (ProducerInv,             *)
(* ConsumerInv).  The code compares 32-bit words, the argument needs       *)
(* numbers: NoLag says that no thread is overtaken by half their range     *)
(* between its load and its compare_exchange.  One producer and one        *)
(* consumer, the way ThreadState uses the queue, cannot be overtaken:      *)
(* SingleProducerConsumer has no such hypothesis.                          *)
(***************************************************************************)
EXTENDS ConcurrentQueue, SequenceTheorems, TLAPS

\* Division with remainder, as Slot and Delta use it.
LEMMA Euclid ==
  ASSUME NEW m \in Nat \ {0}, NEW x \in Int
  PROVE  /\ x \div m \in Int /\ x % m \in 0 .. m - 1
         /\ x = m * (x \div m) + (x % m)
  OBVIOUS

\* Zero is the only multiple of m strictly between -m and m.
LEMMA SmallMultiple ==
  ASSUME NEW m \in Nat \ {0}, NEW k \in Int, 0 - m < m * k, m * k < m
  PROVE  k = 0
<1>1. CASE k >= 1
  <2>1. m * k >= m
    BY <1>1
  <2> QED BY <2>1
<1>2. CASE k <= -1
  <2>1. m * k <= 0 - m
    BY <1>2
  <2> QED BY <2>1
<1> QED BY <1>1, <1>2

\* target & kBufferMask is an index of the buffer.
LEMMA SlotType == \A t \in Nat : Slot(t) \in Slots
  BY SizeAssumption DEF Slot, Slots

\* Different tickets that share a slot are at least a whole buffer apart.
LEMMA SlotApart ==
  ASSUME NEW t \in Nat, NEW u \in Nat, t < u, Slot(t) = Slot(u)
  PROVE  u - t >= BufferSize
<1> DEFINE k == u \div BufferSize - t \div BufferSize
<1>1. BufferSize \in Nat \ {0}
  BY SizeAssumption
<1>2. k \in Int /\ u - t = BufferSize * k
  <2>1. /\ t = BufferSize * (t \div BufferSize) + (t % BufferSize)
        /\ t \div BufferSize \in Int /\ t % BufferSize \in 0 .. BufferSize - 1
    BY <1>1, Euclid
  <2>2. /\ u = BufferSize * (u \div BufferSize) + (u % BufferSize)
        /\ u \div BufferSize \in Int /\ u % BufferSize \in 0 .. BufferSize - 1
    BY <1>1, Euclid
  <2>3. u - t = BufferSize * (u \div BufferSize) - BufferSize * (t \div BufferSize)
    BY <1>1, <2>1, <2>2 DEF Slot
  <2> QED BY <1>1, <2>1, <2>2, <2>3
<1>3. k # 0
  BY <1>1, <1>2
<1>. HIDE DEF k
<1>4. CASE u - t < BufferSize
  BY <1>1, <1>2, <1>3, <1>4, SmallMultiple
<1> QED BY <1>1, <1>4

\* two tickets of one slot are equal or at least BufferSize apart
LEMMA SlotDistance ==
  \A t, u \in Nat : Slot(t) = Slot(u)
     => t = u \/ t - u >= BufferSize \/ u - t >= BufferSize
<1> TAKE t, u \in Nat
<1>1. CASE t < u
  BY <1>1, SlotApart
<1>2. CASE u < t
  BY <1>2, SlotApart
<1> QED BY <1>1, <1>2

\* Tickets a multiple of the buffer size apart share a slot.
LEMMA SlotMultiple ==
  ASSUME NEW t \in Nat, NEW u \in Nat, NEW n \in Int, u = t + BufferSize * n
  PROVE  Slot(u) = Slot(t)
<1> DEFINE k == t \div BufferSize + n - u \div BufferSize
<1>1. BufferSize \in Nat \ {0}
  BY SizeAssumption
<1>2. /\ t = BufferSize * (t \div BufferSize) + (t % BufferSize)
      /\ t \div BufferSize \in Int /\ t % BufferSize \in 0 .. BufferSize - 1
  BY <1>1, Euclid
<1>3. /\ u = BufferSize * (u \div BufferSize) + (u % BufferSize)
      /\ u \div BufferSize \in Int /\ u % BufferSize \in 0 .. BufferSize - 1
  <2>1. \A x \in Int : /\ x = BufferSize * (x \div BufferSize) + (x % BufferSize)
                       /\ x \div BufferSize \in Int
                       /\ x % BufferSize \in 0 .. BufferSize - 1
    BY <1>1, Euclid
  <2>2. u \in Int
    OBVIOUS
  <2> QED BY <2>1, <2>2, Zenon
<1>4. k \in Int /\ (u % BufferSize) - (t % BufferSize) = BufferSize * k
  BY <1>1, <1>2, <1>3
<1> HIDE DEF k
<1>5. k = 0
  BY <1>1, <1>2, <1>3, <1>4, SmallMultiple
<1> QED BY <1>1, <1>2, <1>3, <1>4, <1>5 DEF Slot

\* The ticket a slot is released to, target + kBufferMask + 1, is of that slot.
LEMMA SlotShift == \A t \in Nat : Slot(t + BufferSize) = Slot(t)
<1> TAKE t \in Nat
<1>1. t + BufferSize \in Nat /\ t + BufferSize = t + BufferSize * 1
  BY SizeAssumption
<1> QED BY <1>1, SlotMultiple

\* BufferSize consecutive tickets cover every slot
LEMMA SlotCovered ==
  ASSUME NEW d \in Nat, NEW g \in Nat
  PROVE  \E t \in d .. d + BufferSize - 1 : Slot(t) = Slot(g)
<1> DEFINE r == (g - d) % BufferSize
           n == (g - d) \div BufferSize
<1>1. BufferSize \in Nat \ {0} /\ g - d \in Int
  BY SizeAssumption
<1>2. r \in 0 .. BufferSize - 1 /\ n \in Int /\ g - d = BufferSize * n + r
  BY <1>1, Euclid
<1> HIDE DEF r, n
<1>3. d + r \in d .. d + BufferSize - 1 /\ d + r \in Nat /\ g = (d + r) + BufferSize * n
  BY <1>1, <1>2
<1>4. Slot(g) = Slot(d + r)
  BY <1>2, <1>3, SlotMultiple
<1> QED BY <1>3, <1>4

\* The signed machine difference the code tests is the true difference, as
\* long as that lies within half the range of the counters.
LEMMA DeltaIsDifference ==
  ASSUME NEW a \in Int, NEW b \in Int,
         0 - (Modulus \div 2) <= a - b, a - b < Modulus \div 2
  PROVE  Delta(a, b) = a - b
<1>1. Modulus \in Nat /\ Modulus \div 2 \in Nat /\ 2 * (Modulus \div 2) = Modulus
  BY ModulusAssumption
<1>2. CASE 0 <= a - b
  <2>1. (a - b) % Modulus = a - b
    BY <1>1, <1>2
  <2> QED BY <1>1, <1>2, <2>1 DEF Delta
<1>3. CASE a - b < 0
  <2>1. (a - b) % Modulus = a - b + Modulus
    BY <1>1, <1>3
  <2> QED BY <1>1, <1>3, <2>1 DEF Delta
<1> QED BY <1>2, <1>3

\* compare_exchange compares tickets, as long as the counter has not gone once
\* around since the load.
LEMMA SameWordIsEqual ==
  ASSUME NEW a \in Int, NEW b \in Int, 0 <= a - b, a - b < Modulus
  PROVE  SameWord(a, b) <=> a = b
<1>1. (a - b) % Modulus = a - b
  BY ModulusAssumption
<1> QED BY <1>1 DEF SameWord
-----------------------------------------------------------------------------
(* The invariant holds initially *)

\* The constructor establishes the invariant.
LEMMA InitIInv == Init => IInv
<1> SUFFICES ASSUME Init PROVE IInv
  OBVIOUS
<1>1. TypeOK
  BY SizeAssumption DEF Init, TypeOK, ProducerPoints, ConsumerPoints, Slots
<1>2. \A t \in deque .. deque + BufferSize - 1 : Window(t)
  <2> TAKE t \in deque .. deque + BufferSize - 1
  <2>1. t \in Nat /\ t < BufferSize /\ ~(t < enque)
    BY SizeAssumption DEF Init
  <2>2. t % BufferSize = t
    BY <2>1, SizeAssumption
  <2>3. sequence[t] = t
    BY <2>1, SizeAssumption DEF Init, Slots
  <2> QED BY <2>1, <2>2, <2>3 DEF Window, Slot
<1>3. \A p \in Producers : ProducerInv(p)
  BY DEF Init, ProducerInv, Writing
<1>4. \A c \in Consumers : ConsumerInv(c)
  BY DEF Init, ConsumerInv, Reading
<1> QED BY <1>1, <1>2, <1>3, <1>4, SizeAssumption DEF IInv, Init

-----------------------------------------------------------------------------
(* Every step of a producer preserves it *)

\* Steps of a producer that touch only its own control point, target or
\* argument, and neither enter nor leave the writing section.
LEMMA ProducerLocalStep ==
  ASSUME IInv, NEW p \in Producers, TypeOK', ~Writing(p), ~Writing(p)',
         UNCHANGED <<sequence, enque, deque, buffer, consumerVars, log>>,
         \A q \in Producers \ {p} : ppc'[q] = ppc[q] /\ ptgt'[q] = ptgt[q] /\ arg'[q] = arg[q],
         ppc'[p] \in {"check", "claim"} => ptgt'[p] <= enque,
         ppc'[p] = "claim" /\ ptgt'[p] = enque => sequence[Slot(enque)] = enque
  PROVE  IInv'
<1>1. \A t \in deque .. deque + BufferSize - 1 : Window(t)'
  <2> TAKE t \in deque .. deque + BufferSize - 1
  <2>1. Window(t)
    BY DEF IInv
  <2> QED BY <2>1 DEF Window, Writing, Reading, consumerVars
<1>2. \A q \in Producers : ProducerInv(q)'
  <2> TAKE q \in Producers
  <2>1. ProducerInv(q)
    BY DEF IInv
  <2> QED BY <2>1 DEF ProducerInv, Writing
<1>3. \A c \in Consumers : ConsumerInv(c)'
  <2> TAKE c \in Consumers
  <2>1. ConsumerInv(c)
    BY DEF IInv
  <2> QED BY <2>1 DEF ConsumerInv, Reading, consumerVars
<1> QED BY <1>1, <1>2, <1>3 DEF IInv

\* A new call of TryEnque keeps the invariant.
LEMMA StartEnqueStep ==
  ASSUME IInv, NEW p \in Producers, NEW v \in Values, StartEnque(p, v)
  PROVE  IInv'
<1>1. TypeOK'
  BY DEF IInv, TypeOK, StartEnque, consumerVars, ProducerPoints
<1> QED BY <1>1, ProducerLocalStep DEF IInv, TypeOK, StartEnque, Writing

\* Loading _enque keeps the invariant.
LEMMA EnqueLoadStep ==
  ASSUME IInv, NEW p \in Producers, EnqueLoad(p)
  PROVE  IInv'
<1>1. TypeOK'
  BY DEF IInv, TypeOK, EnqueLoad, consumerVars, ProducerPoints
<1>2. ptgt'[p] = enque /\ ppc'[p] = "check" /\ enque <= enque
  BY DEF IInv, TypeOK, EnqueLoad
<1> QED BY <1>1, <1>2, ProducerLocalStep DEF IInv, TypeOK, EnqueLoad, Writing

\* What TryEnque learns from _sequence[slot]: for the next ticket, the slot
\* is ready exactly when its sequence number is the ticket.
LEMMA EnqueDelta ==
  ASSUME IInv, NoLag, NEW p \in Producers, ppc[p] = "check"
  PROVE  LET s == sequence[Slot(ptgt[p])]
         IN  /\ s \in Nat /\ ptgt[p] \in Nat
             /\ Delta(s, ptgt[p]) = s - ptgt[p]
             /\ s < ptgt[p] => ptgt[p] = enque /\ Full
<1> DEFINE g == ptgt[p]
           s == sequence[Slot(g)]
<1>1. g \in Nat /\ g <= enque /\ enque - g < Modulus \div 2 - BufferSize
  BY DEF IInv, TypeOK, ProducerInv, NoLag
<1>2. s \in Nat
  BY <1>1, SlotType DEF IInv, TypeOK
<1>3. PICK t \in deque .. deque + BufferSize - 1 : Slot(t) = Slot(g)
  BY <1>1, SlotCovered DEF IInv, TypeOK
<1>4. t \in Nat /\ BufferSize \in Nat /\ BufferSize >= 2 /\ Window(t)
      /\ enque \in Nat /\ deque \in Nat /\ deque <= enque /\ enque <= deque + BufferSize
  BY SizeAssumption DEF IInv, TypeOK
<1>5. /\ g = t \/ g - t >= BufferSize \/ t - g >= BufferSize
      /\ (s \in {t, t + 1} /\ t < enque)
         \/ (s \in {t, t - BufferSize + 1} /\ enque <= t)
  <2>1. g = t \/ g - t >= BufferSize \/ t - g >= BufferSize
    BY <1>1, <1>3, <1>4, SlotApart
  <2>2. (s \in {t, t + 1} /\ t < enque)
         \/ (s \in {t, t - BufferSize + 1} /\ enque <= t)
    BY <1>3, <1>4 DEF Window
  <2> QED BY <2>1, <2>2
<1>6. Modulus \div 2 \in Nat /\ Modulus \div 2 > BufferSize
  BY ModulusAssumption, SizeAssumption
<1>7. 0 - (Modulus \div 2) <= s - g /\ s - g < Modulus \div 2
  BY <1>1, <1>2, <1>3, <1>4, <1>5, <1>6
<1>8. Delta(s, g) = s - g
  BY <1>1, <1>2, <1>7, DeltaIsDifference
<1>9. ASSUME s < g PROVE g = enque /\ Full
  <2>1. g = enque /\ (enque - deque = BufferSize \/ t = g)
    BY <1>1, <1>2, <1>3, <1>4, <1>5, <1>9
  <2>2. CASE t = g
    <3>1. \E c \in Consumers : Reading(c) /\ ctgt[c] = enque - BufferSize
      BY <1>1, <1>3, <1>4, <1>9, <2>1, <2>2 DEF Window
    <3> QED BY <2>1, <3>1 DEF Full
  <2> QED BY <2>1, <2>2 DEF Full
<1> QED BY <1>1, <1>2, <1>8, <1>9

\* Looking at _sequence[slot] in TryEnque keeps the invariant.
LEMMA EnqueCheckStep ==
  ASSUME IInv, NoLag, NEW p \in Producers, EnqueCheck(p)
  PROVE  IInv'
<1>1. TypeOK'
  BY DEF IInv, TypeOK, EnqueCheck, consumerVars, ProducerPoints
<1>2. /\ ppc[p] = "check" /\ ppc'[p] \in {"claim", "refused", "load"}
      /\ ppc'[p] = "claim" => Delta(sequence[Slot(ptgt[p])], ptgt[p]) = 0
      /\ ptgt' = ptgt
  BY DEF IInv, TypeOK, EnqueCheck
<1>3. ppc'[p] = "claim" => sequence[Slot(ptgt[p])] = ptgt[p]
  BY <1>2, EnqueDelta
<1>4. ptgt'[p] <= enque
  BY <1>2 DEF IInv, ProducerInv
<1> QED BY <1>1, <1>2, <1>3, <1>4, ProducerLocalStep DEF IInv, TypeOK, EnqueCheck, Writing

\* A failed compare_exchange, a refusal and a retry keep the invariant.
LEMMA EnqueBackStep ==
  ASSUME IInv, NEW p \in Producers,
         EnqueClaimFails(p) \/ EnqueGiveUp(p) \/ EnqueRetry(p)
  PROVE  IInv'
<1>1. TypeOK'
  BY DEF IInv, TypeOK, EnqueClaimFails, EnqueGiveUp, EnqueRetry, consumerVars, ProducerPoints
<1> QED BY <1>1, ProducerLocalStep
        DEF IInv, TypeOK, EnqueClaimFails, EnqueGiveUp, EnqueRetry, Writing

\* compare_exchange on _enque succeeds: the ticket is the next one, its slot
\* is free, and the queue is not full.
LEMMA EnqueClaimIsNext ==
  ASSUME IInv, NoLag, NEW p \in Producers, EnqueClaim(p)
  PROVE  /\ ptgt[p] = enque
         /\ sequence[Slot(enque)] = enque
         /\ enque < deque + BufferSize
<1>1. /\ ptgt[p] \in Nat /\ enque \in Nat /\ deque \in Nat /\ ptgt[p] <= enque
      /\ deque <= enque /\ enque <= deque + BufferSize
      /\ enque - ptgt[p] < Modulus \div 2 - BufferSize
  BY DEF IInv, TypeOK, ProducerInv, NoLag, EnqueClaim
<1>2. enque - ptgt[p] < Modulus
  BY <1>1, ModulusAssumption, SizeAssumption
<1>3. ptgt[p] = enque
  <2>1. SameWord(enque, ptgt[p])
    BY DEF EnqueClaim
  <2> QED BY <1>1, <1>2, <2>1, SameWordIsEqual
<1>4. sequence[Slot(enque)] = enque
  BY <1>3 DEF IInv, ProducerInv, EnqueClaim
<1>5. ASSUME enque = deque + BufferSize PROVE FALSE
  <2>1. Slot(enque) = Slot(deque)
    BY <1>1, <1>5, SlotShift
  <2>2. deque \in deque .. deque + BufferSize - 1 /\ deque < enque
    BY <1>1, <1>5, SizeAssumption
  <2>3. Window(deque)
    BY <2>2 DEF IInv
  <2>4. sequence[Slot(deque)] \in {deque, deque + 1}
    BY <2>2, <2>3 DEF Window
  <2> QED BY <1>1, <1>4, <1>5, <2>1, <2>4, SizeAssumption
<1> QED BY <1>1, <1>3, <1>4, <1>5, SizeAssumption

\* Taking an enqueue ticket keeps the invariant.
LEMMA EnqueClaimStep ==
  ASSUME IInv, NoLag, NEW p \in Producers, EnqueClaim(p)
  PROVE  IInv'
<1>1. ptgt[p] = enque /\ sequence[Slot(enque)] = enque /\ enque < deque + BufferSize
  BY EnqueClaimIsNext
<1>2. /\ enque \in Nat /\ deque \in Nat /\ deque <= enque
      /\ BufferSize \in Nat /\ BufferSize >= 2
      /\ log \in Seq(Values) /\ Len(log) = enque /\ arg[p] \in Values
      /\ ppc[p] = "claim" /\ ~Writing(p)
  BY SizeAssumption DEF IInv, TypeOK, EnqueClaim, Writing
<1>3. /\ enque' = enque + 1 /\ deque' = deque /\ sequence' = sequence /\ buffer' = buffer
      /\ ptgt' = ptgt /\ arg' = arg /\ cpc' = cpc /\ ctgt' = ctgt /\ out' = out
      /\ log' = Append(log, arg[p])
      /\ ppc'[p] = "write" /\ \A q \in Producers \ {p} : ppc'[q] = ppc[q]
  BY DEF IInv, TypeOK, EnqueClaim, consumerVars
<1>4. /\ log' \in Seq(Values) /\ Len(log') = enque + 1
      /\ log'[enque + 1] = arg[p] /\ \A i \in 1 .. enque : log'[i] = log[i]
  BY <1>2, <1>3
<1>5. TypeOK'
  BY <1>2, <1>3, <1>4 DEF IInv, TypeOK, EnqueClaim, ProducerPoints
<1>6. \A t \in deque .. deque + BufferSize - 1 : Window(t)'
  <2> TAKE t \in deque .. deque + BufferSize - 1
  <2>1. Window(t) /\ t \in Nat
    BY <1>2 DEF IInv
  <2>2. \A q \in Producers : Writing(q) => Writing(q)'
    BY <1>2, <1>3 DEF Writing
  <2>3. CASE t < enque
    <3>1. log'[t + 1] = log[t + 1]
      BY <1>2, <1>4, <2>1, <2>3
    <3> QED BY <1>2, <1>3, <2>1, <2>2, <2>3, <3>1 DEF Window
  <2>4. CASE t = enque
    <3>1. Writing(p)'
      BY <1>3 DEF Writing
    <3> QED BY <1>1, <1>2, <1>3, <2>4, <3>1 DEF Window
  <2>5. CASE t > enque
    BY <1>2, <1>3, <2>1, <2>5 DEF Window, Reading
  <2> QED BY <1>2, <2>1, <2>3, <2>4, <2>5
<1>7. \A q \in Producers : ProducerInv(q)'
  <2> TAKE q \in Producers
  <2>1. /\ ptgt[q] \in Nat
        /\ \A r \in Producers : Writing(r) => ptgt[r] \in Nat /\ ptgt[r] < enque
    BY DEF IInv, TypeOK, ProducerInv
  <2>2. CASE q = p
    BY <1>1, <1>2, <1>3, <1>4, <2>1, <2>2 DEF ProducerInv, Writing
  <2>3. CASE q # p
    <3>1. ProducerInv(q)
      BY DEF IInv
    <3>2. Writing(q) => log'[ptgt[q] + 1] = log[ptgt[q] + 1]
      BY <1>2, <1>4, <2>1
    <3> QED BY <1>1, <1>2, <1>3, <2>1, <2>3, <3>1, <3>2 DEF ProducerInv, Writing
  <2> QED BY <2>2, <2>3
<1>8. \A c \in Consumers : ConsumerInv(c)'
  <2> TAKE c \in Consumers
  <2>1. ConsumerInv(c) /\ ctgt[c] \in Nat
    BY DEF IInv, TypeOK
  <2>2. Reading(c) => enque + 1 <= ctgt[c] + BufferSize
    <3>1. ASSUME Reading(c), enque = ctgt[c] + BufferSize PROVE FALSE
      <4>1. Slot(enque) = Slot(ctgt[c])
        BY <2>1, <3>1, SlotShift
      <4> QED BY <1>1, <1>2, <2>1, <3>1, <4>1 DEF ConsumerInv
    <3>2. Reading(c) => enque <= ctgt[c] + BufferSize
      BY <2>1 DEF ConsumerInv
    <3>3. Reading(c) => enque # ctgt[c] + BufferSize
      BY <3>1
    <3> QED BY <1>2, <2>1, <3>2, <3>3
  <2>3. Reading(c) => log'[ctgt[c] + 1] = log[ctgt[c] + 1]
    BY <1>2, <1>4, <2>1 DEF ConsumerInv
  <2> QED BY <1>2, <1>3, <2>1, <2>2, <2>3 DEF ConsumerInv, Reading
<1> QED BY <1>1, <1>2, <1>3, <1>5, <1>6, <1>7, <1>8 DEF IInv

\* A thread in the writing section shares its slot with no other ticket of
\* the window and with no reader.
LEMMA WriterAlone ==
  ASSUME IInv, NEW p \in Producers, Writing(p)
  PROVE  /\ ptgt[p] \in deque .. deque + BufferSize - 1 /\ ptgt[p] < enque
         /\ Slot(ptgt[p]) \in Slots /\ sequence[Slot(ptgt[p])] = ptgt[p]
         /\ \A t \in deque .. deque + BufferSize - 1 :
              t # ptgt[p] => Slot(t) # Slot(ptgt[p])
         /\ \A q \in Producers : Writing(q) /\ q # p => Slot(ptgt[q]) # Slot(ptgt[p])
         /\ \A c \in Consumers : Reading(c) => Slot(ctgt[c]) # Slot(ptgt[p])
<1>1. /\ ptgt[p] \in Nat /\ deque <= ptgt[p] /\ ptgt[p] < enque
      /\ sequence[Slot(ptgt[p])] = ptgt[p]
      /\ deque \in Nat /\ enque \in Nat /\ enque <= deque + BufferSize
      /\ BufferSize \in Nat /\ BufferSize >= 2
  BY SizeAssumption DEF IInv, TypeOK, ProducerInv
<1>2. \A t \in deque .. deque + BufferSize - 1 : t # ptgt[p] => Slot(t) # Slot(ptgt[p])
  BY <1>1, SlotDistance
<1>3. ASSUME NEW q \in Producers, Writing(q), q # p
      PROVE  Slot(ptgt[q]) # Slot(ptgt[p])
  <2>1. ptgt[q] \in deque .. deque + BufferSize - 1 /\ ptgt[q] # ptgt[p]
    BY <1>1, <1>3 DEF IInv, TypeOK, ProducerInv
  <2> QED BY <1>2, <2>1
<1>4. ASSUME NEW c \in Consumers, Reading(c), Slot(ctgt[c]) = Slot(ptgt[p])
      PROVE  FALSE
  <2>1. ctgt[c] \in Nat /\ ctgt[c] < deque /\ sequence[Slot(ctgt[c])] = ctgt[c] + 1
    BY <1>4 DEF IInv, TypeOK, ConsumerInv
  <2>2. ctgt[c] + 1 = ptgt[p]
    BY <1>1, <1>4, <2>1
  <2> QED BY <1>1, <1>4, <2>1, <2>2, SlotDistance
<1> QED BY <1>1, <1>2, <1>3, <1>4, SlotType

\* Writing the value keeps the invariant.
LEMMA EnqueWriteStep ==
  ASSUME IInv, NEW p \in Producers, EnqueWrite(p)
  PROVE  IInv'
<1>1. Writing(p) /\ Writing(p)' /\ ppc[p] = "write" /\ ppc'[p] = "publish"
      /\ \A q \in Producers \ {p} : ppc'[q] = ppc[q]
  BY DEF IInv, TypeOK, EnqueWrite, Writing
<1>2. /\ UNCHANGED <<sequence, enque, deque, ptgt, arg, cpc, ctgt, out, log>>
      /\ \A s \in Slots : buffer'[s] = IF s = Slot(ptgt[p]) THEN arg[p] ELSE buffer[s]
  BY <1>1, WriterAlone DEF IInv, TypeOK, EnqueWrite, consumerVars
<1>3. TypeOK'
  <2>1. arg[p] \in Values /\ Slot(ptgt[p]) \in Slots
    BY <1>1, WriterAlone DEF IInv, TypeOK
  <2> QED BY <2>1, <1>1, <1>2 DEF IInv, TypeOK, EnqueWrite, ProducerPoints
<1>4. \A t \in deque .. deque + BufferSize - 1 : Window(t)'
  <2> TAKE t \in deque .. deque + BufferSize - 1
  <2>1. Window(t) /\ Slot(t) \in Slots
    BY SlotType DEF IInv, TypeOK
  <2>2. \A q \in Producers : Writing(q) <=> Writing(q)'
    BY <1>1 DEF Writing
  <2>3. CASE t = ptgt[p]
    BY <1>1, <1>2, <2>3, WriterAlone DEF Window
  <2>4. CASE t # ptgt[p]
    <3>1. buffer'[Slot(t)] = buffer[Slot(t)]
      BY <1>1, <1>2, <2>1, <2>4, WriterAlone
    <3> QED BY <1>2, <2>1, <2>2, <3>1 DEF Window, Reading
  <2> QED BY <2>3, <2>4
<1>5. \A q \in Producers : ProducerInv(q)'
  <2> TAKE q \in Producers
  <2>1. ProducerInv(q) /\ Slot(ptgt[q]) \in Slots
    BY SlotType DEF IInv, TypeOK
  <2>2. Writing(q) /\ q # p => buffer'[Slot(ptgt[q])] = buffer[Slot(ptgt[q])]
    BY <1>1, <1>2, <2>1, WriterAlone
  <2> QED BY <1>1, <1>2, <2>1, <2>2 DEF ProducerInv, Writing
<1>6. \A c \in Consumers : ConsumerInv(c)'
  <2> TAKE c \in Consumers
  <2>1. ConsumerInv(c) /\ Slot(ctgt[c]) \in Slots
    BY SlotType DEF IInv, TypeOK
  <2>2. Reading(c) => buffer'[Slot(ctgt[c])] = buffer[Slot(ctgt[c])]
    BY <1>1, <1>2, <2>1, WriterAlone
  <2> QED BY <1>2, <2>1, <2>2 DEF ConsumerInv, Reading
<1> QED BY <1>2, <1>3, <1>4, <1>5, <1>6 DEF IInv

\* Publishing the value keeps the invariant.
LEMMA EnquePublishStep ==
  ASSUME IInv, NEW p \in Producers, EnquePublish(p)
  PROVE  IInv'
<1>1. Writing(p) /\ ~Writing(p)' /\ ppc[p] = "publish" /\ ppc'[p] = "idle"
      /\ \A q \in Producers \ {p} : ppc'[q] = ppc[q]
  BY DEF IInv, TypeOK, EnquePublish, Writing
<1>2. /\ UNCHANGED <<enque, deque, buffer, ptgt, arg, cpc, ctgt, out, log>>
      /\ \A s \in Slots : sequence'[s] = IF s = Slot(ptgt[p]) THEN ptgt[p] + 1 ELSE sequence[s]
  BY <1>1, WriterAlone DEF IInv, TypeOK, EnquePublish, consumerVars
<1>3. TypeOK'
  <2>1. ptgt[p] + 1 \in Nat
    BY DEF IInv, TypeOK
  <2>2. sequence' \in [Slots -> Nat]
    BY <2>1 DEF IInv, TypeOK, EnquePublish
  <2>3. /\ ppc' \in [Producers -> ProducerPoints]
        /\ \A q \in Producers : ppc'[q] # "idle" => ppc[q] # "idle"
    BY <1>1 DEF IInv, TypeOK, EnquePublish, ProducerPoints
  <2> QED BY <1>2, <2>2, <2>3 DEF IInv, TypeOK
<1>4. /\ ptgt[p] \in Nat /\ ptgt[p] < enque /\ enque \in Nat /\ deque \in Nat
      /\ deque <= ptgt[p] /\ sequence[Slot(ptgt[p])] = ptgt[p]
      /\ BufferSize \in Nat /\ BufferSize >= 2
      /\ Slot(enque) \in Slots /\ Slot(deque) \in Slots
      /\ deque \in deque .. deque + BufferSize - 1
  <2>1. /\ ptgt[p] \in Nat /\ enque \in Nat /\ deque \in Nat
        /\ BufferSize \in Nat /\ BufferSize >= 2
    BY SizeAssumption DEF IInv, TypeOK
  <2>2. ptgt[p] < enque /\ deque <= ptgt[p] /\ sequence[Slot(ptgt[p])] = ptgt[p]
    BY <1>1 DEF IInv, ProducerInv
  <2> QED BY <2>1, <2>2, SlotType
<1>5. \A t \in deque .. deque + BufferSize - 1 : Window(t)'
  <2> TAKE t \in deque .. deque + BufferSize - 1
  <2>1. Window(t) /\ Slot(t) \in Slots
    BY SlotType DEF IInv, TypeOK
  <2>2. \A q \in Producers : Writing(q) /\ ptgt[q] # ptgt[p] => Writing(q)'
    BY <1>1 DEF Writing
  <2>3. CASE t = ptgt[p]
    <3>1. buffer[Slot(t)] = log[t + 1]
      BY <1>1, <2>3 DEF IInv, ProducerInv
    <3> QED BY <1>2, <1>4, <2>1, <2>3, <3>1 DEF Window
  <2>4. CASE t # ptgt[p]
    <3>1. sequence'[Slot(t)] = sequence[Slot(t)]
      BY <1>1, <1>2, <2>1, <2>4, WriterAlone
    <3> QED BY <1>2, <2>1, <2>2, <2>4, <3>1 DEF Window, Reading
  <2> QED BY <2>3, <2>4
<1>6. \A q \in Producers : ProducerInv(q)'
  <2> TAKE q \in Producers
  <2>1. ProducerInv(q) /\ Slot(ptgt[q]) \in Slots
    BY SlotType DEF IInv, TypeOK
  <2>2. Writing(q) /\ q # p => sequence'[Slot(ptgt[q])] = sequence[Slot(ptgt[q])]
    BY <1>1, <1>2, <2>1, WriterAlone
  <2>3. sequence[Slot(enque)] = enque => sequence'[Slot(enque)] = enque
    BY <1>2, <1>4
  <2> QED BY <1>1, <1>2, <2>1, <2>2, <2>3 DEF ProducerInv, Writing
<1>7. \A c \in Consumers : ConsumerInv(c)'
  <2> TAKE c \in Consumers
  <2>1. ConsumerInv(c) /\ Slot(ctgt[c]) \in Slots
    BY SlotType DEF IInv, TypeOK
  <2>2. Reading(c) => sequence'[Slot(ctgt[c])] = sequence[Slot(ctgt[c])]
    BY <1>1, <1>2, <2>1, WriterAlone
  <2>3. sequence[Slot(deque)] = deque + 1 => sequence'[Slot(deque)] = deque + 1
    <3>1. deque # ptgt[p] => Slot(deque) # Slot(ptgt[p])
      BY <1>1, <1>4, WriterAlone
    <3> QED BY <1>2, <1>4, <3>1
  <2> QED BY <1>2, <2>1, <2>2, <2>3 DEF ConsumerInv, Reading
<1> QED BY <1>2, <1>3, <1>5, <1>6, <1>7 DEF IInv

-----------------------------------------------------------------------------
(* Every step of a consumer preserves it *)

\* Steps of a consumer that touch only its own control point, target or
\* output, and neither enter nor leave the reading section.
LEMMA ConsumerLocalStep ==
  ASSUME IInv, NEW c \in Consumers, TypeOK', Reading(c)' <=> Reading(c),
         UNCHANGED <<sequence, enque, deque, buffer, producerVars, log>>,
         \A d \in Consumers \ {c} : cpc'[d] = cpc[d] /\ ctgt'[d] = ctgt[d] /\ out'[d] = out[d],
         Reading(c) => ctgt'[c] = ctgt[c],
         cpc'[c] \in {"check", "claim"} => ctgt'[c] <= deque,
         cpc'[c] = "claim" /\ ctgt'[c] = deque => sequence[Slot(deque)] = deque + 1,
         cpc'[c] = "release" => out'[c] = log[ctgt'[c] + 1]
  PROVE  IInv'
<1>0. \A d \in Consumers : (Reading(d)' <=> Reading(d)) /\ (Reading(d) => ctgt'[d] = ctgt[d])
  BY DEF Reading
<1>1. \A t \in deque .. deque + BufferSize - 1 : Window(t)'
  <2> TAKE t \in deque .. deque + BufferSize - 1
  <2>1. Window(t)
    BY DEF IInv
  <2> QED BY <1>0, <2>1 DEF Window, Writing, producerVars
<1>2. \A q \in Producers : ProducerInv(q)'
  <2> TAKE q \in Producers
  <2>1. ProducerInv(q)
    BY DEF IInv
  <2> QED BY <2>1 DEF ProducerInv, Writing, producerVars
<1>3. \A d \in Consumers : ConsumerInv(d)'
  <2> TAKE d \in Consumers
  <2>1. ConsumerInv(d)
    BY DEF IInv
  <2> QED BY <1>0, <2>1 DEF ConsumerInv
<1> QED BY <1>1, <1>2, <1>3 DEF IInv

\* Loading _deque keeps the invariant.
LEMMA DequeLoadStep ==
  ASSUME IInv, NEW c \in Consumers, DequeLoad(c)
  PROVE  IInv'
<1>1. TypeOK'
  BY DEF IInv, TypeOK, DequeLoad, producerVars, ConsumerPoints
<1>2. ctgt'[c] = deque /\ cpc'[c] = "check" /\ deque <= deque
  BY DEF IInv, TypeOK, DequeLoad
<1> QED BY <1>1, <1>2, ConsumerLocalStep DEF IInv, TypeOK, DequeLoad, Reading

\* What TryDeque learns from _sequence[slot]
LEMMA DequeDelta ==
  ASSUME IInv, NoLag, NEW c \in Consumers, cpc[c] = "check"
  PROVE  LET s == sequence[Slot(ctgt[c])]
         IN  /\ s \in Nat /\ ctgt[c] \in Nat
             /\ Delta(s, ctgt[c] + 1) = s - (ctgt[c] + 1)
             /\ s < ctgt[c] + 1 => NothingToTake
<1> DEFINE g == ctgt[c]
           s == sequence[Slot(g)]
<1>1. g \in Nat /\ g <= deque /\ deque - g < Modulus \div 2 - BufferSize
  BY DEF IInv, TypeOK, ConsumerInv, NoLag
<1>2. s \in Nat
  BY <1>1, SlotType DEF IInv, TypeOK
<1>3. PICK t \in deque .. deque + BufferSize - 1 : Slot(t) = Slot(g)
  BY <1>1, SlotCovered DEF IInv, TypeOK
<1>4. t \in Nat /\ BufferSize \in Nat /\ BufferSize >= 2 /\ Window(t)
      /\ enque \in Nat /\ deque \in Nat /\ deque <= enque /\ enque <= deque + BufferSize
  BY SizeAssumption DEF IInv, TypeOK
<1>5. /\ g = t \/ t - g >= BufferSize
      /\ s \in {t, t + 1, t - BufferSize + 1}
      /\ (s = t /\ t < enque) => \E p \in Producers : Writing(p) /\ ptgt[p] = t
      /\ t < enque => s \in {t, t + 1}
  <2>1. g = t \/ g - t >= BufferSize \/ t - g >= BufferSize
    BY <1>1, <1>3, <1>4, SlotDistance
  <2>2. /\ s \in {t, t + 1, t - BufferSize + 1}
        /\ (s = t /\ t < enque) => \E p \in Producers : Writing(p) /\ ptgt[p] = t
        /\ t < enque => s \in {t, t + 1}
    BY <1>3, <1>4 DEF Window
  <2>3. ~(g - t >= BufferSize)
    BY <1>1, <1>4
  <2> QED BY <2>1, <2>2, <2>3
<1>6. Modulus \div 2 \in Nat /\ Modulus \div 2 > BufferSize
  BY ModulusAssumption, SizeAssumption
<1>7. 0 - (Modulus \div 2) <= s - (g + 1) /\ s - (g + 1) < Modulus \div 2
  BY <1>1, <1>2, <1>3, <1>4, <1>5, <1>6
<1>8. Delta(s, g + 1) = s - (g + 1)
  BY <1>1, <1>2, <1>7, DeltaIsDifference
<1>9. ASSUME s < g + 1 PROVE NothingToTake
  <2>1. g = t /\ t = deque
    BY <1>1, <1>2, <1>3, <1>4, <1>5, <1>9
  <2>2. CASE t < enque
    <3>1. s = t
      BY <1>1, <1>4, <1>5, <1>9, <2>1, <2>2
    <3> QED BY <1>5, <2>1, <2>2, <3>1 DEF NothingToTake
  <2>3. CASE ~(t < enque)
    BY <1>4, <2>1, <2>3 DEF NothingToTake
  <2> QED BY <2>2, <2>3
<1> QED BY <1>1, <1>2, <1>8, <1>9

\* Looking at _sequence[slot] in TryDeque keeps the invariant.
LEMMA DequeCheckStep ==
  ASSUME IInv, NoLag, NEW c \in Consumers, DequeCheck(c)
  PROVE  IInv'
<1>1. TypeOK'
  BY DEF IInv, TypeOK, DequeCheck, producerVars, ConsumerPoints
<1>2. /\ cpc[c] = "check" /\ cpc'[c] \in {"claim", "idle", "load"}
      /\ cpc'[c] = "claim" => Delta(sequence[Slot(ctgt[c])], ctgt[c] + 1) = 0
      /\ ctgt' = ctgt
  BY DEF IInv, TypeOK, DequeCheck
<1>3. cpc'[c] = "claim" => sequence[Slot(ctgt[c])] = ctgt[c] + 1
  BY <1>2, DequeDelta
<1>4. ctgt'[c] <= deque
  BY <1>2 DEF IInv, ConsumerInv
<1> QED BY <1>1, <1>2, <1>3, <1>4, ConsumerLocalStep DEF IInv, TypeOK, DequeCheck, Reading

\* A failed compare_exchange in TryDeque keeps the invariant.
LEMMA DequeBackStep ==
  ASSUME IInv, NEW c \in Consumers, DequeClaimFails(c)
  PROVE  IInv'
<1>1. TypeOK'
  BY DEF IInv, TypeOK, DequeClaimFails, producerVars, ConsumerPoints
<1> QED BY <1>1, ConsumerLocalStep DEF IInv, TypeOK, DequeClaimFails, Reading

\* compare_exchange on _deque succeeds: the ticket is the oldest one and its
\* value is published.
LEMMA DequeClaimIsNext ==
  ASSUME IInv, NoLag, NEW c \in Consumers, DequeClaim(c)
  PROVE  /\ ctgt[c] = deque
         /\ sequence[Slot(deque)] = deque + 1
         /\ deque < enque
         /\ buffer[Slot(deque)] = log[deque + 1]
<1>1. /\ ctgt[c] \in Nat /\ deque \in Nat /\ enque \in Nat /\ ctgt[c] <= deque
      /\ deque <= enque /\ BufferSize \in Nat /\ BufferSize >= 2
      /\ deque - ctgt[c] < Modulus \div 2 - BufferSize
  BY SizeAssumption DEF IInv, TypeOK, ConsumerInv, NoLag, DequeClaim
<1>2. deque - ctgt[c] < Modulus
  BY <1>1, ModulusAssumption, SizeAssumption
<1>3. ctgt[c] = deque
  <2>1. SameWord(deque, ctgt[c])
    BY DEF DequeClaim
  <2> QED BY <1>1, <1>2, <2>1, SameWordIsEqual
<1>4. sequence[Slot(deque)] = deque + 1
  BY <1>3 DEF IInv, ConsumerInv, DequeClaim
<1>5. Window(deque)
  BY <1>1 DEF IInv
<1> QED BY <1>1, <1>3, <1>4, <1>5 DEF Window

\* Taking a dequeue ticket keeps the invariant.
LEMMA DequeClaimStep ==
  ASSUME IInv, NoLag, NEW c \in Consumers, DequeClaim(c)
  PROVE  IInv'
<1>1. /\ ctgt[c] = deque /\ sequence[Slot(deque)] = deque + 1 /\ deque < enque
      /\ buffer[Slot(deque)] = log[deque + 1]
  BY DequeClaimIsNext
<1>2. /\ enque \in Nat /\ deque \in Nat /\ enque <= deque + BufferSize
      /\ BufferSize \in Nat /\ BufferSize >= 2
      /\ cpc[c] = "claim" /\ ~Reading(c)
  BY SizeAssumption DEF IInv, TypeOK, DequeClaim, Reading
<1>3. /\ deque' = deque + 1
      /\ UNCHANGED <<sequence, enque, buffer, ppc, ptgt, arg, ctgt, out, log>>
      /\ cpc'[c] = "read" /\ \A d \in Consumers \ {c} : cpc'[d] = cpc[d]
  BY DEF IInv, TypeOK, DequeClaim, producerVars
<1>4. TypeOK'
  BY <1>2, <1>3 DEF IInv, TypeOK, DequeClaim, ConsumerPoints
<1>5. \A t \in deque' .. deque' + BufferSize - 1 : Window(t)'
  <2> TAKE t \in deque' .. deque' + BufferSize - 1
  <2>1. \A d \in Consumers : Reading(d) => Reading(d)'
    BY <1>2, <1>3 DEF Reading
  <2>2. CASE t \in deque .. deque + BufferSize - 1
    <3>1. Window(t)
      BY <2>2 DEF IInv
    <3> QED BY <1>3, <2>1, <3>1 DEF Window, Writing
  <2>3. CASE t = deque + BufferSize
    <3>1. Slot(t) = Slot(deque) /\ ~(t < enque)
      BY <1>2, <2>3, SlotShift
    <3>2. Reading(c)' /\ ctgt[c] = t - BufferSize /\ deque + 1 = t - BufferSize + 1
      BY <1>1, <1>2, <1>3, <2>3 DEF Reading
    <3> QED BY <1>1, <1>3, <3>1, <3>2 DEF Window
  <2> QED BY <1>2, <1>3, <2>2, <2>3
<1>6. \A q \in Producers : ProducerInv(q)'
  <2> TAKE q \in Producers
  <2>1. ProducerInv(q) /\ ptgt[q] \in Nat
    BY DEF IInv, TypeOK
  <2>2. Writing(q) => deque + 1 <= ptgt[q]
    <3>1. Writing(q) => deque <= ptgt[q] /\ sequence[Slot(ptgt[q])] = ptgt[q]
      BY <2>1 DEF ProducerInv
    <3> QED BY <1>1, <1>2, <2>1, <3>1
  <2> QED BY <1>3, <2>1, <2>2 DEF ProducerInv, Writing
<1>7. \A d \in Consumers : ConsumerInv(d)'
  <2> TAKE d \in Consumers
  <2>1. /\ ctgt[d] \in Nat
        /\ \A e \in Consumers : Reading(e) => ctgt[e] \in Nat /\ ctgt[e] < deque
    BY DEF IInv, TypeOK, ConsumerInv
  <2>2. CASE d = c
    BY <1>1, <1>2, <1>3, <2>1, <2>2 DEF ConsumerInv, Reading
  <2>3. CASE d # c
    <3>1. ConsumerInv(d)
      BY DEF IInv
    <3> QED BY <1>1, <1>2, <1>3, <2>1, <2>3, <3>1 DEF ConsumerInv, Reading
  <2> QED BY <2>2, <2>3
<1>8. deque' <= enque' /\ enque' <= deque' + BufferSize
  BY <1>1, <1>2, <1>3
<1> QED BY <1>4, <1>5, <1>6, <1>7, <1>8 DEF IInv

\* Copying the value out keeps the invariant.
LEMMA DequeReadStep ==
  ASSUME IInv, NEW c \in Consumers, DequeRead(c)
  PROVE  IInv'
<1>1. Reading(c) /\ cpc[c] = "read" /\ ctgt[c] \in Nat
  BY DEF IInv, TypeOK, DequeRead, Reading
<1>2. buffer[Slot(ctgt[c])] = log[ctgt[c] + 1] /\ Slot(ctgt[c]) \in Slots
  BY <1>1, SlotType DEF IInv, ConsumerInv
<1>3. out'[c] = log[ctgt[c] + 1] /\ cpc'[c] = "release" /\ ctgt' = ctgt
  BY <1>2 DEF IInv, TypeOK, DequeRead
<1>4. TypeOK'
  BY <1>2 DEF IInv, TypeOK, DequeRead, producerVars, ConsumerPoints
<1> QED BY <1>1, <1>3, <1>4, ConsumerLocalStep DEF IInv, TypeOK, DequeRead, Reading

\* A thread in the reading section shares its slot with no other thread in
\* its section; the ticket the slot is released to lies in the window.
LEMMA ReaderAlone ==
  ASSUME IInv, NEW c \in Consumers, Reading(c)
  PROVE  /\ ctgt[c] \in Nat /\ ctgt[c] < deque /\ enque <= ctgt[c] + BufferSize
         /\ Slot(ctgt[c]) \in Slots /\ sequence[Slot(ctgt[c])] = ctgt[c] + 1
         /\ ctgt[c] + BufferSize \in deque .. deque + BufferSize - 1
         /\ \A t \in deque .. deque + BufferSize - 1 :
              t # ctgt[c] + BufferSize => Slot(t) # Slot(ctgt[c])
         /\ \A d \in Consumers : Reading(d) /\ d # c => Slot(ctgt[d]) # Slot(ctgt[c])
<1>1. /\ ctgt[c] \in Nat /\ ctgt[c] < deque /\ enque <= ctgt[c] + BufferSize
      /\ sequence[Slot(ctgt[c])] = ctgt[c] + 1
      /\ deque \in Nat /\ enque \in Nat /\ deque <= enque
      /\ BufferSize \in Nat /\ BufferSize >= 2
  BY SizeAssumption DEF IInv, TypeOK, ConsumerInv
<1>2. \A t \in deque .. deque + BufferSize - 1 :
        t # ctgt[c] + BufferSize => Slot(t) # Slot(ctgt[c])
  <2>1. Slot(ctgt[c] + BufferSize) = Slot(ctgt[c])
    BY <1>1, SlotShift
  <2>2. ctgt[c] + BufferSize \in Nat
    BY <1>1
  <2> QED BY <1>1, <2>1, <2>2, SlotDistance
<1>3. ASSUME NEW d \in Consumers, Reading(d), d # c, Slot(ctgt[d]) = Slot(ctgt[c])
      PROVE  FALSE
  <2>1. ctgt[d] \in Nat /\ sequence[Slot(ctgt[d])] = ctgt[d] + 1
    BY <1>3 DEF IInv, TypeOK, ConsumerInv
  <2>2. ctgt[d] = ctgt[c]
    BY <1>1, <1>3, <2>1
  <2> QED BY <1>3, <2>2 DEF IInv, ConsumerInv
<1> QED BY <1>1, <1>2, <1>3, SlotType

\* Releasing the slot keeps the invariant.
LEMMA DequeReleaseStep ==
  ASSUME IInv, NEW c \in Consumers, DequeRelease(c)
  PROVE  IInv'
<1>1. Reading(c) /\ ~Reading(c)' /\ cpc[c] = "release" /\ cpc'[c] = "idle"
      /\ \A d \in Consumers \ {c} : cpc'[d] = cpc[d]
  BY DEF IInv, TypeOK, DequeRelease, Reading
<1>2. /\ UNCHANGED <<enque, deque, buffer, ppc, ptgt, arg, ctgt, out, log>>
      /\ \A s \in Slots : sequence'[s] = IF s = Slot(ctgt[c]) THEN ctgt[c] + BufferSize
                                         ELSE sequence[s]
  BY <1>1, ReaderAlone DEF IInv, TypeOK, DequeRelease, producerVars
<1>3. /\ ctgt[c] \in Nat /\ ctgt[c] < deque /\ enque <= ctgt[c] + BufferSize
      /\ sequence[Slot(ctgt[c])] = ctgt[c] + 1
      /\ enque \in Nat /\ deque \in Nat /\ deque <= enque
      /\ BufferSize \in Nat /\ BufferSize >= 2
      /\ Slot(enque) \in Slots /\ Slot(deque) \in Slots
  <2>1. /\ enque \in Nat /\ deque \in Nat /\ deque <= enque
        /\ BufferSize \in Nat /\ BufferSize >= 2
    BY SizeAssumption DEF IInv, TypeOK
  <2> QED BY <1>1, <2>1, ReaderAlone, SlotType
<1>4. TypeOK'
  <2>0. ctgt[c] + BufferSize \in Nat
    BY <1>3
  <2>1. sequence' \in [Slots -> Nat]
    BY <2>0 DEF IInv, TypeOK, DequeRelease
  <2>2. cpc' \in [Consumers -> ConsumerPoints]
    BY <1>1 DEF IInv, TypeOK, DequeRelease, ConsumerPoints
  <2> QED BY <1>2, <2>1, <2>2 DEF IInv, TypeOK
<1>5. \A t \in deque .. deque + BufferSize - 1 : Window(t)'
  <2> TAKE t \in deque .. deque + BufferSize - 1
  <2>1. Window(t) /\ Slot(t) \in Slots /\ t \in Nat
    <3>1. t \in Nat
      BY <1>3
    <3> QED BY <3>1, SlotType DEF IInv
  <2>2. \A d \in Consumers : Reading(d) /\ d # c => Reading(d)'
    BY <1>1 DEF Reading
  <2>3. CASE t = ctgt[c] + BufferSize
    <3>1. Slot(t) = Slot(ctgt[c]) /\ ~(t < enque)
      BY <1>3, <2>3, SlotShift
    <3> QED BY <1>2, <2>1, <2>3, <3>1 DEF Window
  <2>4. CASE t # ctgt[c] + BufferSize
    <3>1. sequence'[Slot(t)] = sequence[Slot(t)]
      BY <1>1, <1>2, <2>1, <2>4, ReaderAlone
    <3>2. ctgt[c] # t - BufferSize
      BY <1>3, <2>1, <2>4
    <3> QED BY <1>2, <2>1, <2>2, <3>1, <3>2 DEF Window, Writing
  <2> QED BY <2>3, <2>4
<1>6. \A q \in Producers : ProducerInv(q)'
  <2> TAKE q \in Producers
  <2>1. ProducerInv(q) /\ Slot(ptgt[q]) \in Slots
    BY SlotType DEF IInv, TypeOK
  <2>2. Writing(q) => sequence'[Slot(ptgt[q])] = sequence[Slot(ptgt[q])]
    BY <1>1, <1>2, <2>1, WriterAlone
  <2>3. sequence[Slot(enque)] = enque => sequence'[Slot(enque)] = enque
    BY <1>2, <1>3, SlotDistance
  <2> QED BY <1>2, <2>1, <2>2, <2>3 DEF ProducerInv, Writing
<1>7. \A d \in Consumers : ConsumerInv(d)'
  <2> TAKE d \in Consumers
  <2>1. ConsumerInv(d) /\ Slot(ctgt[d]) \in Slots
    BY SlotType DEF IInv, TypeOK
  <2>2. Reading(d) /\ d # c => sequence'[Slot(ctgt[d])] = sequence[Slot(ctgt[d])]
    BY <1>1, <1>2, <2>1, ReaderAlone
  <2>3. sequence[Slot(deque)] = deque + 1 => sequence'[Slot(deque)] = deque + 1
    BY <1>2, <1>3
  <2> QED BY <1>1, <1>2, <2>1, <2>2, <2>3 DEF ConsumerInv, Reading
<1> QED BY <1>2, <1>4, <1>5, <1>6, <1>7 DEF IInv

-----------------------------------------------------------------------------
(* The theorems *)

\* Every step of TryEnque and TryDeque keeps the invariant, as long as no
\* thread is overtaken by half the range of the counters.
LEMMA NextIInv ==
  ASSUME IInv, NoLag, [Next]_vars
  PROVE  IInv'
<1>1. ASSUME NEW p \in Producers, Producer(p) PROVE IInv'
  BY <1>1, StartEnqueStep, EnqueLoadStep, EnqueCheckStep, EnqueClaimStep,
     EnqueBackStep, EnqueWriteStep, EnquePublishStep DEF Producer
<1>2. ASSUME NEW c \in Consumers, Consumer(c) PROVE IInv'
  BY <1>2, DequeLoadStep, DequeCheckStep, DequeClaimStep, DequeBackStep,
     DequeReadStep, DequeReleaseStep DEF Consumer
<1>3. CASE UNCHANGED vars
  BY <1>3 DEF IInv, TypeOK, Window, ProducerInv, ConsumerInv, Writing, Reading, vars
<1> QED BY <1>1, <1>2, <1>3 DEF Next

\* Every reachable state of the queue satisfies the inductive invariant, for
\* any number of threads, any buffer size and any counter width, as long as
\* no thread is overtaken by half the counters' range.
THEOREM Invariance == Spec /\ []NoLag => []IInv
<1>1. Init => IInv
  BY InitIInv
<1>2. IInv /\ NoLag /\ [Next]_vars => IInv'
  BY NextIInv
<1> QED BY <1>1, <1>2, PTL DEF Spec

\* The invariant gives each claimed slot to one thread.
LEMMA IInvExclusion == IInv => SlotExclusion
  BY WriterAlone, ReaderAlone DEF SlotExclusion

\* The invariant says what a consumer has copied.
LEMMA IInvDelivery == IInv => FifoDelivery
  BY DEF IInv, ConsumerInv, FifoDelivery

\* TryEnque and TryDeque never touch the same _buffer element at the same
\* time, although no lock protects it.
THEOREM BufferExclusion == Spec /\ []NoLag => []SlotExclusion
  BY Invariance, IInvExclusion, PTL

\* TryDeque hands out the values in the order of the enqueue tickets, each
\* under the ticket it was enqueued with.
THEOREM InOrderDelivery == Spec /\ []NoLag => []FifoDelivery
  BY Invariance, IInvDelivery, PTL

\* TryEnque answers false only when the buffer has no free slot.
THEOREM RefusalMeansFull == Spec /\ []NoLag => RefusedOnlyWhenFull
<1> DEFINE A == \A p \in Producers : ppc[p] = "check" /\ ppc'[p] = "refused" => Full
<1>1. IInv /\ NoLag /\ [Next]_vars => [A]_vars
  <2> SUFFICES ASSUME IInv, NoLag, Next, NEW p \in Producers,
                      ppc[p] = "check", ppc'[p] = "refused"
               PROVE  Full
    BY DEF Next
  <2>1. EnqueCheck(p)
    <3>1. ASSUME NEW q \in Producers, Producer(q) PROVE EnqueCheck(p)
      BY <3>1 DEF Producer, StartEnque, EnqueLoad, EnqueClaim, EnqueClaimFails, EnqueWrite,
            EnquePublish, EnqueGiveUp, EnqueRetry, EnqueCheck, IInv, TypeOK
    <3>2. ASSUME NEW c \in Consumers, Consumer(c) PROVE FALSE
      BY <3>2 DEF Consumer, DequeLoad, DequeCheck, DequeClaim, DequeClaimFails, DequeRead,
            DequeRelease, producerVars
    <3> QED BY <3>1, <3>2 DEF Next
  <2>2. Delta(sequence[Slot(ptgt[p])], ptgt[p]) < 0
    BY <2>1 DEF EnqueCheck, IInv, TypeOK
  <2> QED BY <2>2, EnqueDelta
<1> QED BY <1>1, Invariance, PTL DEF Spec, RefusedOnlyWhenFull

\* TryDeque answers false only when no published value is waiting.
THEOREM EmptyMeansEmpty == Spec /\ []NoLag => EmptyOnlyWhenEmpty
<1> DEFINE A == \A c \in Consumers : cpc[c] = "check" /\ cpc'[c] = "idle" => NothingToTake
<1>1. IInv /\ NoLag /\ [Next]_vars => [A]_vars
  <2> SUFFICES ASSUME IInv, NoLag, Next, NEW c \in Consumers,
                      cpc[c] = "check", cpc'[c] = "idle"
               PROVE  NothingToTake
    BY DEF Next
  <2>1. DequeCheck(c)
    <3>1. ASSUME NEW p \in Producers, Producer(p) PROVE FALSE
      BY <3>1 DEF Producer, StartEnque, EnqueLoad, EnqueClaim, EnqueClaimFails, EnqueWrite,
            EnquePublish, EnqueGiveUp, EnqueRetry, EnqueCheck, consumerVars
    <3>2. ASSUME NEW d \in Consumers, Consumer(d) PROVE DequeCheck(c)
      BY <3>2 DEF Consumer, DequeLoad, DequeCheck, DequeClaim, DequeClaimFails, DequeRead,
            DequeRelease, IInv, TypeOK
    <3> QED BY <3>1, <3>2 DEF Next
  <2>2. Delta(sequence[Slot(ctgt[c])], ctgt[c] + 1) < 0
    BY <2>1 DEF DequeCheck, IInv, TypeOK
  <2>3. sequence[Slot(ctgt[c])] < ctgt[c] + 1
    BY <2>2, DequeDelta
  <2> QED BY <2>3, DequeDelta
<1> QED BY <1>1, Invariance, PTL DEF Spec, EmptyOnlyWhenEmpty

-----------------------------------------------------------------------------
(* Refinement of BoundedQueue *)

\* taking one more ticket appends its value to the abstract queue
LEMMA SubSeqAppend ==
  ASSUME NEW S, NEW s \in Seq(S), NEW d \in Nat, d <= Len(s), NEW v \in S
  PROVE  SubSeq(Append(s, v), d + 1, Len(s) + 1) = Append(SubSeq(s, d + 1, Len(s)), v)
<1> DEFINE l == SubSeq(Append(s, v), d + 1, Len(s) + 1)
           m == SubSeq(s, d + 1, Len(s))
<1>1. l \in Seq(S) /\ Len(l) = Len(s) + 1 - d
  OBVIOUS
<1>2. m \in Seq(S) /\ Len(m) = Len(s) - d
  OBVIOUS
<1>3. \A i \in 1 .. Len(s) - d + 1 : l[i] = Append(m, v)[i]
  OBVIOUS
<1>4. Append(m, v) \in Seq(S) /\ Len(Append(m, v)) = Len(s) + 1 - d
  BY <1>2
<1> HIDE DEF l, m
<1>5. l = Append(m, v)
  BY <1>1, <1>3, <1>4, SeqEqual
<1> QED BY <1>5 DEF l, m

\* releasing the oldest ticket removes the head of the abstract queue
LEMMA SubSeqTail ==
  ASSUME NEW S, NEW s \in Seq(S), NEW d \in Nat, d < Len(s)
  PROVE  /\ SubSeq(s, d + 1, Len(s)) # << >>
         /\ SubSeq(s, d + 1 + 1, Len(s)) = Tail(SubSeq(s, d + 1, Len(s)))
<1> DEFINE l == SubSeq(s, d + 1 + 1, Len(s))
           m == SubSeq(s, d + 1, Len(s))
<1>1. l \in Seq(S) /\ Len(l) = Len(s) - d - 1
  OBVIOUS
<1>2. m \in Seq(S) /\ Len(m) = Len(s) - d /\ m # << >>
  <2>1. m \in Seq(S) /\ Len(m) = Len(s) - d /\ Len(m) # 0
    OBVIOUS
  <2> HIDE DEF m
  <2>2. m # << >>
    BY <2>1
  <2> QED BY <2>1, <2>2
<1>3. \A i \in 1 .. Len(s) - d - 1 : l[i] = Tail(m)[i]
  OBVIOUS
<1> QED BY <1>1, <1>2, <1>3

\* Seen from outside, the lock-free queue is a bounded first-in first-out
\* queue: the successful compare_exchange on _enque is the Put, the one on
\* _deque the Get, and every other step of the code is invisible.
THEOREM Refinement == Spec /\ []NoLag => ImplementsBoundedQueue
<1>1. Init => Abstract!Init
  BY DEF Init, Abstract!Init
<1>2. IInv /\ NoLag /\ [Next]_vars => [Abstract!Next]_(SubSeq(log, deque + 1, enque))
  <2> SUFFICES ASSUME IInv, NoLag, [Next]_vars
               PROVE  Abstract!Next \/ UNCHANGED SubSeq(log, deque + 1, enque)
    OBVIOUS
  <2>0. log \in Seq(Values) /\ Len(log) = enque /\ enque \in Nat /\ deque \in Nat
        /\ deque <= enque /\ BufferSize \in Nat
    BY SizeAssumption DEF IInv, TypeOK
  <2>1. ASSUME NEW p \in Producers, EnqueClaim(p) PROVE Abstract!Next
    <3>1. enque < deque + BufferSize
      BY <2>1, EnqueClaimIsNext
    <3>2. log' = Append(log, arg[p]) /\ enque' = enque + 1 /\ deque' = deque /\ arg[p] \in Values
      BY <2>1 DEF EnqueClaim, IInv, TypeOK
    <3>3. SubSeq(log', deque' + 1, enque') = Append(SubSeq(log, deque + 1, enque), arg[p])
      BY <2>0, <3>2, SubSeqAppend
    <3>4. Len(SubSeq(log, deque + 1, enque)) = enque - deque
      BY <2>0
    <3>5. Len(SubSeq(log, deque + 1, enque)) < BufferSize
      BY <2>0, <3>1, <3>4
    <3>6. Abstract!Put(arg[p])
      BY <3>3, <3>5 DEF Abstract!Put
    <3> QED BY <3>2, <3>6 DEF Abstract!Next
  <2>2. ASSUME NEW c \in Consumers, DequeClaim(c) PROVE Abstract!Next
    <3>1. deque < enque
      BY <2>2, DequeClaimIsNext
    <3>2. log' = log /\ enque' = enque /\ deque' = deque + 1
      BY <2>2 DEF DequeClaim
    <3>3. Abstract!Get
      BY <2>0, <3>1, <3>2, SubSeqTail DEF Abstract!Get
    <3> QED BY <3>3 DEF Abstract!Next
  <2>3. CASE UNCHANGED <<log, enque, deque>>
    BY <2>3
  <2>4. CASE UNCHANGED vars
    BY <2>3, <2>4 DEF vars
  <2>5. ASSUME NEW p \in Producers, Producer(p), ~EnqueClaim(p)
        PROVE  UNCHANGED <<log, enque, deque>>
    BY <2>5 DEF Producer, StartEnque, EnqueLoad, EnqueCheck, EnqueClaimFails, EnqueWrite,
          EnquePublish, EnqueGiveUp, EnqueRetry
  <2>6. ASSUME NEW c \in Consumers, Consumer(c), ~DequeClaim(c)
        PROVE  UNCHANGED <<log, enque, deque>>
    BY <2>6 DEF Consumer, DequeLoad, DequeCheck, DequeClaimFails, DequeRead, DequeRelease
  <2> QED BY <2>1, <2>2, <2>3, <2>4, <2>5, <2>6 DEF Next
<1> QED BY <1>1, <1>2, Invariance, PTL DEF Spec, ImplementsBoundedQueue, Abstract!Spec

-----------------------------------------------------------------------------
(* One producer and one consumer, the way ThreadState uses the queue: the  *)
(* owning thread enqueues, the background thread dequeues.  Then nobody    *)
(* else moves a counter, and the hypothesis NoLag is not needed.           *)

OneOfEach == /\ \A p, q \in Producers : p = q
             /\ \A c, d \in Consumers : c = d

\* a target once loaded stays equal to the counter
Current == /\ \A p \in Producers : ppc[p] \in {"check", "claim"} => ptgt[p] = enque
           /\ \A c \in Consumers : cpc[c] \in {"check", "claim"} => ctgt[c] = deque

\* Nobody is overtaken while every target is the counter it was loaded from.
LEMMA CurrentNoLag == IInv /\ Current => NoLag
<1>1. Modulus \div 2 - BufferSize > 0
  BY ModulusAssumption, SizeAssumption
<1>2. Modulus \div 2 \in Int /\ BufferSize \in Int
  BY ModulusAssumption, SizeAssumption
<1> QED BY <1>1, <1>2 DEF IInv, TypeOK, Current, NoLag

\* With one thread on each side, nobody else moves the counter it loaded.
LEMMA NextCurrent ==
  ASSUME OneOfEach, IInv, Current, [Next]_vars
  PROVE  Current'
<1>1. ASSUME NEW p \in Producers, Producer(p) PROVE Current'
  BY <1>1 DEF Producer, StartEnque, EnqueLoad, EnqueCheck, EnqueClaim, EnqueClaimFails,
        EnqueWrite, EnquePublish, EnqueGiveUp, EnqueRetry, consumerVars,
        IInv, TypeOK, Current, OneOfEach
<1>2. ASSUME NEW c \in Consumers, Consumer(c) PROVE Current'
  BY <1>2 DEF Consumer, DequeLoad, DequeCheck, DequeClaim, DequeClaimFails, DequeRead,
        DequeRelease, producerVars, IInv, TypeOK, Current, OneOfEach
<1>3. CASE UNCHANGED vars
  BY <1>3 DEF Current, vars
<1> QED BY <1>1, <1>2, <1>3 DEF Next

\* With one producer and one consumer the queue is correct through any number
\* of wraps of its counters, however long either thread is delayed.
THEOREM SingleProducerConsumer ==
  ASSUME OneOfEach
  PROVE  Spec => [](IInv /\ NoLag)
<1>1. Init => Current
  BY DEF Init, Current
<1>2. IInv /\ Current /\ [Next]_vars => IInv' /\ Current'
  BY NextIInv, NextCurrent, CurrentNoLag
<1> QED BY <1>1, <1>2, InitIInv, CurrentNoLag, PTL DEF Spec
=============================================================================
