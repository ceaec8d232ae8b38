--------------------------- MODULE BenchmarksProofs ---------------------------
(****************************************************************************)
(* The benchmark programs keep their iterations apart, pass their sanity    *)
(* checks and lose no wake-up, for any number of messages and iterations    *)
(* and any capacity of the queue.                                           *)
(****************************************************************************)
EXTENDS Benchmarks, Integers, TLAPS

(* The messages a to b - 1 of an iteration, and how many of them are gone    *)
(* from the queue: front hands out a message that is still there.            *)
Messages(a, b) == [k \in 1 .. b - a |-> (a + k) - 1]
Gone == IF cpc = "front" THEN counter - 1 ELSE counter

(* The queue holds what was pushed and is not gone, in order; the consumer's *)
(* locals are right for the messages it has counted.                         *)
CountInv ==
  /\ pushed \in Nat /\ counter \in Nat /\ sum \in Nat
  /\ counter <= pushed /\ pushed <= msg_count
  /\ cpc = "front" => counter > 0
  /\ queue = Messages(Gone, pushed)
  /\ 2 * sum = counter * (counter - 1)
  /\ bench.push = "notify" \/ pushed - Gone <= queue_capacity

(* Where the two threads are, and what that says of their counters: a        *)
(* consumer that may wait has messages to come.                              *)
PhaseInv ==
  /\ mpc \in {"idle", "wait_ready", "produce", "join"}
  /\ cpc \in {"none", "start", "loop", "front", "drain", "locked", "waiting",
              "notified", "emptying", "returned"}
  /\ mpc = "idle" => cpc \in {"none", "returned"} /\ pushed = counter
  /\ mpc = "join" => pushed = msg_count
  /\ cpc = "returned" => counter = msg_count
  /\ cpc \in {"locked", "waiting", "notified"} => counter < msg_count
  /\ cpc = "waiting" => counter = pushed
  /\ iteration \in 0 .. Iterations
  /\ mpc # "idle" => iteration < Iterations

PlainInv ==
  /\ bench \in Programs
  /\ received \in Seq(Items)
  /\ mu \in BOOLEAN /\ ready \in BOOLEAN

----------------------------------------------------------------------------
(* Sequences of messages: their length, how they grow and how they shrink.   *)
LEMMA MessagesLength ==
  ASSUME NEW a \in Nat, NEW b \in Nat, a <= b
  PROVE  /\ Messages(a, b) \in Seq(Nat) /\ Len(Messages(a, b)) = b - a
         /\ Messages(a, b) = <<>> <=> a = b
<1>1. Messages(a, b) \in Seq(Nat) /\ Len(Messages(a, b)) = b - a
  BY DEF Messages
<1> QED
  BY <1>1

LEMMA MessagesGrow ==
  ASSUME NEW a \in Nat, NEW b \in Nat, a <= b
  PROVE  Append(Messages(a, b), b) = Messages(a, b + 1)
BY DEF Messages

LEMMA MessagesShrink ==
  ASSUME NEW a \in Nat, NEW b \in Nat, a < b
  PROVE  Head(Messages(a, b)) = a /\ Tail(Messages(a, b)) = Messages(a + 1, b)
<1> DEFINE s == Messages(a, b)
<1>1. s \in Seq(Nat) /\ Len(s) = b - a /\ s # <<>>
  BY MessagesLength
<1>2. ASSUME NEW k \in 1 .. b - a PROVE s[k] = (a + k) - 1
  BY DEF Messages
<1>3. Head(s) = s[1] /\ Tail(s) = [k \in 1 .. Len(s) - 1 |-> s[k + 1]]
  <2> HIDE DEF s
  <2>1. Tail(s) \in Seq(Nat) /\ Len(Tail(s)) = Len(s) - 1 /\ Len(s) \in Nat \ {0}
    BY <1>1
  <2>2. \A k \in 1 .. Len(s) - 1 : Tail(s)[k] = s[k + 1]
    BY <1>1
  <2>3. \A t \in Seq(Nat) : t = [k \in 1 .. Len(t) |-> t[k]]
    OBVIOUS
  <2>4. Head(s) = s[1]
    BY <1>1
  <2> QED
    BY <2>1, <2>2, <2>3, <2>4, Zenon
<1>4. ASSUME NEW k \in 1 .. (b - a) - 1 PROVE s[k + 1] = ((a + 1) + k) - 1
  <2>1. k + 1 \in 1 .. b - a
    BY <1>4
  <2>2. s[k + 1] = (a + (k + 1)) - 1
    BY <1>2, <2>1
  <2> QED
    BY <2>2
<1>5. s[1] = a
  <2>1. 1 \in 1 .. b - a
    OBVIOUS
  <2>2. s[1] = (a + 1) - 1
    BY <1>2, <2>1
  <2> QED
    BY <2>2
<1>6. b - (a + 1) = (b - a) - 1
  OBVIOUS
<1>7. [k \in 1 .. (b - a) - 1 |-> s[k + 1]] = [k \in 1 .. (b - a) - 1 |-> ((a + 1) + k) - 1]
  BY <1>4, Zenon
<1>8. Tail(s) = [k \in 1 .. b - (a + 1) |-> ((a + 1) + k) - 1]
  BY <1>1, <1>3, <1>6, <1>7, Zenon
<1> QED
  BY <1>3, <1>5, <1>8, Zenon DEF Messages

(* Messages are the items of an iteration.                                   *)
LEMMA MessagesItems ==
  ASSUME NEW a \in Nat, NEW b \in Nat, a <= b, b <= msg_count
  PROVE  Messages(a, b) \in Seq(Items)
BY BenchmarksAssumption DEF Messages, Items

(* One more message counted.                                                 *)
LEMMA Triangle ==
  ASSUME NEW c \in Nat, NEW s \in Nat, 2 * s = c * (c - 1)
  PROVE  2 * (s + c) = (c + 1) * ((c + 1) - 1)
OBVIOUS

(* What is gone is a number of messages.                                     *)
LEMMA GoneFacts ==
  ASSUME CountInv
  PROVE  Gone \in Nat /\ Gone <= counter /\ Gone <= pushed /\ msg_count \in Nat
BY BenchmarksAssumption DEF CountInv, Gone

----------------------------------------------------------------------------
(* Nothing sent yet.                                                         *)
LEMMA InitCount == Init => CountInv /\ PhaseInv /\ PlainInv
<1> SUFFICES ASSUME Init PROVE CountInv /\ PhaseInv /\ PlainInv
  OBVIOUS
<1>1. Gone = 0 /\ Messages(0, 0) = <<>>
  BY MessagesLength DEF Init, Gone
<1>2. CountInv
  BY <1>1, BenchmarksAssumption DEF Init, CountInv, FIFO!Init
<1>3. PhaseInv
  BY BenchmarksAssumption DEF Init, PhaseInv
<1>4. PlainInv
  <2>1. <<>> \in Seq(Items)
    OBVIOUS
  <2> QED
    BY <2>1, Zenon DEF Init, PlainInv, FIFO!Init
<1> QED
  BY <1>2, <1>3, <1>4

(* A step that counts, pushes and pops nothing.                              *)
LEMMA CountFrame ==
  ASSUME CountInv, UNCHANGED <<bench, queue, pushed, counter, sum>>,
         cpc' = "front" <=> cpc = "front"
  PROVE  CountInv'
BY DEF CountInv, Gone

(* The consumer takes the first message: it is the one it counts.            *)
LEMMA Consumes ==
  ASSUME CountInv, cpc # "front", cpc' # "front", FIFO!Receive, Counts,
         UNCHANGED <<bench, pushed>>
  PROVE  CountInv' /\ counter < pushed /\ counter' = counter + 1
<1>1. Gone = counter /\ Gone' = counter' /\ counter' = counter + 1
  BY DEF Gone, Counts
<1>2. /\ pushed \in Nat /\ counter \in Nat /\ sum \in Nat /\ counter <= pushed
      /\ queue = Messages(counter, pushed) /\ queue # <<>> /\ queue' = Tail(queue)
  BY <1>1 DEF CountInv, FIFO!Receive
<1>3. counter < pushed
  <2>1. counter # pushed
    BY <1>2, MessagesLength
  <2> QED
    BY <1>2, <2>1
<1>r. Head(queue) = counter /\ queue' = Messages(counter + 1, pushed)
  BY <1>2, <1>3, MessagesShrink
<1>4. sum' = sum + counter /\ 2 * sum' = (counter + 1) * ((counter + 1) - 1)
  BY <1>2, <1>r, Triangle DEF Counts, CountInv
<1>5. bench.push = "notify" \/ pushed - (counter + 1) <= queue_capacity
  BY <1>1, <1>2, BenchmarksAssumption DEF CountInv
<1> QED
  BY <1>1, <1>2, <1>3, <1>r, <1>4, <1>5 DEF CountInv

(* The queue holds the right messages after every step.                      *)
LEMMA NextCount == CountInv /\ PhaseInv /\ [Next]_vars => CountInv'
<1> SUFFICES ASSUME CountInv, PhaseInv, [Next]_vars PROVE CountInv'
  OBVIOUS
<1> USE DEF mainVars, consumerVars
<1>1. CASE StartIteration
  <2>1. Gone = counter /\ pushed = counter /\ counter \in Nat
    BY <1>1 DEF StartIteration, PhaseInv, Gone, CountInv
  <2>e. queue = Messages(counter, counter)
    BY <2>1 DEF CountInv
  <2>2. queue = <<>> /\ Messages(0, 0) = <<>>
    BY <2>1, <2>e, MessagesLength
  <2>3. Gone' = 0
    BY <1>1 DEF StartIteration, Gone
  <2> QED
    BY <1>1, <2>2, <2>3, BenchmarksAssumption DEF StartIteration, CountInv
<1>2. CASE Push
  <2>1. Gone' = Gone /\ (cpc' = "front" <=> cpc = "front")
    BY <1>2 DEF Push, Gone
  <2>2. Gone \in Nat /\ Gone <= pushed /\ pushed \in Nat /\ queue = Messages(Gone, pushed)
    BY GoneFacts DEF CountInv
  <2>3. Len(queue) = pushed - Gone
    BY <2>2, MessagesLength
  <2>r. HasRoom
    <3>1. CASE bench.runner # "direct"
      BY <1>2, <3>1 DEF Push
    <3>2. CASE bench.runner = "direct"
      <4>1. pushed = Gone
        BY <1>2, <3>2 DEF Push, Gone
      <4> QED
        BY <2>2, <2>3, <4>1, BenchmarksAssumption DEF HasRoom
    <3> QED
      BY <3>1, <3>2
  <2>4. bench.push = "notify" \/ (pushed + 1) - Gone <= queue_capacity
    BY <2>2, <2>3, <2>r, BenchmarksAssumption DEF HasRoom
  <2>6. queue' = Messages(Gone, pushed + 1)
    BY <1>2, <2>2, <2>r, MessagesGrow DEF Push, FIFO!Send
  <2>5. /\ pushed' = pushed + 1 /\ pushed + 1 <= msg_count
        /\ UNCHANGED <<bench, counter, sum>>
    BY <1>2, <2>2, BenchmarksAssumption DEF Push
  <2> QED
    BY <2>1, <2>2, <2>4, <2>5, <2>6 DEF CountInv
<1>3. CASE Front
  <2>1. Gone = counter /\ Gone' = counter /\ counter' = counter + 1
    BY <1>3 DEF Front, Gone, Counts, CountInv
  <2>2. /\ pushed \in Nat /\ counter \in Nat /\ sum \in Nat /\ counter <= pushed
        /\ queue = Messages(counter, pushed) /\ queue # <<>>
    BY <1>3, <2>1 DEF CountInv, Front
  <2>c. counter # pushed
    BY <2>2, MessagesLength
  <2>3. counter < pushed /\ Head(queue) = counter
    BY <2>2, <2>c, MessagesShrink
  <2>4. sum' = sum + counter /\ 2 * sum' = (counter + 1) * ((counter + 1) - 1)
    BY <1>3, <2>2, <2>3, Triangle DEF Front, Counts, CountInv
  <2>5. UNCHANGED <<bench, queue, pushed>>
    BY <1>3 DEF Front
  <2> QED
    BY <2>1, <2>2, <2>3, <2>4, <2>5 DEF CountInv
<1>4. CASE PopFront
  <2>1. Gone = counter - 1 /\ Gone' = counter /\ counter > 0
    BY <1>4 DEF PopFront, Gone, CountInv
  <2>2. /\ pushed \in Nat /\ counter \in Nat /\ counter <= pushed
        /\ queue = Messages(counter - 1, pushed)
    BY <2>1 DEF CountInv
  <2>3. Tail(queue) = Messages((counter - 1) + 1, pushed)
    BY <2>1, <2>2, MessagesShrink
  <2>4. queue' = Messages(counter, pushed)
    BY <1>4, <2>2, <2>3 DEF PopFront, FIFO!Receive
  <2>5. bench.push = "notify" \/ pushed - counter <= queue_capacity
    BY <2>1, <2>2, BenchmarksAssumption DEF CountInv
  <2>6. UNCHANGED <<bench, pushed, counter, sum>> /\ cpc' = "loop"
    BY <1>4 DEF PopFront
  <2> QED
    BY <2>1, <2>4, <2>5, <2>6 DEF CountInv
<1>5. CASE Pop \/ DrainPops \/ LockedPops \/ EmptyingPops
  BY <1>5, Consumes DEF Pop, DrainPops, LockedPops, EmptyingPops
<1>6. CASE SeesReady \/ ProducerEnds \/ Join \/ ConsumerStarts \/ ConsumerReturns
  BY <1>6, CountFrame DEF SeesReady, ProducerEnds, Join, ConsumerStarts, ConsumerReturns
<1>7. CASE DrainBegins \/ DrainEnds \/ Locks \/ Waits \/ WakesUp \/ Unlocks
  BY <1>7, CountFrame DEF DrainBegins, DrainEnds, Locks, Waits, WakesUp, Unlocks
<1>8. CASE UNCHANGED vars
  BY <1>8, CountFrame DEF vars
<1> QED
  BY <1>1, <1>2, <1>3, <1>4, <1>5, <1>6, <1>7, <1>8 DEF Next, Main, Consumer

(* What the consumer returns passes the sanity checks.                       *)
LEMMA SaneAtTheEnd ==
  ASSUME CountInv, counter >= msg_count
  PROVE  Sane
<1>1. counter = msg_count /\ msg_count \in Nat /\ sum \in Nat
  BY BenchmarksAssumption DEF CountInv
<1>2. (msg_count - 1) * msg_count = 2 * sum
  BY <1>1 DEF CountInv
<1>3. (2 * sum) \div 2 = sum
  BY <1>1
<1> QED
  BY <1>1, <1>2, <1>3 DEF Sane

(* The threads' phases and their counters agree after every step: in         *)
(* particular, the consumer waits only if nothing is in the queue, and a     *)
(* push ends the wait.                                                       *)
LEMMA NextPhase == CountInv /\ PhaseInv /\ [Next]_vars => PhaseInv'
<1> SUFFICES ASSUME CountInv, PhaseInv, [Next]_vars PROVE PhaseInv'
  OBVIOUS
<1> USE DEF mainVars, consumerVars
<1>0. /\ pushed \in Nat /\ counter \in Nat /\ msg_count \in Nat /\ Iterations \in Nat
      /\ counter <= pushed /\ pushed <= msg_count
  BY BenchmarksAssumption DEF CountInv
<1>1. CASE StartIteration
  BY <1>0, <1>1 DEF StartIteration, PhaseInv
<1>2. CASE Push
  BY <1>0, <1>2 DEF Push, PhaseInv
<1>3. CASE SeesReady \/ ProducerEnds \/ Join \/ ConsumerStarts
  BY <1>0, <1>3 DEF SeesReady, ProducerEnds, Join, ConsumerStarts, PhaseInv
<1>4. CASE ConsumerReturns
  <2>1. cpc' = "returned" /\ counter = msg_count
    BY <1>0, <1>4, SaneAtTheEnd DEF ConsumerReturns
  <2> QED
    BY <1>0, <1>4, <2>1 DEF ConsumerReturns, PhaseInv
<1>5. CASE Pop \/ DrainPops \/ LockedPops \/ EmptyingPops
  <2>1. counter < pushed /\ counter' = counter + 1
    BY <1>5, Consumes DEF Pop, DrainPops, LockedPops, EmptyingPops
  <2> QED
    BY <1>0, <1>5, <2>1 DEF Pop, DrainPops, LockedPops, EmptyingPops, PhaseInv
<1>6. CASE Front \/ PopFront
  BY <1>0, <1>6 DEF Front, PopFront, Counts, PhaseInv
<1>7. CASE DrainBegins \/ DrainEnds \/ WakesUp \/ Unlocks
  BY <1>0, <1>7 DEF DrainBegins, DrainEnds, WakesUp, Unlocks, PhaseInv
<1>8. CASE Locks
  BY <1>0, <1>8 DEF Locks, PhaseInv
<1>9. CASE Waits
  <2>1. queue = Messages(counter, pushed) /\ queue = <<>>
    BY <1>9 DEF Waits, CountInv, Gone
  <2>2. counter = pushed
    BY <1>0, <2>1, MessagesLength
  <2> QED
    BY <1>0, <1>9, <2>2 DEF Waits, PhaseInv
<1>10. CASE UNCHANGED vars
  BY <1>10 DEF vars, PhaseInv
<1> QED
  BY <1>1, <1>2, <1>3, <1>4, <1>5, <1>6, <1>7, <1>8, <1>9, <1>10 DEF Next, Main, Consumer

(* What is received was sent; the flags stay flags.                          *)
LEMMA NextPlain == CountInv /\ PlainInv /\ [Next]_vars => PlainInv'
<1> SUFFICES ASSUME CountInv, PlainInv, [Next]_vars PROVE PlainInv'
  OBVIOUS
<1>0. queue \in Seq(Items)
  <2>1. Gone \in Nat /\ pushed \in Nat /\ Gone <= pushed /\ pushed <= msg_count
    BY GoneFacts DEF CountInv
  <2> QED
    BY <2>1, MessagesItems DEF CountInv
<1>1. bench' = bench
  BY Zenon DEF Next, Main, Consumer, vars, StartIteration, SeesReady, Push, ProducerEnds,
    Join, ConsumerStarts, ConsumerReturns, Pop, Front, PopFront, DrainBegins, DrainPops,
    DrainEnds, Locks, Waits, WakesUp, LockedPops, EmptyingPops, Unlocks
<1>2. received' = received \/ FIFO!Receive
  BY Zenon DEF Next, Main, Consumer, vars, StartIteration, SeesReady, Push, ProducerEnds,
    Join, ConsumerStarts, ConsumerReturns, Pop, Front, PopFront, DrainBegins, DrainPops,
    DrainEnds, Locks, Waits, WakesUp, LockedPops, EmptyingPops, Unlocks, FIFO!Send
<1>3. received' \in Seq(Items)
  <2>1. ASSUME FIFO!Receive PROVE received' \in Seq(Items)
    <3>1. queue # <<>> /\ received' = Append(received, Head(queue)) /\ received \in Seq(Items)
      BY <2>1, Zenon DEF FIFO!Receive, PlainInv
    <3>2. Head(queue) \in Items
      BY <1>0, <3>1
    <3> QED
      BY <3>1, <3>2
  <2> QED
    BY <1>2, <2>1 DEF PlainInv
<1>4. mu' \in BOOLEAN /\ ready' \in BOOLEAN
  <2>1. \/ mu' \in {mu, TRUE, FALSE} /\ ready' \in {ready, TRUE, FALSE}
    BY Zenon DEF Next, Main, Consumer, vars, mainVars, StartIteration, SeesReady, Push,
      ProducerEnds, Join, ConsumerStarts, ConsumerReturns, Pop, Front, PopFront,
      DrainBegins, DrainPops, DrainEnds, Locks, Waits, WakesUp, LockedPops,
      EmptyingPops, Unlocks
  <2> QED
    BY <2>1, Zenon DEF PlainInv
<1> QED
  BY <1>1, <1>3, <1>4, Zenon DEF PlainInv

----------------------------------------------------------------------------
(* All three hold throughout.                                                *)
LEMMA AlwaysCounts == Spec => [](CountInv /\ PhaseInv /\ PlainInv)
BY InitCount, NextCount, NextPhase, NextPlain, PTL DEF Spec

(* The queues of the benchmarks stay within their capacity, nothing but the  *)
(* messages of an iteration is in them, and the consumers count no more      *)
(* messages than were sent.                                                  *)
THEOREM TypesKept == Spec => []TypeOK
<1>1. ASSUME CountInv, PhaseInv, PlainInv PROVE TypeOK
  <2>1. /\ Gone \in Nat /\ pushed \in Nat /\ counter \in Nat /\ Gone <= pushed
        /\ counter <= pushed /\ pushed <= msg_count /\ msg_count \in Nat
        /\ queue = Messages(Gone, pushed)
    BY <1>1, GoneFacts DEF CountInv
  <2>2. queue \in Seq(Items) /\ Len(queue) = pushed - Gone
    BY <2>1, MessagesItems, MessagesLength
  <2>3. bench.push = "notify" \/ Len(queue) <= queue_capacity
    BY <1>1, <2>2 DEF CountInv
  <2>4. HasRoom \/ Len(queue) = queue_capacity
    BY <2>1, <2>2, <2>3, BenchmarksAssumption DEF HasRoom
  <2>5. pushed \in 0 .. msg_count /\ counter \in 0 .. msg_count
    BY <2>1
  <2>6. /\ mpc \in {"idle", "wait_ready", "produce", "join"}
        /\ cpc \in {"none", "start", "loop", "front", "drain", "locked", "waiting",
                    "notified", "emptying", "returned", "exit"}
        /\ iteration \in 0 .. Iterations
    BY <1>1 DEF PhaseInv
  <2> QED
    BY <1>1, <2>2, <2>4, <2>5, <2>6, Zenon DEF TypeOK, PlainInv
<1> QED
  BY <1>1, AlwaysCounts, PTL

(* No iteration leaves a message behind and no sanity check of bm_runner, no *)
(* assert of the direct benchmarks fails, though the inner loops of the      *)
(* consumers pop without looking at the count.                               *)
THEOREM IterationsApart == Spec => []IterationsIndependent
<1>1. ASSUME CountInv, PhaseInv PROVE IterationsIndependent
  <2>1. cpc # "exit"
    BY <1>1 DEF PhaseInv
  <2>2. ASSUME mpc = "idle" PROVE queue = <<>>
    <3>1. counter \in Nat /\ queue = Messages(counter, counter)
      BY <1>1, <2>2 DEF PhaseInv, CountInv, Gone
    <3> QED
      BY <3>1, MessagesLength
  <2> QED
    BY <2>1, <2>2 DEF IterationsIndependent
<1> QED
  BY <1>1, AlwaysCounts, PTL

(* The safety half of BenchmarkEnds for deque_mutex: while the consumer      *)
(* waits, the deque is empty and the producer has a push to come, which      *)
(* notifies it.                                                              *)
NoLostWakeUp == cpc = "waiting" => queue = <<>> /\ pushed < msg_count

THEOREM WakeUpToCome == Spec => []NoLostWakeUp
<1>1. ASSUME CountInv, PhaseInv PROVE NoLostWakeUp
  <2>1. ASSUME cpc = "waiting" PROVE queue = <<>> /\ pushed < msg_count
    <3>1. counter \in Nat /\ queue = Messages(counter, counter) /\ pushed < msg_count
      BY <1>1, <2>1 DEF PhaseInv, CountInv, Gone
    <3> QED
      BY <3>1, MessagesLength
  <2> QED
    BY <2>1 DEF NoLostWakeUp
<1> QED
  BY <1>1, AlwaysCounts, PTL

(* The direct benchmarks do not look at what push returns, and need not:     *)
(* when they push, the queue is empty.                                       *)
DirectPushFits ==
  bench.runner = "direct" /\ cpc = "loop" /\ pushed = counter => queue = <<>> /\ HasRoom

(* That holds for every capacity: no item of a direct benchmark is dropped.  *)
THEOREM DirectNeverRefused == Spec => []DirectPushFits
<1>1. ASSUME CountInv PROVE DirectPushFits
  <2>1. ASSUME cpc = "loop", pushed = counter PROVE queue = <<>> /\ HasRoom
    <3>1. counter \in Nat /\ queue = Messages(counter, counter)
      BY <1>1, <2>1 DEF CountInv, Gone
    <3>2. queue = <<>>
      BY <3>1, MessagesLength
    <3> QED
      BY <3>2, BenchmarksAssumption DEF HasRoom
  <2> QED
    BY <2>1 DEF DirectPushFits
<1> QED
  BY <1>1, AlwaysCounts, PTL
=============================================================================
