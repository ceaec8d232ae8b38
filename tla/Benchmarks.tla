------------------------------ MODULE Benchmarks ------------------------------
(****************************************************************************)
(* The benchmark programs under bench/: bm_runner of bm_spsc_threads.cpp    *)
(* with the loops it is given, the loops of bm_spsc_direct.cpp, and bench   *)
(* of bm_SPSCQueue.cpp and bm_PubSub.cpp.                                   *)
(*                                                                          *)
(* The queue between the loops is the one MessageFIFO specifies, of bounded *)
(* capacity: SPSCQueue is shown to implement it, and the programs use the   *)
(* queues of other libraries as if they did.  A call that a queue refuses   *)
(* is repeated by the loops; pause and yield between two tries change       *)
(* nothing.  Three of the functions are not registered with BENCH.          *)
(****************************************************************************)
EXTENDS Naturals, Sequences

CONSTANTS
  msg_count,         \* messages per iteration
  queue_capacity,
  Iterations         \* bound: iterations of the benchmark's state

ASSUME BenchmarksAssumption ==
  msg_count \in Nat /\ queue_capacity \in Nat \ {0} /\ Iterations \in Nat

VARIABLES
  bench,             \* the benchmark that is run; it never changes
  queue, received,   \* as in MessageFIFO
  mu,                \* deque_mutex: the mutex is locked
  mpc, pushed,       \* main thread: where it is; counter of the producer
  ready,
  cpc, counter, sum, \* consumer thread: where it is, its locals
  iteration          \* iterations completed

mainVars == <<mpc, pushed, ready, iteration>>
consumerVars == <<cpc, counter, sum>>
vars == <<bench, queue, received, mu, mainVars, consumerVars>>

Items == 0 .. msg_count - 1
FIFO == INSTANCE MessageFIFO WITH Message <- Items

----------------------------------------------------------------------------
(* Each benchmark: who runs the loops, how one pushes and how one pops. *)

Loops(runner, push, pop) == [runner |-> runner, push |-> push, pop |-> pop]

deque_mutex == Loops("bm_runner", "notify", "wait")
moodycamel_ReaderWriterQueue == Loops("bm_runner", "try", "pop")
moodycamel_BlockingReaderWriterQueue_wait == Loops("bm_runner", "try", "pop")
boost_lockfree_queue_busyspin == Loops("bm_runner", "try", "pop")
boost_lockfree_spsc_queue_busyspin == Loops("bm_runner", "try", "drain")
boost_lockfree_spsc_queue_yield == Loops("bm_runner", "try", "pop")
rigtorp_SPSCQueue_busyspin == Loops("bm_runner", "try", "front")
rigtorp_SPSCQueue_yield == Loops("bm_runner", "try", "front")
rigtorp_SPSCQueue_pause_pc == Loops("bm_runner", "try", "front")
rigtorp_SPSCQueue_pause_p == Loops("bm_runner", "try", "front")
rigtorp_SPSCQueue_pause_c == Loops("bm_runner", "try", "front")
own_SPSCQueue_busyspin == Loops("bm_runner", "try", "front")
own_SPSCQueue_pause_c == Loops("bm_runner", "try", "front")

bm_SPSCQueue_bench == Loops("bench", "try", "front")
bm_PubSub_bench == Loops("bench", "try", "front")

boost_spsc_queue_stack == Loops("direct", "once", "pop")
boost_spsc_queue_heap == Loops("direct", "once", "pop")
rigtorp_SPSCQueue_stack == Loops("direct", "once", "front")
rigtorp_SPSCQueue_heap == Loops("direct", "once", "front")
moodycamel_ReaderWriterQueue_stack == Loops("direct", "once", "pop")
moodycamel_ReaderWriterQueue_heap == Loops("direct", "once", "pop")
own_SPSCQueue_heap == Loops("direct", "once", "front")

(* Benchmarks with the same loops behave alike. *)
Programs ==
  {deque_mutex, moodycamel_ReaderWriterQueue, moodycamel_BlockingReaderWriterQueue_wait,
   boost_lockfree_queue_busyspin, boost_lockfree_spsc_queue_busyspin,
   boost_lockfree_spsc_queue_yield, rigtorp_SPSCQueue_busyspin, rigtorp_SPSCQueue_yield,
   rigtorp_SPSCQueue_pause_pc, rigtorp_SPSCQueue_pause_p, rigtorp_SPSCQueue_pause_c,
   own_SPSCQueue_busyspin, own_SPSCQueue_pause_c, bm_SPSCQueue_bench, bm_PubSub_bench,
   boost_spsc_queue_stack, boost_spsc_queue_heap, rigtorp_SPSCQueue_stack,
   rigtorp_SPSCQueue_heap, moodycamel_ReaderWriterQueue_stack,
   moodycamel_ReaderWriterQueue_heap, own_SPSCQueue_heap}

----------------------------------------------------------------------------
(* bm_runner, bench *)

StartIteration ==
  /\ mpc = "idle" /\ iteration < Iterations
  /\ pushed' = 0 /\ ready' = FALSE /\ counter' = 0 /\ sum' = 0
  /\ mpc' = IF bench.runner = "bm_runner" THEN "wait_ready" ELSE "produce"
  /\ cpc' = "start"
  /\ UNCHANGED <<bench, queue, received, mu, iteration>>

ConsumerStarts ==
  /\ cpc = "start"
  /\ ready' = TRUE
  /\ cpc' = "loop"
  /\ UNCHANGED <<bench, queue, received, mu, mpc, pushed, iteration, counter, sum>>

SeesReady ==
  /\ mpc = "wait_ready" /\ ready
  /\ mpc' = "produce"
  /\ UNCHANGED <<bench, queue, received, mu, pushed, ready, iteration, consumerVars>>

(* The deque of deque_mutex grows. *)
HasRoom == bench.push = "notify" \/ Len(queue) < queue_capacity

(* Mutant: the queue does not notice that it is full. *)
Push_Overfills ==
  /\ mpc = "produce" /\ pushed < msg_count
  /\ ~ mu
  /\ bench.runner = "direct" => cpc = "loop" /\ pushed = counter
  /\ FIFO!Send(pushed)
  /\ pushed' = pushed + 1
  /\ cpc' = IF cpc = "waiting" THEN "notified" ELSE cpc
  /\ UNCHANGED <<bench, mu, mpc, ready, iteration, counter, sum>>

(* The loops go on with the push that succeeds; the item is the counter.     *)
(* deque_mutex pushes under the mutex and notifies the consumer.  A direct   *)
(* benchmark pushes when it has popped what it pushed before, and goes on    *)
(* whether or not the queue took the item.                                   *)
Push ==
  /\ mpc = "produce" /\ pushed < msg_count
  /\ ~ mu
  /\ IF bench.runner = "direct" THEN cpc = "loop" /\ pushed = counter ELSE HasRoom
  /\ IF HasRoom THEN FIFO!Send(pushed) ELSE UNCHANGED <<queue, received>>
  /\ pushed' = pushed + 1
  /\ cpc' = IF cpc = "waiting" THEN "notified" ELSE cpc
  /\ UNCHANGED <<bench, mu, mpc, ready, iteration, counter, sum>>

(* Mutant: one push too many. *)
ProducerEnds_TooLate ==
  /\ mpc = "produce" /\ pushed = msg_count
  /\ HasRoom
  /\ FIFO!Send(0)
  /\ mpc' = "join"
  /\ UNCHANGED <<bench, mu, pushed, ready, iteration, consumerVars>>

ProducerEnds ==
  /\ mpc = "produce" /\ pushed = msg_count
  /\ mpc' = "join"
  /\ UNCHANGED <<bench, queue, received, mu, pushed, ready, iteration, consumerVars>>

Join ==
  /\ mpc = "join" /\ cpc = "returned"
  /\ mpc' = "idle"
  /\ iteration' = iteration + 1
  /\ UNCHANGED <<bench, queue, received, mu, pushed, ready, consumerVars>>

(* The sanity checks of bm_runner, the assert of the direct benchmarks. *)
Sane == counter = msg_count /\ sum = ((msg_count - 1) * msg_count) \div 2

(* The consumer's loop ends, and what it returns is checked. *)
ConsumerReturns ==
  /\ cpc = "loop" /\ counter >= msg_count
  /\ cpc' = IF Sane \/ bench.runner = "bench" THEN "returned" ELSE "exit"
  /\ UNCHANGED <<bench, queue, received, mu, mainVars, counter, sum>>

----------------------------------------------------------------------------
(* The consumers' loops *)

Counts == counter' = counter + 1 /\ sum' = sum + Head(queue)

(* while (!pop(item)); and the if (pop(item)) of a direct benchmark *)
Pop ==
  /\ bench.pop = "pop"
  /\ cpc = "loop" /\ counter < msg_count
  /\ FIFO!Receive
  /\ Counts
  /\ UNCHANGED <<bench, mu, mainVars, cpc>>

(* front, or dequeue_begin, returns a message, *)
Front ==
  /\ bench.pop = "front"
  /\ cpc = "loop" /\ counter < msg_count
  /\ queue # <<>>
  /\ Counts
  /\ cpc' = "front"
  /\ UNCHANGED <<bench, queue, received, mu, mainVars>>

(* which pop, or dequeue_commit, then removes. *)
PopFront ==
  /\ cpc = "front"
  /\ FIFO!Receive
  /\ cpc' = "loop"
  /\ UNCHANGED <<bench, mu, mainVars, counter, sum>>

(* while (counter < msg_count) while (pop(item)): the inner loop does not    *)
(* look at the counter.                                                      *)
DrainBegins ==
  /\ bench.pop = "drain"
  /\ cpc = "loop" /\ counter < msg_count
  /\ cpc' = "drain"
  /\ UNCHANGED <<bench, queue, received, mu, mainVars, counter, sum>>

DrainPops ==
  /\ cpc = "drain"
  /\ FIFO!Receive
  /\ Counts
  /\ UNCHANGED <<bench, mu, mainVars, cpc>>

DrainEnds ==
  /\ cpc = "drain"
  /\ cpc' = "loop"
  /\ UNCHANGED <<bench, queue, received, mu, mainVars, counter, sum>>

(* deque_mutex: lock, and again after having waited; *)
Locks ==
  /\ \/ bench.pop = "wait" /\ cpc = "loop" /\ counter < msg_count
     \/ cpc = "notified"
  /\ ~ mu /\ mu' = TRUE
  /\ cpc' = "locked"
  /\ UNCHANGED <<bench, queue, received, mainVars, counter, sum>>

(* Mutant: the consumer waits without looking at the queue. *)
Waits_NoPredicate ==
  /\ cpc = "locked"
  /\ mu' = FALSE
  /\ cpc' = "waiting"
  /\ UNCHANGED <<bench, queue, received, mainVars, counter, sum>>

(* cv.wait releases the mutex and waits, *)
Waits ==
  /\ cpc = "locked" /\ queue = <<>>
  /\ mu' = FALSE
  /\ cpc' = "waiting"
  /\ UNCHANGED <<bench, queue, received, mainVars, counter, sum>>

(* until it is notified or for no reason, *)
WakesUp ==
  /\ cpc = "waiting"
  /\ cpc' = "notified"
  /\ UNCHANGED <<bench, queue, received, mu, mainVars, counter, sum>>

(* the deque is emptied, *)
LockedPops ==
  /\ cpc = "locked"
  /\ FIFO!Receive
  /\ Counts
  /\ cpc' = "emptying"
  /\ UNCHANGED <<bench, mu, mainVars>>

EmptyingPops ==
  /\ cpc = "emptying"
  /\ FIFO!Receive
  /\ Counts
  /\ UNCHANGED <<bench, mu, mainVars, cpc>>

(* and the mutex is unlocked. *)
Unlocks ==
  /\ cpc = "emptying" /\ queue = <<>>
  /\ mu' = FALSE
  /\ cpc' = "loop"
  /\ UNCHANGED <<bench, queue, received, mainVars, counter, sum>>

----------------------------------------------------------------------------
Init ==
  /\ bench \in Programs
  /\ FIFO!Init
  /\ mu = FALSE
  /\ mpc = "idle" /\ pushed = 0 /\ ready = FALSE
  /\ cpc = "none" /\ counter = 0 /\ sum = 0
  /\ iteration = 0

Main == StartIteration \/ SeesReady \/ Push \/ ProducerEnds \/ Join

Consumer ==
  \/ ConsumerStarts \/ ConsumerReturns \/ Pop \/ Front \/ PopFront
  \/ DrainBegins \/ DrainPops \/ DrainEnds
  \/ Locks \/ Waits \/ LockedPops \/ EmptyingPops \/ Unlocks

Finished == mpc = "idle" /\ iteration = Iterations

Next == Main \/ Consumer \/ WakesUp \/ (Finished /\ UNCHANGED vars)

(* Both threads run on; a pop that keeps finding a message returns it; the   *)
(* mutex goes to a thread that finds it free again and again.  Nothing wakes *)
(* a waiting consumer but a notification.                                    *)
Fairness ==
  /\ WF_vars(Main) /\ WF_vars(Consumer)
  /\ SF_vars(Push) /\ SF_vars(Locks) /\ SF_vars(DrainPops)

Spec == Init /\ [][Next]_vars /\ Fairness

----------------------------------------------------------------------------
TypeOK ==
  /\ bench \in Programs
  /\ queue \in Seq(Items) /\ (HasRoom \/ Len(queue) = queue_capacity)
  /\ received \in Seq(Items)
  /\ mu \in BOOLEAN /\ ready \in BOOLEAN
  /\ mpc \in {"idle", "wait_ready", "produce", "join"}
  /\ cpc \in {"none", "start", "loop", "front", "drain", "locked", "waiting",
              "notified", "emptying", "returned", "exit"}
  /\ pushed \in 0 .. msg_count /\ counter \in 0 .. msg_count
  /\ iteration \in 0 .. Iterations

(* Iterations do not reach into each other: the queue is empty when the      *)
(* consumer has been joined, though the inner loops do not count, and the    *)
(* sanity checks of bm_runner and the asserts of the direct benchmarks (as   *)
(* many messages as were sent, and their sum) hold in every iteration.       *)
IterationsIndependent == /\ mpc = "idle" => queue = <<>>
                         /\ cpc # "exit"

(* Every benchmark ends: no retry loop spins forever and the consumer of     *)
(* deque_mutex does not sleep through a notification.                        *)
BenchmarkEnds == <>Finished
==============================================================================
