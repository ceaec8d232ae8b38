# Verification of posixipc-cpp

posixipc-cpp is a header-only C++23 library: a lock-free ring for one producer
and one consumer (`SPSCQueue`) that lives in POSIX shared memory, and a small
publish/subscribe layer on top of it. This directory holds TLA+ models of it,
TLC configurations that check them on small instances, and proofs for TLAPS.

The repository also carries queues and programs of its own under `examples/` and
`bench/`; they are modelled as well.

Run `tlc -config X.cfg M` for the runs of the table below, and `tlapm M.tla`
for the eight proof modules (about 35 minutes together).

## The system

| part | state | operations | what makes it hard |
| --- | --- | --- | --- |
| `SPSCQueue` on `SPSCStorage` | `read_ix_`, `write_ix_`, `msg_count_`, buffer | `enqueue`, `dequeue_begin`, `dequeue_commit`; `is_empty`, `can_dequeue`, `size` | plain memory copies ordered by two atomics; stale loads; wrap-around with variable sizes; a process dying inside a call |
| `Message`, `MessageView` | payload pointer and size | sizes, reading through the view | a view points into the ring until it is committed |
| `SharedMemory` | name in `/dev/shm`, object, descriptor, mapping | `exists`, `open`, `open_or_create`, destructor | every call is several system calls that race with another process |
| `SPSCStorage` header | `magic_`, `abi_version_`, `storage_size_` | constructor, `map` | plain stores, read by another process |
| `Publisher`, `Subscriber` | configuration, mapping, queue | `from_config`, and the calls of the queue | find each other by name only; restart on what they left behind |
| `PubSub` | publishers, pending changes, spin lock | `sync_configs`, `publish` | a configuration thread next to the publishing thread; one of several steps failing |
| `SpinLock` | one flag | `lock`, `unlock` | fairness |
| `examples/mpmc.hpp` | `head_`, `tail_`, slots with a turn each | `emplace`, `try_emplace`, `pop`, `try_pop`, `size`, `~Slot` | tickets and turns keep any number of threads apart; calls finish out of the order of their tickets |
| `examples/SPSC.cpp` | five ring buffers | `push`, `pop` of each, `bench` | cached copies of the other thread's index; full and empty differ by one |
| `examples/condvar_client_server.cpp`, `examples/atomic_client_server.cpp` | one request pointer | server and client threads | a signal wakes any waiter; the answer is visible before the pointer is reset |
| `bench/*.cpp` | counters, a queue | producer and consumer loops of 22 benchmarks | retry loops, a condition variable, a queue that lives through all iterations |
| `threads`, `errors`, `rdtsc`, `enums`, `PubSubConfig` | none that is shared | wrappers, texts | - |

The parts of the library meet in the shared memory segment.
`Publisher::from_config` creates or takes over the segment and constructs the
storage in it; `Subscriber::from_config` opens and validates it; from then on
the two only share the ring. `PubSub` owns one `Publisher` per subscriber. In
the models they meet in `MessageFIFO`: `SPSCQueue` is shown to implement it, and
`PubSub` and `Benchmarks` use a queue of that kind.

`PROJECT.json` lists the hazards of this code at the lines where they bite, and
the properties that watch them.

## Modules

### SPSCQueue.tla

One action for each access of `enqueue` and of `dequeue_begin`/`dequeue_commit`
to shared memory, with the local computation that follows it.

* `read_ix_` and `write_ix_` are kept as their modification orders `rmo` and
  `wmo`. Each is stored by one thread (release) and loaded by the other
  (acquire), so a load may return any store not older than one already seen,
  and sees all that was written before that store. `pseen` and `cseen` are the
  positions the two threads have seen. `msg_count_` is changed by atomic
  read-modify-write operations only and is kept as its newest value, modulo
  `CountModulus` (2^64 in the code).
* The buffer is a function from 8-byte words to cells. A cell holds a size (0
  is the wrap sentinel) or bytes of the i-th message. A header read from bytes
  that are no header may return any number (`SizesAt`).
* The checks of `enqueue` are `Crosses`, `FullAhead`, `FullAfterWrap`, `Full`;
  the rounding is `next_index`. The two assertions of `enqueue` and the checks
  of `SPSCQueue::create` are assumptions on the constants.
* `ProducerCrash` and `ConsumerCrash`: a process dies anywhere in a call, and
  its successor attaches to the storage as it is.
* History variables: `sent`, `delivered`, the lap and the count of committed
  messages kept with each store, `crashes`, and `overruns`, which counts the
  wraps that `enqueue` accepts while `write_ix < read_ix`.

The successor of a dead consumer keeps `cseen` and that of a dead producer
`pseen`: a restart reads memory no older than its predecessor did, because
attaching goes through system calls that synchronise.

### MessageFIFO.tla and SPSCQueueRefinement.tla

`MessageFIFO` is what the queue promises: accepted messages leave in order,
each once. `SPSCQueueRefinement` gives the refinement mapping, the fairness and
the properties that need it.

### SPSCQueueRing.tla, SPSCQueueProofs.tla

The proofs about the ring, see below. `MCSPSC.tla` gives the specification of
the run `spsc`: `UntilOverrun` is `Next` up to the first overrun, and stands
still afterwards. The other modules named `...Proofs` hold the proofs about
the module they extend.

### Attach.tla

The way a publisher and a subscriber find each other through one `shm_name`.
One action per system call of `SharedMemory`, and per access to the header of
`SPSCStorage`. `link` is what the name refers to; an object has a size and
the header fields; each process has a descriptor, the length it mapped, and the
storage size that its `SPSCQueue` read. The constructor's stores to the header
become visible in any order, and `map()` runs between them. `Crash` and
`ProbeFails` let a process die or a system call fail at every point, and
`ProbeGetsZero` is `exists()` taking descriptor 0 for a failure. Storage sizes are
larger than `BUFFER_OFFSET`, the size of the header. The contents of the ring are left to `SPSCQueue.tla`.

### PubSub.tla

`PubSub` with its `SpinLock`. One thread calls `sync_configs` with any list of
names, one after the other; another calls `publish`. The steps of `sync_configs`
are taking the lock, each round of its two loops and their ends, with a
`from_config` that may fail in the second one, each round of the loop in
`apply_changes`, and clearing the queue of changes; those of `publish` are taking
the lock, each `enqueue`, and the return. `locked` is the flag of the spin lock
and guards nothing by itself: a thread that did not take it could act at any of
these points. A queue belongs to its name, not to its `Publisher`: the segment
stays when a `Publisher` goes, so `stream` is all that a subscriber ever gets.
An `enqueue` succeeds only if there is room and may always refuse, since a
refusal also depends on sizes and on a possibly stale index.
The caller of `publish` goes on after a refusal, as
`examples/pubsub_server` does, or repeats the message, as `bench/bm_PubSub.cpp`
does.
A configuration list may name a segment twice; `repeats` counts such lists.

### MPMC.tla

The queue of `examples/mpmc.hpp`, every atomic access a step. `emplace` and
`pop` take a ticket (`Claim`) and spin for their turn (`SpinEnds`);
`try_emplace` and `try_pop` are `Try`, `TryChecks`, `TryClaims` and
`TryReloads`; `Construct` and `Move` are the accesses to the element, which are
not atomic; `HandsOver` stores the slot's next turn. An element is named by the
ticket of its push. `head_`, `tail_` and the turns only count up, so an acquire
load may return any smaller number too, except one the thread has got past.
`size()` makes two relaxed loads at two moments: until all threads are joined
each returns anything that `head_` or `tail_` has been (`Loads`).

### RingBuffers.tla

The five ring buffers of `examples/SPSC.cpp` and their `bench`. The buffers have
the same steps and differ in which values of the other thread's index a call may
act on: `ringbuffer0_push` to `ringbuffer4_push`, and the same for `pop`. What a
call concludes from such a value is `Full` and `Empty`. The
refinement mapping takes them to `MessageFIFO`.

### Benchmarks.tla

`bm_runner` with the loops of each benchmark of `bm_spsc_threads.cpp`, those of
`bm_spsc_direct.cpp`, and the `bench` functions of `bm_SPSCQueue.cpp` and
`bm_PubSub.cpp`. Each benchmark is a record of its loops; the queue between them
is that of `MessageFIFO`, of bounded capacity. The 22 records reduce to a handful
of distinct loop shapes: most benchmarks differ in the queue they time, not in how
they use it. The direct benchmarks push whether or not there is room and ignore
the answer; the message is lost if there is none.

### RequestSlot.tla and RequestServers.tla

`RequestSlot` is one slot that clients fill and a server serves. `RequestServers`
is the two client/server examples, chosen in `Init`: one with a mutex and two
condition variables, in which a signal wakes any one waiter and a wait may end
for no reason, and one with atomics. It is shown to implement `RequestSlot`.

## Runs

| run | module, configuration | expected | shows |
| --- | --- | --- | --- |
| `spsc` | MCSPSC, SPSC.cfg | pass | with two slot sizes, up to the first overrun: the invariant of the proofs, correct delivery, no word written that is still to be read, equal indices mean empty; a message below half of the buffer is refused only by a queue that is not empty; the writer finds no fewer in `size()` than the queue holds, but for crashes; the overrun needs two slot sizes; the ring implements `MessageFIFO` with its liveness, and a producer that retries gets in |
| `spsc_overrun` | SPSCQueue, SPSCOverrun.cfg | violation | see finding 1 |
| `spsc_size` | SPSCQueue, SPSCSize.cfg | violation | see finding 5 |
| `attach` | Attach, Attach.cfg | pass | calls that do not overlap meet on one object with a constructed ring; a subscriber accepted by `map()` agrees with the publisher unless the object was truncated under it; a publisher that calls in turn gets in, and so does a subscriber that finds a publisher of its size; calls that overlap leave nothing behind that keeps the publisher out later |
| `attach_orphan` | Attach, AttachOrphan.cfg | violation | see finding 2 |
| `attach_stuck` | Attach, AttachStuck.cfg | violation | see finding 3 |
| `pubsub` | PubSub, PubSub.cfg | pass | the publishers match the configurations after every sync, and a subscriber gets no message twice or out of order, unless a sync failed, a name was configured twice or a caller repeated itself; a `publish` that returns true reached all; the vector never changes under the loop of `publish`; the lock is always released |
| `pubsub_failed_sync` | PubSub, PubSubFailedSync.cfg | violation | see finding 4 |
| `mpmc` | MPMC, MPMC.cfg | pass | no two threads in one slot; each pop gets the element of the push with its ticket; `~Slot` destroys what is there; `size()` is the number of elements once all threads are joined; all calls return |
| `ring_buffers` | RingBuffers, RingBuffers.cfg | pass | accesses to an element are ordered by the indices, however old the cached ones; on whichever index it acts, a call is refused exactly at the limit; each buffer implements `MessageFIFO`; `bench` ends |
| `benchmarks` | Benchmarks, Benchmarks.cfg | pass | every benchmark ends, its sanity checks hold, and no iteration leaves a message to the next |
| `request_servers` | RequestServers, RequestServers.cfg | pass | a client goes on only when its request was processed, once; both programs implement `RequestSlot`, for ever |

Bounds. Payloads of 4 and 16 bytes give slots of 16 and 24 bytes, one with
padding and one without. A buffer of 56 bytes holds three of the small ones and
divides by neither, so six messages wrap up to twice, with the sentinel at more than
one place, and meet every branch of `enqueue` with the reader ahead and behind,
up to the wrap that overruns it. `UntilOverrun` ends a behaviour there, because
what follows is what finding 1 is about; behaviours of one slot size never get
there. For the liveness properties a behaviour that ends at an overrun does not
count: a call is under way in it that fairness would have go on.
One crash is enough to have a successor in every state of a call.
`CountModulus` is larger than the numbers of messages and crashes together
(`BoundAssumption`), so that a counter below zero shows as a number larger than
any count, as in the code. `Attach` has one subscriber, since
the ring has one consumer, two storage sizes, for a match and a mismatch, and
two faults, so that a restart can fail again. `PubSub` has two names, so that one
queue can refuse what the other accepts, lists of up to two configurations
(`MaxConfigs`: both names, or one of them twice), queues of one message, two calls of
`publish` (two messages, or one and its repetition), one fault (a failing
`from_config` or a list with a name in it twice), and any number of calls of
`sync_configs`. `MPMC` has two producers and two consumers with two calls each
on two slots: every slot is used by two rounds of tickets, and threads at both
ends wait for each other. `RingBuffers` has four elements, of which three are
used, and ten values, so that the indices go round twice and a cached one can be
a round old. `Benchmarks` sends five messages through a queue of three, three
times. `RequestServers` has three clients, so that a signal can go to one
that waits for an earlier answer, to one that waits for its turn, or to the right
one. Values are counted modulo 3, so
that once too often and once too rarely both show.

Fairness. `SPSCQueueRefinement!Fairness`: a call once begun goes on (weak
fairness of each thread's steps inside a call). The consumer polls and the
producer retries, as in the tests and benchmarks, and a load eventually returns
the newest store, which C++ asks of atomics; a consumer that was given a view
commits it in the end. These are strong fairness, since other steps of the same
thread (a load of an older value, another `dequeue_begin`) can come between.
`Attach!FairSpec`: a call of `from_config` once begun goes on, and a publisher
that is not attached calls again; no fairness of a subscriber's calls, of leaving
or of faults. `PubSub!Spec`: a thread that holds the lock goes on, as it waits
for nothing. That a thread which waits for the lock gets it is not assumed and
not claimed: `test_and_set` promises no turn to anyone. `MPMC!Spec`: every
thread keeps running, and a `try_` call repeated for ever sees the turn it waits
for at some time (strong, as other steps come between). `RingBuffers!Spec`: both
threads run, a load returns the newest index in the end, and the mutex of
`ringbuffer4` goes to a thread that finds it free again and again. The last is an
assumption that C++ does not make: a thread may spin on `try_lock` for ever there,
as on the spin lock above, and `BenchEnds` holds for `ringbuffer4` only with a
scheduler that lets it in. `Benchmarks!Spec`: the two threads
run; a push, a pop in the draining loop and a lock that are possible again and
again happen; a waiting consumer is woken by a notification only.
`RequestServers!Spec`: the threads run; which waiter a signal wakes is left
open, so one client of `condvar_client_server` may wait for ever while others
are served, but not all of them.

Deadlock is checked in every run: the consumer can always poll, a process
that is not attached can always call, and so can the thread that syncs; a
program that ends stays in its last state by a step of its own.

## Findings

1. Overrun on a wrap (`SPSCQueue.hpp:208`). With the reader ahead of the writer
   and a message that crosses the end of the buffer, `enqueue` only compares
   the sentinel and the end of the wrapped message with `read_ix`. It then laps
   the reader. The class comment promises a refusal. Needs messages of
   different slot sizes: for one slot size it is proved impossible.
2. `exists()` unlinks by name (`SharedMemory.hpp:211`) and can remove a segment
   that a publisher has just created.
3. A leftover object of size 0 makes `Publisher::from_config` fail for ever
   (`Publisher.hpp:55`).
4. A `sync_configs` that fails halfway (`PubSub.hpp:98`) leaves `change_queue`
   filled. The next one that succeeds applies those changes as well: a publisher
   outside its configurations appears, one of them is removed, or one is there
   twice.
5. `size()` seen from the reader (`SPSCQueue.hpp:228`). The comment promises the
   reader "at least this many messages in the queue". The producer publishes the
   index before it increments `msg_count_`, so the reader can commit and decrement
   first: `size()` is then 2^64 - 1 with nothing in the queue. A consumer that dies
   between its index store and its decrement leaves `size()` one too high for good.
   The other half of the comment, "at most this many" for the writer, holds
   (`SizeFromWriter`) but for producers that died before their increment.

One more disagreement has no run. The destructor of `SharedMemory` says "destroy
shared memory if created (owner)" (`SharedMemory.hpp:165`), but `created_` is false
on every path of `open_or_create` (`SharedMemory.hpp:61`), so nobody ever unlinks a
segment in this way. The models follow the code. `ReachableInTurn` would fail if
the destructor did what its comment says: a process that stays would be left on
an object without a name.

Limits that the conditions of the properties stand for:

* A slot of exactly half of the buffer is accepted once; after it was consumed
  every further one is refused although the queue is empty (`SPSCQueue.hpp:213`).
  `RefusesOnlyWhenOccupied` therefore is about smaller ones.
* A size mismatch truncates the existing object in place (`Publisher.hpp:86`)
  under a subscriber that has it mapped: the condition of `AgreeUnlessRecreated`.
* A publisher takes over an object of the right size without looking at its
  header (`Publisher.hpp:104`), which a predecessor that died may not have
  written: `PublisherOnRing` is about behaviours without faults.
* Two configurations with one name lead to two publishers of one queue
  (`PubSub.hpp:86`): the condition `repeats = 0` of `OnceUnlessRetried`.

## Proofs

The theorems hold for all values of the constants that satisfy the assumptions
named `...Assumption` in the modules; TLC evaluates these in every run.

### The ring (SPSCQueueRing, SPSCQueueProofs)

For every buffer size divisible by 8 and large enough for one message, every set
of payload sizes that passes the assertions of `enqueue`, and any number of
messages and crashes.

* `TypeCorrect`: `write_ix_` stays an aligned index of the buffer, whatever
  happens.
* `SizeRight` (`SizeFromWriter`): `msg_count_`, with the update that each
  thread still owes and at most one lost update per crash, is the number of
  messages sent less those committed, up to laps around `CountModulus`
  (`CountInv`). Between two calls of `enqueue` the producer owes nothing, and the
  bound on the counter rules out a lap that would make it too small. It holds
  after an overrun too.
* `RingIntact`: `Spec => []IndInv`.
* From it: `DeliveryCorrect`, `RaceFree`, `EmptyIsEmpty`, and, with the reason
  of the last refusal as an invariant of its own, `RefusalJustified`.
* `UniformIsSafe` (`OverrunNeedsTwoSizes`): as long as all messages accepted had
  one slot size, every value of `write_ix_` is a multiple of it (`Multiples`), and
  a wrap with the reader ahead never passes the checks with another such message.
  So with one slot size there is no overrun, and `UniformDelivery` is
  `DeliveryCorrect` without its condition.
* `RefinesFIFO`: while `overruns = 0`, `Spec` implies `FIFO!Spec`, the safety half
  of `ImplementsFIFO`. The store of `write_ix_` appends to the abstract queue; the
  store of `read_ix_` takes its head, because what the view holds is that message
  and at least one word of it (`FoundIsOldest`). `UniformRefinesFIFO` drops the
  condition for messages of one slot size.

The argument. None of the properties is inductive: that a view is right depends
on what lies in the buffer where the reader will look, on the reader looking
where the writer wrote, and on the writer not having come round. `IndInv` says
so in this order. Positions are ordered by lap and index. `WriteChain` and
`WriteOrder`: each message follows the one before it or starts the next lap.
`ReadPosition` and `ReadOrder`: each store of `read_ix_` is the end of the last
message committed by then, or 0 after its sentinel was passed. `WithinALap`: the
writer is less than one lap ahead of every read index that the producer may
still act on. `Stored`: all messages and sentinels after the read index the
producer has seen are in the buffer. `Reservation` and `PartlyStored`: the
region being written is free as seen from that index, and holds what has been
copied so far. `ReaderState`: what the consumer holds is the next message. The
lemmas `AheadOfReader`, `BehindWriter` and `PendingIsFree` turn the comparisons
of `enqueue` into disjointness of regions, and `Unambiguous` shows that equal
indices cannot mean a full ring. All this holds while `overruns = 0`, which is
why the theorems carry that condition.

### Attaching (AttachProofs)

For any number of subscribers, any sizes and any number of faults.
`DescriptorsValid` is type correctness; it needs `FreshObject`, a counting
argument that there is always an unused object (the processes and the name
refer to fewer objects than there are); the steps of the other invariants use
only its result `FreshFree`. `InTurn` (`ReachableInTurn`):
with calls in turn, one process at a time is in `from_config`, it and the
attached ones are on the named object, and nobody is attached while `exists()`
is about to unlink (`TurnInv`). `RingsAgree` (`AgreeUnlessRecreated`): a mapping
has the size of its object; `storage_size_` goes from 0 to that size once; a
subscriber gets past `map()` only afterwards (`RingInv`). `PublisherHasRing`
(`PublisherOnRing`): until the first fault, every object is empty or has a
complete header that is right for its size, except for the one that the
publisher is constructing; so what it adopts or has constructed is whole
(`WholeInv`).

Two theorems are the safety halves of the properties about getting in, without
faults. `NameLeftUsable`: between calls the name refers to nothing or to an object
whose header is complete and right, even after calls that were refused or that
overlapped; this is why the publisher recovers (`PublisherRecovers`).
`RefusalsJustified`, with calls in turn: the publisher is never refused; a
subscriber is refused only if there is no object, or one of another size, never
because of a half-constructed header. The first rests on
`SizedInv`: the named object is empty only while `exists()` has yet to unlink what
it created or the publisher to size what it has truncated. The second adds
`UsableInv`: in turn, what `exists()` found is still there, and what a subscriber
mapped still has its size.

### Publishing (PubSubProofs)

For any set of names, any capacity, any number of calls and failures, and lists
of configurations of any length (`MaxConfigs` is any number).

* `TypesKept` (`TypeOK`), with the ranges of the loop variables (`TypeInv`).
* `LoopUndisturbed` (`StableDuringPublish`): the lock is held by exactly the
  thread that is inside (`LockInv`).
* `LockNeverAbandoned` and `LockHeldShortly`, the safety half of `LockReleased`.
  The converse of `LockInv`: whenever the flag is set, one of the two calls is
  between its `lock` and its `unlock`, so no return leaves it set. And the holder
  gets there: the pair of loops left and of passes left in the current loop
  (`LoopsLeft`, `PassesLeft`) goes down lexicographically with each of its steps
  that does not unlock, and steps of others leave it alone, which needs that
  nobody changes the vectors under the holder.
* `SyncLeavesConfigs` (`SyncMatchesUnlessFailed`). What `publishers` will be
  depends on what is still in `change_queue`, so the invariant compares the two. `QueueInv`:
  a name that is not in the configurations is to be removed exactly as often as
  the first loop has seen it, and never added; a name that is in them is never
  removed, and added if and only if it was missing and the second loop has passed
  it. "As often as" is a bijection between places in the two sequences. In
  `apply_changes` each removal takes one Publisher and one pending change of a
  name away, so the bijection shrinks with them until both sides are empty. `UniqueInv`:
  if no list names anything twice, an addition is pending once at most, and only
  for a name without Publisher. `PlacesErase`, `PlacesAppend` and `PlacesRest`
  say how the places of a name in a vector change.
* `TrueMeansAll` (`PublishedReachesAll`): as long as `published` is true, every
  publisher behind the loop variable has the message (`ReachInv`).
* `OnceInOrder` (`OnceUnlessRetried`): the messages of a queue increase up to the
  current one, which is in it only if the loop has passed the one Publisher of
  that name (`OrderInv`, which needs `UniqueInv`).

### Many producers and consumers (MPMCProofs)

For any sets of threads, capacity and numbers of calls. `IndInv`: a ticket
belongs to one thread and was given out (`OwnTickets`); the turn of a slot does
not pass a ticket that still waits for it, taken or not, and is exactly the
awaited one for a thread inside (`TurnsInOrder`); at an odd turn the slot holds
the element of that turn's push, at an even one nothing (`Contents`). Two
threads inside one slot would await the same turn, hence have the same end and
ticket (`Exclusive`). A `try_` call checks the turn before it has the ticket;
the comparison in `compare_exchange` makes the check count, since the turn
cannot have passed a ticket that is still to be given out. From `TurnsKept`:
`SlotsExclusive`, `PopsMatchPushes`, `DestructorsMatch`.

`TypesKept` (`TypeOK`): `head_` and `tail_` are the numbers of calls that have a
ticket, a sum over the threads that `CallsInv` keeps as the cardinality of a set
of pairs; elements are named by tickets given out (`RangeInv`), and a turn is
bounded by them (`TurnsBounded`). `SizeRightOnceJoined` (`SizeOnceJoined`):
`head_ - tail_` is exactly the number of elements, more by the pushes and less by
the pops that have a ticket and have not accessed their slot yet (`SizeInv`), and
once all threads are joined there are none of these.

`SpinsJustified` and `NoDeadlock` are the safety half of `AllReturn`. `Accounted`:
no ticket is lost; each one given out is held by a call, or the turn of its slot
has passed it. So for a call that spins, the ticket that the slot's turn stands
for was given out, and then some call has it and need not wait, or it was not,
and then the queue is full or empty (`TicketWaitedFor`).
`SomebodyGoesOn`: if no thread could go on, the threads at one end would have
made all their calls and the other end would wait for a ticket beyond these;
`CallsAssumption` (no more pops than pushes, no more pushes than pops and slots)
rules that out. It is an assumption on the program that uses the queue: with more
pops than pushes a `pop` rightly waits for ever. The other theorems take from it
only that there are finitely many threads and calls.

### The five ring buffers (RingBuffersProofs)

For every capacity from 2 on and any number of values. `IndexInv`: the n-th
index stored is n modulo the capacity; by the index it has seen, the producer is
at most a round less one ahead, and strictly less when it writes; the consumer
is not ahead of what it has seen, and behind it when it reads. `DataInv`: the
values between the two indices are in place. `Positions` (what the wrap of an
index means, with the uniqueness of quotient and remainder in `Division`) turns
comparisons of indices into comparisons of counts. From these: `NoRace`
(`AccessesOrdered`), `RefusalsJustified` (`RefusedAtTheLimit`), and
`FirstInFirstOut`, the safety half of `ImplementsFIFO`. `WithinCapacity` is
`TypeOK`, with the bound on the values in the buffer; `OneInside` is mutual
exclusion in `ringbuffer4` (`LocalInv` says who holds the mutex). `OneEndGoesOn`
is the safety half of `BenchEnds`: until `bench` is done, `push` or `pop` would
succeed on the newest indices. With capacity 1 it would not hold.

### Benchmarks (BenchmarksProofs)

For all 22 benchmarks and any number of messages, capacity and iterations.
`CountInv`: the queue holds the messages from the first one that is not gone to
the last one pushed, in order, and the consumer's `counter` and `sum` are right
for the messages it has counted. `PhaseInv`: what the places of the two threads
say about the counters; a consumer that may wait has messages to come. From
these: `TypesKept` (`TypeOK`), `IterationsApart` (`IterationsIndependent`),
`WakeUpToCome`, the safety half of why `deque_mutex` ends, and
`DirectNeverRefused`: the direct benchmarks ignore what `push` returns, but the
queue is empty when they push.

### Client and server (RequestServersProofs)

For any number of clients. The value of a client's request is one behind what it
has asked for exactly while its request is in the pointer and unprocessed
(`CondvarInv`, `AtomicInv`). `TypesKept`, `RequestsAnswered`
(`AnsweredBeforeNext`), and `ServedOnce`, the safety half of
`ImplementsRequestSlot`.

`NoLostWakeup`, for at least one client (`NUM_CLIENTS` is positive in both
programs). `condvar_client_server` wakes one waiter with each `notify_one`, and
it may be one that cannot go on. The server always runs while a request is in
the pointer; while none is, some client is running or was woken
(`WakeUpDelivered`), so the signal that a waiting thread needs has been or will
be sent. In `atomic_client_server` a client that spins has its answer, or its
own request is in the pointer and the server has yet to answer it
(`SpinsForOwn`).

### Only model-checked

Liveness (`RefusedGetsIn`, `SubscriberGetsIn`, `PublisherGetsInInTurn`,
`PublisherRecovers`, `LockReleased`,
`AllReturn`, `BenchEnds`, `BenchmarkEnds`), with the liveness halves of the
refinements: TLAPS does not reason about fairness and ENABLED. What each of them
says of single states and steps is proved:

| liveness property | its safety half |
| --- | --- |
| `ImplementsFIFO` of `SPSCQueueRefinement` | `RefinesFIFO`, `UniformRefinesFIFO` |
| `RefusedGetsIn` | `RefusalJustified`, for messages of less than half the buffer |
| `PublisherGetsInInTurn`, `SubscriberGetsIn`, `PublisherRecovers` | `RefusalsJustified`, `NameLeftUsable` |
| `LockReleased` | `LockNeverAbandoned`, `LockHeldShortly` |
| `AllReturn` | `NoDeadlock`, `SpinsJustified` |
| `ImplementsFIFO` of `RingBuffers`, `BenchEnds` | `FirstInFirstOut`, `OneEndGoesOn` |
| `BenchmarkEnds` | `WakeUpToCome`, `DirectNeverRefused` |
| `ImplementsRequestSlot` | `ServedOnce`, `NoLostWakeup` |

Every invariant and action property of a passing run is proved.

## Not modelled

* In `PubSub`: a changed storage size of a kept name (`sync_configs` compares
  names only).
* Heap allocation of the storage, ownership of payloads by `Message`, moves of
  the handle classes: single-threaded memory management.
* `threads`, `errors`, `rdtsc`, text formatting; reading configuration files in
  `examples/pubsub_server` (its two threads are those of `PubSub`).
* `bench/bm_thread_sync.cpp`, which times locks on a single thread;
  `examples/condvar_test.cpp`, which never leaves its first loop; `scratch/`.
* The queues of other libraries that the benchmarks use: `Benchmarks` takes them
  for bounded first-in, first-out queues.
* The wrap-around of the 64-bit tickets of `MPMC`.
* Storage sizes of 256 bytes and less, with which `buffer_size()` underflows.
* Calls against the contract: two producers or two consumers on one ring.

## Plan

Composition of `Attach` with the ring: what a view can contain when the segment
is recreated, and after a takeover.
