-------------------------------- MODULE PubSub --------------------------------
(****************************************************************************)
(* PubSub.hpp with its SpinLock: one thread keeps the publishers in step    *)
(* with the configurations (sync_configs), another one publishes, as the    *)
(* two threads of examples/pubsub_server do; subscribers take messages from *)
(* the queues.                                                              *)
(*                                                                          *)
(* A queue is what SPSCQueue promises: first in, first out, of bounded      *)
(* capacity.  It lives in the segment called shm_name and stays there when  *)
(* its Publisher is removed and created again; two Publishers of that name  *)
(* write to the same queue.                                                 *)
(****************************************************************************)
EXTENDS Naturals, Sequences, Functions

CONSTANTS
  Names,         \* values of shm_name
  Capacity,      \* messages a queue can hold
  MaxConfigs,    \* bound: length of a vector of configurations
  MaxCalls,      \* bound: calls of publish in a behaviour
  MaxFaults      \* bound: calls of Publisher::from_config that fail, and
                 \* vectors of configurations with a name in them twice

ASSUME PubSubAssumption ==
  /\ Capacity \in Nat \ {0}
  /\ MaxConfigs \in Nat
  /\ MaxCalls \in Nat
  /\ MaxFaults \in Nat

VARIABLES
  locked,         \* SpinLock::locked
  publishers,     \* the shm_name of each Publisher in the vector
  change_queue,   \* the pending PubSubChange objects
  spc,            \* sync_configs: where it is
  configs,        \* its argument, by shm_name
  spos,           \* its loop variable
  ppc,            \* publish: where it is
  ppos,           \* its loop variable
  message,        \* the message it is given: the n-th one of the caller
  published,      \* its local of that name, and then what it returned
  stream,         \* history: the messages each queue has accepted
  taken,          \* how many of them the subscriber has taken
  calls,          \* history: calls of publish
  retried,        \* history: the caller has published a message again
  failures,       \* history: calls of from_config that failed
  repeats         \* history: vectors with a name in them twice

syncVars == <<spc, configs, spos>>
publishVars == <<ppc, ppos, message, published>>
vars == <<locked, publishers, change_queue, syncVars, publishVars,
          stream, taken, calls, retried, failures, repeats>>

(* What sync_configs is called with; nothing keeps a name from being there   *)
(* twice.                                                                    *)
ConfigLists == UNION {[1 .. n -> Names] : n \in 0 .. MaxConfigs}

----------------------------------------------------------------------------
(* SpinLock *)

Lock == ~ locked /\ locked' = TRUE

Unlock == locked' = FALSE

----------------------------------------------------------------------------
(* sync_configs *)

Removal(name) == [kind |-> "removal", name |-> name]
Addition(name) == [kind |-> "addition", name |-> name]

Sync(cs) ==
  /\ spc = "idle"
  /\ spc' = "lock"
  /\ configs' = cs
  /\ repeats' = IF IsInjective(cs) THEN repeats ELSE repeats + 1
  /\ failures + repeats' <= MaxFaults
  /\ UNCHANGED <<locked, publishers, change_queue, spos, publishVars,
                 stream, taken, calls, retried, failures>>

(* Mutant: the vector is changed without the lock. *)
SyncLocks_NoLock ==
  /\ spc = "lock"
  /\ spc' = "remove"
  /\ UNCHANGED <<locked, publishers, change_queue, configs, spos, publishVars,
                 stream, taken, calls, retried, failures, repeats>>

SyncLocks ==
  /\ spc = "lock"
  /\ Lock
  /\ spc' = "remove"
  /\ UNCHANGED <<publishers, change_queue, configs, spos, publishVars,
                 stream, taken, calls, retried, failures, repeats>>

(* One Publisher of the first loop: noted for removal if not in the configs. *)
SyncRemoves ==
  /\ spc = "remove"
  /\ spos <= Len(publishers)
  /\ change_queue' = IF publishers[spos] \in Range(configs) THEN change_queue
                     ELSE Append(change_queue, Removal(publishers[spos]))
  /\ spos' = spos + 1
  /\ UNCHANGED <<locked, publishers, spc, configs, publishVars,
                 stream, taken, calls, retried, failures, repeats>>

(* A loop ends: the next one starts at its first element. *)
LoopEnds(loop, length, next) ==
  /\ spc = loop
  /\ spos > length
  /\ spc' = next
  /\ spos' = 1
  /\ UNCHANGED <<locked, publishers, change_queue, configs, publishVars,
                 stream, taken, calls, retried, failures, repeats>>

RemovesEnd == LoopEnds("remove", Len(publishers), "add")

(* Mutant: a Publisher is added whether or not it exists. *)
SyncAdds_NoCheck ==
  /\ spc = "add"
  /\ spos <= Len(configs)
  /\ change_queue' = Append(change_queue, Addition(configs[spos]))
  /\ spos' = spos + 1
  /\ UNCHANGED <<locked, publishers, spc, configs, publishVars,
                 stream, taken, calls, retried, failures, repeats>>

(* One configuration of the second loop, from_config succeeding. *)
SyncAdds ==
  /\ spc = "add"
  /\ spos <= Len(configs)
  /\ change_queue' = IF configs[spos] \in Range(publishers) THEN change_queue
                     ELSE Append(change_queue, Addition(configs[spos]))
  /\ spos' = spos + 1
  /\ UNCHANGED <<locked, publishers, spc, configs, publishVars,
                 stream, taken, calls, retried, failures, repeats>>

(* Mutant: the early return keeps the lock. *)
SyncFails_KeepsLock ==
  /\ spc = "add"
  /\ spos <= Len(configs)
  /\ configs[spos] \notin Range(publishers)
  /\ failures + repeats < MaxFaults
  /\ failures' = failures + 1
  /\ spc' = "failed"
  /\ UNCHANGED <<locked, publishers, change_queue, configs, spos, publishVars,
                 stream, taken, calls, retried, repeats>>

(* from_config fails: the guard unlocks, the changes so far stay queued. *)
SyncFails ==
  /\ spc = "add"
  /\ spos <= Len(configs)
  /\ configs[spos] \notin Range(publishers)
  /\ failures + repeats < MaxFaults
  /\ failures' = failures + 1
  /\ Unlock
  /\ spc' = "failed"
  /\ UNCHANGED <<publishers, change_queue, configs, spos, publishVars,
                 stream, taken, calls, retried, repeats>>

AddsEnd == LoopEnds("add", Len(configs), "apply")

(* std::find_if: the first Publisher of that name. *)
IsFirst(i, name) ==
  publishers[i] = name /\ \A j \in 1 .. i - 1 : publishers[j] # name

(* std::vector::erase *)
erase(q, i) == SubSeq(q, 1, i - 1) \o SubSeq(q, i + 1, Len(q))

apply_change(change) ==
  \/ change.kind = "addition" /\ publishers' = Append(publishers, change.name)
  \/ /\ change.kind = "removal"
     /\ \/ \E i \in 1 .. Len(publishers) :
             IsFirst(i, change.name) /\ publishers' = erase(publishers, i)
        \/ change.name \notin Range(publishers) /\ UNCHANGED publishers

(* One change of the loop in apply_changes. *)
apply_changes ==
  /\ spc = "apply"
  /\ spos <= Len(change_queue)
  /\ apply_change(change_queue[spos])
  /\ spos' = spos + 1
  /\ UNCHANGED <<locked, change_queue, spc, configs, publishVars,
                 stream, taken, calls, retried, failures, repeats>>

(* Mutant: apply_changes does not clear the queue. *)
SyncEnds_KeepsQueue ==
  /\ spc = "apply"
  /\ spos > Len(change_queue)
  /\ Unlock
  /\ spc' = "synced"
  /\ UNCHANGED <<publishers, change_queue, configs, spos, publishVars,
                 stream, taken, calls, retried, failures, repeats>>

(* The queue is cleared and the lock released. *)
SyncEnds ==
  /\ spc = "apply"
  /\ spos > Len(change_queue)
  /\ change_queue' = <<>>
  /\ Unlock
  /\ spc' = "synced"
  /\ UNCHANGED <<publishers, configs, spos, publishVars,
                 stream, taken, calls, retried, failures, repeats>>

(* The caller has the result; the locals are gone. *)
SyncReturns ==
  /\ spc \in {"failed", "synced"}
  /\ spc' = "idle"
  /\ configs' = <<>>
  /\ spos' = 1
  /\ UNCHANGED <<locked, publishers, change_queue, publishVars,
                 stream, taken, calls, retried, failures, repeats>>

----------------------------------------------------------------------------
(* publish *)

(* The caller goes on to its next message, or publishes the last one again   *)
(* if publish returned false (bench/bm_PubSub.cpp).                          *)
Publish ==
  /\ ppc = "idle"
  /\ calls < MaxCalls
  /\ \/ message' = message + 1 /\ UNCHANGED retried
     \/ ~ published /\ message' = message /\ retried' = TRUE
  /\ calls' = calls + 1
  /\ ppc' = "lock"
  /\ UNCHANGED <<locked, publishers, change_queue, syncVars, ppos, published,
                 stream, taken, failures, repeats>>

PublishLocks ==
  /\ ppc = "lock"
  /\ Lock
  /\ published' = TRUE
  /\ ppc' = "loop"
  /\ UNCHANGED <<publishers, change_queue, syncVars, ppos, message,
                 stream, taken, calls, retried, failures, repeats>>

Held(name) == Len(stream[name]) - taken[name]

(* Mutant: the queue does not notice that it is full. *)
EnqueueAccepts_Overfills ==
  /\ ppc = "loop"
  /\ ppos <= Len(publishers)
  /\ stream' = [stream EXCEPT ![publishers[ppos]] = Append(@, message)]
  /\ ppos' = ppos + 1
  /\ UNCHANGED <<locked, publishers, change_queue, syncVars, ppc, message,
                 published, taken, calls, retried, failures, repeats>>

(* Mutant: published = publisher.publish(val), for the &= of the code. *)
EnqueueAccepts_LastWins ==
  /\ ppc = "loop"
  /\ ppos <= Len(publishers)
  /\ Held(publishers[ppos]) < Capacity
  /\ stream' = [stream EXCEPT ![publishers[ppos]] = Append(@, message)]
  /\ published' = TRUE
  /\ ppos' = ppos + 1
  /\ UNCHANGED <<locked, publishers, change_queue, syncVars, ppc, message,
                 taken, calls, retried, failures, repeats>>

(* One publisher of the loop whose queue has room. *)
EnqueueAccepts ==
  /\ ppc = "loop"
  /\ ppos <= Len(publishers)
  /\ Held(publishers[ppos]) < Capacity
  /\ stream' = [stream EXCEPT ![publishers[ppos]] = Append(@, message)]
  /\ ppos' = ppos + 1
  /\ UNCHANGED <<locked, publishers, change_queue, syncVars, ppc, message,
                 published, taken, calls, retried, failures, repeats>>

(* One whose queue refuses: how full it must be for that depends on the      *)
(* message's size and on how recent the index is that enqueue loads.         *)
EnqueueRefuses ==
  /\ ppc = "loop"
  /\ ppos <= Len(publishers)
  /\ published' = FALSE
  /\ ppos' = ppos + 1
  /\ UNCHANGED <<locked, publishers, change_queue, syncVars, ppc, message,
                 stream, taken, calls, retried, failures, repeats>>

PublishReturns ==
  /\ ppc = "loop"
  /\ ppos > Len(publishers)
  /\ Unlock
  /\ ppc' = "idle"
  /\ ppos' = 1
  /\ UNCHANGED <<publishers, change_queue, syncVars, message, published,
                 stream, taken, calls, retried, failures, repeats>>

(* A subscriber commits a message. *)
Take(name) ==
  /\ Held(name) > 0
  /\ taken' = [taken EXCEPT ![name] = @ + 1]
  /\ UNCHANGED <<locked, publishers, change_queue, syncVars, publishVars,
                 stream, calls, retried, failures, repeats>>

----------------------------------------------------------------------------
Init ==
  /\ locked = FALSE
  /\ publishers = <<>>
  /\ change_queue = <<>>
  /\ spc = "idle"
  /\ configs = <<>>
  /\ spos = 1
  /\ ppc = "idle"
  /\ ppos = 1
  /\ message = 0
  /\ published = TRUE
  /\ stream = [n \in Names |-> <<>>]
  /\ taken = [n \in Names |-> 0]
  /\ calls = 0
  /\ retried = FALSE
  /\ failures = 0
  /\ repeats = 0

SyncHoldsLock ==
  \/ SyncRemoves \/ RemovesEnd
  \/ SyncAdds \/ SyncFails \/ AddsEnd
  \/ apply_changes \/ SyncEnds
PublishHoldsLock == EnqueueAccepts \/ EnqueueRefuses \/ PublishReturns

Next ==
  \/ \E cs \in ConfigLists : Sync(cs)
  \/ SyncLocks
  \/ SyncHoldsLock
  \/ SyncReturns
  \/ Publish
  \/ PublishLocks
  \/ PublishHoldsLock
  \/ \E n \in Names : Take(n)

(* A thread that holds the lock goes on: it waits for nothing. *)
Fairness == WF_vars(SyncHoldsLock) /\ WF_vars(PublishHoldsLock)

Spec == Init /\ [][Next]_vars /\ Fairness

----------------------------------------------------------------------------
Changes == [kind : {"addition", "removal"}, name : Names]

(* Types of the members and locals; a queue holds 0 to Capacity messages.    *)
TypeOK ==
  /\ locked \in BOOLEAN
  /\ publishers \in Seq(Names)
  /\ change_queue \in Seq(Changes)
  /\ spc \in {"idle", "lock", "remove", "add", "apply", "failed", "synced"}
  /\ configs \in ConfigLists
  /\ spos \in Nat \ {0}
  /\ ppc \in {"idle", "lock", "loop"}
  /\ ppos \in Nat \ {0}
  /\ message \in 0 .. MaxCalls
  /\ published \in BOOLEAN
  /\ stream \in [Names -> Seq(1 .. MaxCalls)]
  /\ taken \in [Names -> Nat]
  /\ \A n \in Names : Held(n) \in 0 .. Capacity
  /\ calls \in 0 .. MaxCalls
  /\ retried \in BOOLEAN
  /\ failures \in 0 .. MaxFaults
  /\ repeats \in 0 .. MaxFaults

(* When sync_configs succeeds, there is a Publisher for each configuration   *)
(* and none besides: it removes the ones not in the configurations and adds  *)
(* those that do not exist yet.  And only one for each, unless a name was    *)
(* twice in a vector of configurations: both are then looked up before       *)
(* either is added.                                                          *)
SyncMatches ==
  spc = "synced" => /\ Range(publishers) = Range(configs)
                    /\ repeats > 0 \/ IsInjective(publishers)

(* The same, as long as no earlier call of sync_configs has failed halfway:  *)
(* whatever sequence of configurations there was, and whatever was published *)
(* in between.                                                               *)
SyncMatchesUnlessFailed == failures = 0 => SyncMatches

(* A subscriber gets the messages in the order of their publication and none *)
(* of them twice, through all removals and additions of its Publisher, if    *)
(* the caller of publish never repeats one, no sync_configs has failed and   *)
(* no name was configured twice.                                             *)
OnceUnlessRetried ==
  failures = 0 /\ ~ retried /\ repeats = 0 =>
    \A n \in Names : \A i, j \in DOMAIN stream[n] :
      i < j => stream[n][i] < stream[n][j]

(* When publish is about to return true, every Publisher's queue has taken   *)
(* the message, even if sync_configs has left two Publishers to one queue.   *)
PublishedReachesAll ==
  ppc = "loop" /\ ppos > Len(publishers) /\ published =>
    \A n \in Range(publishers) : message \in Range(stream[n])

(* The vector that publish iterates over does not change under it: the spin  *)
(* lock keeps the thread that syncs the configurations out of the loop.      *)
StableDuringPublish == [][ppc = "loop" => publishers' = publishers]_vars

(* Whoever takes the lock releases it, on every way out of sync_configs and  *)
(* publish, the early return included.                                       *)
LockReleased == locked ~> ~ locked
==============================================================================
