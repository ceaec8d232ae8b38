------------------------------ MODULE RingBuffers ------------------------------
(****************************************************************************)
(* examples/SPSC.cpp: five ring buffers of one producer and one consumer,   *)
(* and the benchmark that runs a thread on either end of one of them.  They *)
(* differ in how a thread learns of the other one's index: by a load on     *)
(* every call (0, 1), by a load only when the cached copy says full or      *)
(* empty (2, 3), or under a mutex (4).                                      *)
(*                                                                          *)
(* readMO and writeMO are the values that readIdx_ and writeIdx_ have had,  *)
(* in order.  An acquire load returns one of them, not older than the last  *)
(* one the thread has seen.                                                 *)
(****************************************************************************)
EXTENDS Naturals, Sequences

CONSTANTS
  Capacity,    \* elements of data_
  Iters        \* values to send, named iters in bench

ASSUME RingBuffersAssumption == Capacity \in Nat \ {0, 1} /\ Iters \in Nat

Kinds == {"ringbuffer0", "ringbuffer1", "ringbuffer2", "ringbuffer3", "ringbuffer4"}
Values == 1 .. Iters
Unset == 0

VARIABLES
  kind,               \* the ring buffer that is run; it never changes
  data_,
  readMO, writeMO,    \* readIdx_, writeIdx_: all values so far
  readSeen,           \* the producer's last load of readIdx_: a position in readMO
  writeSeen,          \* the consumer's last load of writeIdx_
  mutex_,             \* who holds it: "producer", "consumer" or "none"
  ppc, cpc,           \* where the two threads are
  val,                \* the consumer's local of that name
  received            \* history: the values popped

producerVars == <<writeMO, readSeen, ppc>>
consumerVars == <<readMO, writeSeen, cpc, val, received>>
vars == <<kind, data_, mutex_, producerVars, consumerVars>>

readIdx_ == readMO[Len(readMO)]
writeIdx_ == writeMO[Len(writeMO)]
Pushed == Len(writeMO) - 1
Popped == Len(readMO) - 1

(* Mutants: the last element is left out; one element too many is used. *)
NextIdx_Short(i) == IF i + 2 = Capacity THEN 0 ELSE i + 1
NextIdx_Long(i) == IF i = Capacity THEN 0 ELSE i + 1

NextIdx(i) == IF i + 1 = Capacity THEN 0 ELSE i + 1

----------------------------------------------------------------------------
(* The loads of readIdx_ that each push may act on, *)

ringbuffer0_push == readSeen .. Len(readMO)

ringbuffer1_push == readSeen .. Len(readMO)

(* Mutant: the cached index is believed when it says full. *)
ringbuffer2_push_NoReload == {readSeen}

ringbuffer2_push ==
  IF NextIdx(writeIdx_) = readMO[readSeen] THEN readSeen .. Len(readMO) ELSE {readSeen}

ringbuffer3_push ==
  IF NextIdx(writeIdx_) = readMO[readSeen] THEN readSeen .. Len(readMO) ELSE {readSeen}

ringbuffer4_push == {Len(readMO)}

(* and the loads of writeIdx_ that each pop may act on. *)

ringbuffer0_pop == writeSeen .. Len(writeMO)

ringbuffer1_pop == writeSeen .. Len(writeMO)

ringbuffer2_pop ==
  IF readIdx_ = writeMO[writeSeen] THEN writeSeen .. Len(writeMO) ELSE {writeSeen}

ringbuffer3_pop ==
  IF readIdx_ = writeMO[writeSeen] THEN writeSeen .. Len(writeMO) ELSE {writeSeen}

ringbuffer4_pop == {Len(writeMO)}

PushLoads ==
  [ringbuffer0 |-> ringbuffer0_push, ringbuffer1 |-> ringbuffer1_push,
   ringbuffer2 |-> ringbuffer2_push, ringbuffer3 |-> ringbuffer3_push,
   ringbuffer4 |-> ringbuffer4_push][kind]

PopLoads ==
  [ringbuffer0 |-> ringbuffer0_pop, ringbuffer1 |-> ringbuffer1_pop,
   ringbuffer2 |-> ringbuffer2_pop, ringbuffer3 |-> ringbuffer3_pop,
   ringbuffer4 |-> ringbuffer4_pop][kind]

----------------------------------------------------------------------------
(* Do the loads say that the buffer is full, or empty? *)
Full(n) == NextIdx(writeIdx_) = readMO[n]
Empty(n) == readIdx_ = writeMO[n]

(* Where a call starts, and the mutex that ringbuffer4 takes there. *)
Start == IF kind = "ringbuffer4" THEN "lock" ELSE "check"

Lock(who) == mutex_ = "none" /\ mutex_' = who
Unlock == mutex_' = "none"

PushLocks ==
  /\ ppc = "lock" /\ Pushed < Iters
  /\ Lock("producer")
  /\ ppc' = "check"
  /\ UNCHANGED <<kind, data_, writeMO, readSeen, consumerVars>>

(* Mutant: the buffer may fill up, so that full looks like empty. *)
PushChecks_Fills ==
  /\ ppc = "check" /\ Pushed < Iters
  /\ \E n \in PushLoads :
       /\ readSeen' = n
       /\ ppc' = "write"
       /\ UNCHANGED mutex_
  /\ UNCHANGED <<kind, data_, writeMO, consumerVars>>

(* If the buffer is full, push returns false and bench calls it again. *)
PushChecks ==
  /\ ppc = "check" /\ Pushed < Iters
  /\ \E n \in PushLoads :
       /\ readSeen' = n
       /\ \/ Full(n) /\ ppc' = Start /\ Unlock
          \/ ~ Full(n) /\ ppc' = "write" /\ UNCHANGED mutex_
  /\ UNCHANGED <<kind, data_, writeMO, consumerVars>>

PushWrites ==
  /\ ppc = "write"
  /\ data_' = [data_ EXCEPT ![writeIdx_] = Pushed + 1]
  /\ ppc' = "store"
  /\ UNCHANGED <<kind, mutex_, writeMO, readSeen, consumerVars>>

PushStores ==
  /\ ppc = "store"
  /\ writeMO' = Append(writeMO, NextIdx(writeIdx_))
  /\ Unlock
  /\ ppc' = Start
  /\ UNCHANGED <<kind, data_, readSeen, consumerVars>>

PopLocks ==
  /\ cpc = "lock" /\ Popped < Iters
  /\ Lock("consumer")
  /\ cpc' = "check"
  /\ UNCHANGED <<kind, data_, readMO, writeSeen, val, received, producerVars>>

PopChecks ==
  /\ cpc = "check" /\ Popped < Iters
  /\ \E n \in PopLoads :
       /\ writeSeen' = n
       /\ \/ Empty(n) /\ cpc' = Start /\ Unlock
          \/ ~ Empty(n) /\ cpc' = "read" /\ UNCHANGED mutex_
  /\ UNCHANGED <<kind, data_, readMO, val, received, producerVars>>

PopReads ==
  /\ cpc = "read"
  /\ val' = data_[readIdx_]
  /\ cpc' = "store"
  /\ UNCHANGED <<kind, data_, mutex_, readMO, writeSeen, received, producerVars>>

PopStores ==
  /\ cpc = "store"
  /\ readMO' = Append(readMO, NextIdx(readIdx_))
  /\ received' = Append(received, val)
  /\ Unlock
  /\ cpc' = Start
  /\ UNCHANGED <<kind, data_, writeSeen, val, producerVars>>

----------------------------------------------------------------------------
Init ==
  /\ kind \in Kinds
  /\ data_ = [i \in 0 .. Capacity - 1 |-> Unset]
  /\ readMO = <<0>> /\ writeMO = <<0>>
  /\ readSeen = 1 /\ writeSeen = 1
  /\ mutex_ = "none"
  /\ ppc = Start /\ cpc = Start
  /\ val = Unset
  /\ received = <<>>

Producer == PushLocks \/ PushChecks \/ PushWrites \/ PushStores
Consumer == PopLocks \/ PopChecks \/ PopReads \/ PopStores

(* Both loops of bench have ended; the consumer is joined. *)
Joined == Pushed = Iters /\ Popped = Iters

Next == Producer \/ Consumer \/ (Joined /\ UNCHANGED vars)

(* Both threads keep running, a store becomes visible in the end, and a      *)
(* thread that waits for a mutex gets it if it is free again and again.      *)
Fairness ==
  /\ WF_vars(Producer) /\ WF_vars(Consumer)
  /\ WF_vars(PushChecks /\ readSeen' = Len(readMO))
  /\ WF_vars(PopChecks /\ writeSeen' = Len(writeMO))
  /\ SF_vars(PushLocks) /\ SF_vars(PopLocks)

Spec == Init /\ [][Next]_vars /\ Fairness

----------------------------------------------------------------------------
Indices == 0 .. Capacity - 1

TypeOK ==
  /\ kind \in Kinds
  /\ data_ \in [Indices -> Values \cup {Unset}]
  /\ readMO \in Seq(Indices) /\ writeMO \in Seq(Indices)
  /\ readSeen \in 1 .. Len(readMO) /\ writeSeen \in 1 .. Len(writeMO)
  /\ mutex_ \in {"none", "producer", "consumer"}
  /\ ppc \in {"lock", "check", "write", "store"}
  /\ cpc \in {"lock", "check", "read", "store"}
  /\ val \in Values \cup {Unset}
  /\ Popped <= Pushed /\ Pushed <= Popped + Capacity - 1

(* The accesses of data_ are ordered: push overwrites an element only if     *)
(* the load it went by is of the pop of that element or of a later one, and  *)
(* pop reads one only if its load is of that element's push or a later one,  *)
(* however old the cached indices are.                                       *)
AccessesOrdered ==
  /\ ppc = "write" => \A k \in readSeen .. Pushed : writeMO[k] # writeIdx_
  /\ cpc = "read" => Popped + 1 < writeSeen

(* On whichever load a call acts, push returns false exactly if Capacity - 1 *)
(* values are in the buffer by it, and pop exactly if none is: an index that *)
(* has come round is never mistaken for the other end.                       *)
RefusedAtTheLimit ==
  /\ ppc = "check" => \A n \in PushLoads : Full(n) <=> Pushed - (n - 1) = Capacity - 1
  /\ cpc = "check" => \A n \in PopLoads : Empty(n) <=> Popped = n - 1

(* Each of the ring buffers is a first-in, first-out queue, and every value  *)
(* pushed is popped in the end.                                              *)
FIFO == INSTANCE MessageFIFO WITH
  Message <- Values,
  queue <- [k \in 1 .. Pushed - Popped |-> data_[writeMO[Popped + k]]],
  received <- received

ImplementsFIFO == FIFO!FairSpec

(* bench ends, for each ring buffer: the retry loops get all values across,  *)
(* and the mutex is released on all four ways out of push and pop.           *)
BenchEnds == <>Joined
==============================================================================
