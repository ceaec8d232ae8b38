-------------------------- MODULE RingBuffersProofs --------------------------
(****************************************************************************)
(* The five ring buffers are first-in, first-out queues without a data      *)
(* race, for any capacity and any number of values.                         *)
(****************************************************************************)
EXTENDS RingBuffers, Integers, TLAPS

(* The element for the k-th value from 0 on. *)
Pos(k) == k % Capacity

(* The indices follow one another; what a thread has seen of the other one   *)
(* keeps it a full round behind, or not ahead.                               *)
IndexInv ==
  /\ readMO \in Seq(Indices) /\ writeMO \in Seq(Indices)
  /\ \A k \in 1 .. Len(readMO) : readMO[k] = Pos(k - 1)
  /\ \A k \in 1 .. Len(writeMO) : writeMO[k] = Pos(k - 1)
  /\ readSeen \in 1 .. Len(readMO) /\ writeSeen \in 1 .. Len(writeMO)
  /\ Pushed - (readSeen - 1) <= Capacity - 1
  /\ Popped <= writeSeen - 1
  /\ ppc \in {"write", "store"} => Pushed - (readSeen - 1) < Capacity - 1
  /\ cpc \in {"read", "store"} => Popped < writeSeen - 1

(* The values pushed and not popped are in their elements. *)
DataInv ==
  /\ data_ \in [Indices -> Nat]
  /\ \A k \in Popped .. Pushed - 1 : data_[Pos(k)] = k + 1
  /\ ppc \in {"write", "store"} => Pushed < Iters
  /\ ppc = "store" => data_[Pos(Pushed)] = Pushed + 1
  /\ cpc = "store" => val = Popped + 1

IndInv == kind \in Kinds /\ IndexInv /\ DataInv

----------------------------------------------------------------------------
(* Quotient and remainder by c are unique.                                   *)
LEMMA Division ==
  ASSUME NEW c \in Nat, NEW q \in Int, NEW r \in Nat, NEW u \in Int, NEW s \in Nat,
         r < c, s < c, c * q + r = c * u + s
  PROVE  q = u /\ r = s
<1>1. c * (q - u) = s - r
  OBVIOUS
<1>2. CASE q - u >= 1
  <2>1. c * (q - u) >= c
    BY <1>2
  <2> QED
    BY <1>1, <2>1
<1>3. CASE u - q >= 1
  <2>1. c * (u - q) >= c /\ c * (u - q) = r - s
    BY <1>1, <1>3
  <2> QED
    BY <2>1
<1> QED
  BY <1>2, <1>3

(* Going round: positions less than Capacity apart are different elements.   *)
LEMMA Positions ==
  /\ \A k \in Nat : Pos(k) \in Indices /\ NextIdx(Pos(k)) = Pos(k + 1)
  /\ \A a \in Nat : Pos(a + Capacity) = Pos(a)
  /\ \A a, b \in Nat : a < b /\ b < a + Capacity => Pos(a) # Pos(b)
<1>c. Capacity \in Nat /\ Capacity > 1
  BY RingBuffersAssumption
<1>1. ASSUME NEW k \in Nat
      PROVE  /\ Pos(k) \in Nat /\ Pos(k) < Capacity
             /\ \E q \in Int : k = Capacity * q + Pos(k)
  <2>1. Pos(k) \in Nat /\ Pos(k) < Capacity /\ k \div Capacity \in Int
    BY <1>c DEF Pos
  <2>2. k = Capacity * (k \div Capacity) + Pos(k)
    BY <1>c DEF Pos
  <2> QED
    BY <2>1, <2>2
<1>2. ASSUME NEW k \in Nat, NEW q \in Int, NEW r \in Nat,
             r < Capacity, k = Capacity * q + r
      PROVE  Pos(k) = r
  <2>1. PICK u \in Int : k = Capacity * u + Pos(k)
    BY <1>1
  <2>2. Pos(k) \in Nat /\ Pos(k) < Capacity /\ Capacity * q + r = Capacity * u + Pos(k)
    BY <1>1, <1>2, <2>1
  <2> QED
    BY <1>2, <1>c, <2>2, Division
<1>d. \A q \in Int : Capacity * (q + 1) = Capacity * q + Capacity
  BY <1>c
<1>3. ASSUME NEW k \in Nat PROVE Pos(k) \in Indices /\ NextIdx(Pos(k)) = Pos(k + 1)
  <2>1. PICK q \in Int : k = Capacity * q + Pos(k)
    BY <1>1
  <2>2. Pos(k) \in Nat /\ Pos(k) < Capacity /\ Capacity * q \in Int
    BY <1>1, <1>c
  <2>3. CASE Pos(k) + 1 = Capacity
    <3>1. k + 1 = Capacity * (q + 1) + 0
      BY <1>c, <1>d, <2>1, <2>2, <2>3
    <3>2. Pos(k + 1) = 0
      BY <1>2, <1>c, <3>1
    <3> QED
      BY <2>2, <2>3, <3>2 DEF Indices, NextIdx
  <2>4. CASE Pos(k) + 1 # Capacity
    <3>1. k + 1 = Capacity * q + (Pos(k) + 1) /\ Pos(k) + 1 < Capacity
      BY <1>c, <2>1, <2>2, <2>4
    <3>2. Pos(k + 1) = Pos(k) + 1
      BY <1>2, <2>2, <3>1
    <3> QED
      BY <1>c, <2>2, <2>4, <3>2 DEF Indices, NextIdx
  <2> QED
    BY <2>3, <2>4
<1>4. ASSUME NEW a \in Nat PROVE Pos(a + Capacity) = Pos(a)
  <2>1. PICK q \in Int : a = Capacity * q + Pos(a)
    BY <1>1
  <2>2. Pos(a) \in Nat /\ Pos(a) < Capacity /\ Capacity * q \in Int
    BY <1>1, <1>c
  <2>3. a + Capacity = Capacity * (q + 1) + Pos(a)
    BY <1>c, <1>d, <2>1, <2>2
  <2>4. a + Capacity \in Nat /\ q + 1 \in Int
    BY <1>c
  <2> QED
    BY <1>2, <2>2, <2>3, <2>4
<1>5. ASSUME NEW a \in Nat, NEW b \in Nat, a < b, b < a + Capacity, Pos(a) = Pos(b)
      PROVE  FALSE
  <2>1. PICK q \in Int : a = Capacity * q + Pos(a)
    BY <1>1
  <2>2. PICK u \in Int : b = Capacity * u + Pos(a)
    BY <1>1, <1>5
  <2>3. b - a \in Nat /\ b - a < Capacity /\ b - a > 0
    BY <1>5, <1>c
  <2>4. Capacity * u + 0 = Capacity * q + (b - a)
    BY <1>1, <1>c, <2>1, <2>2
  <2>5. 0 = b - a
    BY <1>c, <2>3, <2>4, Division
  <2> QED
    BY <2>3, <2>5
<1> QED
  BY <1>3, <1>4, <1>5

(* Each push, and each pop, acts on what it saw before or on a newer load.   *)
LEMMA Loads ==
  ASSUME IndInv
  PROVE  PushLoads \subseteq readSeen .. Len(readMO) /\ PopLoads \subseteq writeSeen .. Len(writeMO)
<1>1. readSeen \in Nat /\ Len(readMO) \in Nat /\ readSeen <= Len(readMO)
  BY DEF IndInv, IndexInv
<1>2. writeSeen \in Nat /\ Len(writeMO) \in Nat /\ writeSeen <= Len(writeMO)
  BY DEF IndInv, IndexInv
<1>3. kind \in Kinds
  BY DEF IndInv
<1> QED
  BY <1>1, <1>2, <1>3
  DEF Kinds, PushLoads, PopLoads,
      ringbuffer0_push, ringbuffer1_push, ringbuffer2_push, ringbuffer3_push, ringbuffer4_push,
      ringbuffer0_pop, ringbuffer1_pop, ringbuffer2_pop, ringbuffer3_pop, ringbuffer4_pop

(* The values pushed and popped, counted. *)
Counted ==
  /\ Capacity \in Nat /\ Capacity > 1
  /\ Pushed \in Nat /\ Popped \in Nat
  /\ Len(writeMO) = Pushed + 1 /\ Len(readMO) = Popped + 1
  /\ writeIdx_ = Pos(Pushed) /\ readIdx_ = Pos(Popped)
  /\ readSeen \in Nat /\ readSeen >= 1 /\ readSeen - 1 <= Popped
  /\ writeSeen \in Nat /\ writeSeen >= 1 /\ writeSeen - 1 <= Pushed
  /\ Popped <= Pushed /\ Pushed - Popped <= Capacity - 1
  /\ Pushed - (readSeen - 1) <= Capacity - 1
  /\ Popped <= writeSeen - 1
  /\ ppc \in {"write", "store"} => Pushed - (readSeen - 1) < Capacity - 1
  /\ cpc \in {"read", "store"} => Popped < writeSeen - 1

(* They follow from the lengths of the two histories.                        *)
LEMMA Counts == IndInv => Counted
BY RingBuffersAssumption
DEF IndInv, IndexInv, Counted, Pushed, Popped, writeIdx_, readIdx_

----------------------------------------------------------------------------
(* An empty ring buffer.                                                     *)
LEMMA InitInv == Init => IndInv
<1> SUFFICES ASSUME Init PROVE IndInv
  OBVIOUS
<1>1. Pos(0) = 0 /\ 0 \in Indices /\ Capacity \in Nat
  BY RingBuffersAssumption DEF Pos, Indices
<1>2. kind \in Kinds
  BY DEF Init
<1>3. ppc \in {"lock", "check"} /\ cpc \in {"lock", "check"}
  BY DEF Init, Start
<1>4. IndexInv
  BY <1>1, <1>3, RingBuffersAssumption DEF Init, IndexInv, Pushed, Popped
<1>5. DataInv
  BY <1>1, <1>3 DEF Init, DataInv, Pushed, Popped, Indices, Unset
<1> QED
  BY <1>2, <1>4, <1>5 DEF IndInv

(* What a thread may do to its own index and to the other one's, and be       *)
(* still within the invariant.                                               *)
LEMMA PushKeepsInv == IndInv /\ Producer => IndInv'
<1> SUFFICES ASSUME IndInv, Producer PROVE IndInv'
  OBVIOUS
<1>c. Counted
  BY Counts
<1> USE DEF IndInv, consumerVars
<1>1. CASE PushLocks
  BY <1>1 DEF PushLocks, IndexInv, DataInv, Pushed, Popped
<1>2. CASE PushChecks
  <2>1. PICK n \in PushLoads :
          /\ readSeen' = n
          /\ \/ ppc' = Start
             \/ NextIdx(writeIdx_) # readMO[n] /\ ppc' = "write"
    BY <1>2 DEF PushChecks, Full
  <2>2. n \in readSeen .. Len(readMO)
    BY <2>1, Loads
  <2>3. readMO[n] = Pos(n - 1) /\ NextIdx(writeIdx_) = Pos(Pushed + 1)
    <3>1. n \in 1 .. Len(readMO)
      BY <2>2 DEF IndexInv
    <3>2. NextIdx(writeIdx_) = Pos(Pushed + 1)
      BY <1>c, Positions DEF Counted
    <3> QED
      BY <3>1, <3>2 DEF IndexInv
  <2>4. Pos(n - 1) # Pos(Pushed + 1) => Pushed - (n - 1) < Capacity - 1
    <3>1. n - 1 \in Nat /\ Pushed - (n - 1) <= Capacity - 1
      BY <1>c, <2>2 DEF Counted, IndexInv
    <3>2. Pushed - (n - 1) = Capacity - 1 => Pushed + 1 = (n - 1) + Capacity
      BY <1>c, <3>1 DEF Counted
    <3>3. Pos((n - 1) + Capacity) = Pos(n - 1)
      BY <3>1, Positions
    <3> QED
      BY <1>c, <3>1, <3>2, <3>3 DEF Counted
  <2>5. ppc' \in {"lock", "check"} \/ (ppc' = "write" /\ Pushed - (n - 1) < Capacity - 1)
    BY <2>1, <2>3, <2>4 DEF Start
  <2>6. Pushed - (n - 1) <= Capacity - 1
    BY <1>c, <2>2 DEF Counted, IndexInv
  <2>7. Pushed < Iters /\ UNCHANGED <<kind, data_, writeMO, readMO, writeSeen, cpc, val>>
    BY <1>2 DEF PushChecks
  <2>8. IndexInv'
    BY <2>1, <2>2, <2>5, <2>6, <2>7 DEF IndexInv, Pushed, Popped
  <2>9. DataInv'
    BY <2>5, <2>7 DEF DataInv, Pushed, Popped
  <2> QED
    BY <2>7, <2>8, <2>9
<1>3. CASE PushWrites
  <2>1. /\ ppc = "write" /\ ppc' = "store"
        /\ data_' = [data_ EXCEPT ![Pos(Pushed)] = Pushed + 1]
        /\ UNCHANGED <<kind, writeMO, readMO, readSeen, writeSeen, cpc, val>>
    BY <1>c, <1>3 DEF Counted, PushWrites
  <2>2. IndexInv'
    BY <2>1 DEF IndexInv, Pushed, Popped
  <2>3. Pushed' = Pushed /\ Popped' = Popped
    BY <2>1 DEF Pushed, Popped
  <2>4. data_' \in [Indices -> Nat] /\ data_'[Pos(Pushed)] = Pushed + 1
    <3>1. Pushed + 1 \in Nat /\ Pos(Pushed) \in Indices
      BY <1>c, Positions DEF Counted
    <3> QED
      BY <2>1, <3>1 DEF DataInv
  <2>5. ASSUME NEW k \in Popped .. Pushed - 1 PROVE data_'[Pos(k)] = k + 1
    <3>1. k \in Nat /\ k < Pushed /\ Pushed < k + Capacity
      BY <1>c DEF Counted
    <3>2. Pos(k) # Pos(Pushed) /\ Pos(k) \in Indices
      BY <1>c, <3>1, Positions DEF Counted
    <3> QED
      BY <2>1, <3>2 DEF DataInv
  <2>6. DataInv'
    BY <2>1, <2>3, <2>4, <2>5 DEF DataInv
  <2> QED
    BY <2>1, <2>2, <2>6
<1>4. CASE PushStores
  <2>1. /\ ppc = "store" /\ ppc' \in {"lock", "check"}
        /\ writeMO' = Append(writeMO, NextIdx(writeIdx_))
        /\ UNCHANGED <<kind, data_, readMO, readSeen, writeSeen, cpc, val>>
    BY <1>4 DEF PushStores, Start
  <2>2. NextIdx(writeIdx_) = Pos(Pushed + 1) /\ Pos(Pushed + 1) \in Indices
    BY <1>c, Positions DEF Counted
  <2>3. /\ writeMO' \in Seq(Indices) /\ Len(writeMO') = Len(writeMO) + 1
        /\ writeMO'[Len(writeMO) + 1] = Pos(Pushed + 1)
        /\ \A k \in 1 .. Len(writeMO) : writeMO'[k] = writeMO[k]
    BY <2>1, <2>2 DEF IndexInv
  <2>4. Pushed' = Pushed + 1 /\ Popped' = Popped
    BY <1>c, <2>1, <2>3 DEF Counted, Pushed, Popped
  <2>5. ASSUME NEW k \in 1 .. Len(writeMO') PROVE writeMO'[k] = Pos(k - 1)
    <3>1. CASE k \in 1 .. Len(writeMO)
      BY <2>3, <3>1 DEF IndexInv
    <3>2. CASE k = Pushed + 2
      <4>1. k - 1 = Pushed + 1 /\ k = Len(writeMO) + 1
        BY <1>c, <3>2 DEF Counted
      <4> QED
        BY <2>3, <4>1
    <3> QED
      BY <1>c, <2>3, <3>1, <3>2 DEF Counted
  <2>6. IndexInv'
    <3>1. /\ (Pushed + 1) - (readSeen - 1) <= Capacity - 1
          /\ writeSeen \in 1 .. Len(writeMO')
      BY <1>c, <2>1, <2>3 DEF Counted
    <3>2. Popped <= writeSeen - 1 /\ (cpc \in {"read", "store"} => Popped < writeSeen - 1)
      BY <1>c DEF Counted
    <3>3. readMO \in Seq(Indices) /\ readSeen \in 1 .. Len(readMO)
           /\ \A k \in 1 .. Len(readMO) : readMO[k] = Pos(k - 1)
      BY DEF IndexInv
    <3>4. /\ ppc' \in {"lock", "check"} /\ writeMO' \in Seq(Indices)
          /\ UNCHANGED <<readMO, readSeen, writeSeen, cpc>>
      BY <2>1, <2>3
    <3> HIDE DEF IndInv
    <3> QED
      BY <2>4, <2>5, <3>1, <3>2, <3>3, <3>4 DEF IndexInv
  <2>7. ASSUME NEW k \in Popped .. Pushed PROVE data_[Pos(k)] = k + 1
    <3>1. k \in Popped .. Pushed - 1 \/ k = Pushed
      BY <1>c DEF Counted
    <3> QED
      BY <2>1, <3>1 DEF DataInv
  <2>8. DataInv'
    BY <1>c, <2>1, <2>4, <2>7 DEF Counted, DataInv
  <2> QED
    BY <2>1, <2>6, <2>8
<1> QED
  BY <1>1, <1>2, <1>3, <1>4 DEF Producer

(* The same of the consumer's steps.                                          *)
LEMMA PopKeepsInv == IndInv /\ Consumer => IndInv'
<1> SUFFICES ASSUME IndInv, Consumer PROVE IndInv'
  OBVIOUS
<1>c. Counted
  BY Counts
<1> USE DEF IndInv, producerVars
<1>1. CASE PopLocks
  BY <1>1 DEF PopLocks, IndexInv, DataInv, Pushed, Popped
<1>2. CASE PopChecks
  <2>1. PICK n \in PopLoads :
          /\ writeSeen' = n
          /\ \/ cpc' = Start
             \/ readIdx_ # writeMO[n] /\ cpc' = "read"
    BY <1>2 DEF PopChecks, Empty
  <2>2. n \in writeSeen .. Len(writeMO)
    BY <2>1, Loads
  <2>3. writeMO[n] = Pos(n - 1) /\ readIdx_ = Pos(Popped)
    BY <1>c, <2>2 DEF Counted, IndexInv
  <2>4. n - 1 \in Nat /\ Popped <= n - 1
    BY <1>c, <2>2 DEF Counted, IndexInv
  <2>5. cpc' \in {"lock", "check"} \/ (cpc' = "read" /\ Popped < n - 1)
    BY <1>c, <2>1, <2>3, <2>4 DEF Counted, Start
  <2>6. UNCHANGED <<kind, data_, writeMO, readMO, readSeen, ppc, val>>
    BY <1>2 DEF PopChecks
  <2>7. IndexInv'
    BY <2>1, <2>2, <2>4, <2>5, <2>6 DEF IndexInv, Pushed, Popped
  <2>8. DataInv'
    BY <2>5, <2>6 DEF DataInv, Pushed, Popped
  <2> QED
    BY <2>6, <2>7, <2>8
<1>3. CASE PopReads
  <2>1. /\ cpc = "read" /\ cpc' = "store"
        /\ val' = data_[Pos(Popped)]
        /\ UNCHANGED <<kind, data_, writeMO, readMO, readSeen, writeSeen, ppc>>
    BY <1>c, <1>3 DEF Counted, PopReads
  <2>2. val' = Popped + 1
    <3>1. Popped \in Popped .. Pushed - 1
      BY <1>c, <2>1 DEF Counted, IndexInv
    <3> QED
      BY <2>1, <3>1 DEF DataInv
  <2> QED
    BY <2>1, <2>2 DEF IndexInv, DataInv, Pushed, Popped
<1>4. CASE PopStores
  <2>1. /\ cpc = "store" /\ cpc' \in {"lock", "check"}
        /\ readMO' = Append(readMO, NextIdx(readIdx_))
        /\ UNCHANGED <<kind, data_, writeMO, readSeen, writeSeen, ppc, val>>
    BY <1>4 DEF PopStores, Start
  <2>2. NextIdx(readIdx_) = Pos(Popped + 1) /\ Pos(Popped + 1) \in Indices
    BY <1>c, Positions DEF Counted
  <2>3. /\ readMO' \in Seq(Indices) /\ Len(readMO') = Len(readMO) + 1
        /\ readMO'[Len(readMO) + 1] = Pos(Popped + 1)
        /\ \A k \in 1 .. Len(readMO) : readMO'[k] = readMO[k]
    BY <2>1, <2>2 DEF IndexInv
  <2>4. Popped' = Popped + 1 /\ Pushed' = Pushed
    BY <1>c, <2>1, <2>3 DEF Counted, Pushed, Popped
  <2>5. ASSUME NEW k \in 1 .. Len(readMO') PROVE readMO'[k] = Pos(k - 1)
    <3>1. CASE k \in 1 .. Len(readMO)
      BY <2>3, <3>1 DEF IndexInv
    <3>2. CASE k = Popped + 2
      <4>1. k - 1 = Popped + 1 /\ k = Len(readMO) + 1
        BY <1>c, <3>2 DEF Counted
      <4> QED
        BY <2>3, <4>1
    <3> QED
      BY <1>c, <2>3, <3>1, <3>2 DEF Counted
  <2>6. IndexInv'
    BY <1>c, <2>1, <2>3, <2>4, <2>5 DEF Counted, IndexInv
  <2>7. DataInv'
    BY <1>c, <2>1, <2>4 DEF Counted, DataInv
  <2> QED
    BY <2>1, <2>6, <2>7
<1> QED
  BY <1>1, <1>2, <1>3, <1>4 DEF Consumer

(* The invariant is inductive.                                               *)
LEMMA NextInv == IndInv /\ [Next]_vars => IndInv'
<1> SUFFICES ASSUME IndInv, UNCHANGED vars PROVE IndInv'
  BY PushKeepsInv, PopKeepsInv DEF Next
<1> QED
  BY DEF IndInv, IndexInv, DataInv, Pushed, Popped, vars, producerVars, consumerVars

----------------------------------------------------------------------------
(* For every capacity, and each of the five: no element is written while the *)
(* consumer may read it, nor read before the write is visible.               *)
THEOREM NoRace == Spec => []AccessesOrdered
<1>1. IndInv => AccessesOrdered
  <2> SUFFICES ASSUME IndInv PROVE AccessesOrdered
    OBVIOUS
  <2>1. Counted
    BY Counts
  <2>2. ASSUME ppc = "write", NEW k \in readSeen .. Pushed PROVE writeMO[k] # writeIdx_
    <3>1. k \in 1 .. Len(writeMO) /\ k - 1 \in Nat
      BY <2>1 DEF Counted
    <3>2. k - 1 < Pushed /\ Pushed < (k - 1) + Capacity
      BY <2>1, <2>2 DEF Counted
    <3>3. Pos(k - 1) # Pos(Pushed)
      BY <2>1, <3>1, <3>2, Positions DEF Counted
    <3>4. writeMO[k] = Pos(k - 1)
      BY <3>1 DEF IndInv, IndexInv
    <3> QED
      BY <2>1, <3>3, <3>4 DEF Counted
  <2>3. cpc = "read" => Popped + 1 < writeSeen
    BY <2>1 DEF Counted
  <2> QED
    BY <2>2, <2>3 DEF AccessesOrdered
<1> QED
  BY InitInv, NextInv, <1>1, PTL DEF Spec

(* For every capacity: push refuses exactly with Capacity - 1 values in the  *)
(* buffer by the index it has loaded, and pop exactly with none.             *)
THEOREM RefusalsJustified == Spec => []RefusedAtTheLimit
<1>1. IndInv => RefusedAtTheLimit
  <2> SUFFICES ASSUME IndInv PROVE RefusedAtTheLimit
    OBVIOUS
  <2>0. Counted
    BY Counts
  <2>1. ASSUME NEW n \in PushLoads PROVE Full(n) <=> Pushed - (n - 1) = Capacity - 1
    <3>1. n \in readSeen .. Len(readMO)
      BY Loads
    <3>2. n \in 1 .. Len(readMO) /\ n - 1 \in Nat /\ n - 1 <= Popped
      BY <2>0, <3>1 DEF Counted
    <3>3. Full(n) <=> Pos(Pushed + 1) = Pos(n - 1)
      <4>1. readMO[n] = Pos(n - 1)
        BY <3>2 DEF IndInv, IndexInv
      <4>2. NextIdx(writeIdx_) = Pos(Pushed + 1)
        BY <2>0, Positions DEF Counted
      <4> QED
        BY <4>1, <4>2 DEF Full
    <3>4. n - 1 < Pushed + 1 /\ Pushed - (n - 1) <= Capacity - 1
      BY <2>0, <3>1, <3>2 DEF Counted
    <3>5. CASE Pushed - (n - 1) = Capacity - 1
      <4>1. Pushed + 1 = (n - 1) + Capacity
        BY <2>0, <3>2, <3>5 DEF Counted
      <4> QED
        BY <3>2, <3>3, <3>5, <4>1, Positions
    <3>6. CASE Pushed - (n - 1) < Capacity - 1
      <4>1. Pushed + 1 < (n - 1) + Capacity /\ Pushed + 1 \in Nat
        BY <2>0, <3>2, <3>6 DEF Counted
      <4>2. Pos(n - 1) # Pos(Pushed + 1)
        BY <3>2, <3>4, <4>1, Positions
      <4> QED
        BY <2>0, <3>2, <3>3, <3>6, <4>2 DEF Counted
    <3> QED
      BY <2>0, <3>2, <3>4, <3>5, <3>6 DEF Counted
  <2>2. ASSUME NEW n \in PopLoads PROVE Empty(n) <=> Popped = n - 1
    <3>1. n \in writeSeen .. Len(writeMO)
      BY Loads
    <3>2. n \in 1 .. Len(writeMO) /\ n - 1 \in Nat /\ Popped <= n - 1 /\ n - 1 < Popped + Capacity
      BY <2>0, <3>1 DEF Counted
    <3>3. writeMO[n] = Pos(n - 1)
      BY <3>2 DEF IndInv, IndexInv
    <3>4. Empty(n) <=> Pos(Popped) = Pos(n - 1)
      BY <2>0, <3>3 DEF Counted, Empty
    <3>5. Popped < n - 1 => Pos(Popped) # Pos(n - 1)
      BY <2>0, <3>2, Positions DEF Counted
    <3> QED
      BY <2>0, <3>2, <3>4, <3>5 DEF Counted
  <2> QED
    BY <2>1, <2>2 DEF RefusedAtTheLimit
<1> QED
  BY InitInv, NextInv, <1>1, PTL DEF Spec

----------------------------------------------------------------------------
Queue == [k \in 1 .. Pushed - Popped |-> data_[writeMO[Popped + k]]]
Ints(a, b) == [k \in 1 .. b - a |-> a + k]
QueueInv == Queue = Ints(Popped, Pushed)

(* What the refinement mapping shows of the buffer are the values pushed and *)
(* not yet popped, in order.                                                 *)
LEMMA QueueIs == IndInv => QueueInv
<1> SUFFICES ASSUME IndInv, NEW k \in 1 .. Pushed - Popped
             PROVE  data_[writeMO[Popped + k]] = Popped + k
  BY DEF Queue, QueueInv, Ints
<1>1. Counted
  BY Counts
<1>2. Popped + k \in 1 .. Len(writeMO) /\ (Popped + k) - 1 \in Popped .. Pushed - 1
  BY <1>1 DEF Counted
<1>3. writeMO[Popped + k] = Pos((Popped + k) - 1)
  BY <1>2 DEF IndInv, IndexInv
<1>4. data_[Pos((Popped + k) - 1)] = ((Popped + k) - 1) + 1
  BY <1>2 DEF IndInv, DataInv
<1> QED
  BY <1>1, <1>3, <1>4 DEF Counted

(* For every capacity, and each of the five: the values come out as they     *)
(* went in, none lost, repeated or altered.                                  *)
THEOREM FirstInFirstOut == Spec => FIFO!Spec
<1>1. Init => FIFO!Init
  BY DEF Init, FIFO!Init, Pushed, Popped
<1>c. IndInv' => QueueInv'
  BY QueueIs, PTL
<1>2. IndInv /\ IndInv' /\ [Next]_vars => [FIFO!Next]_<<Queue, received>>
  <2> SUFFICES ASSUME IndInv, IndInv', [Next]_vars
               PROVE  FIFO!Next \/ UNCHANGED <<Queue, received>>
    OBVIOUS
  <2>1. Counted
    BY Counts
  <2>2. Queue = Ints(Popped, Pushed) /\ Queue' = Ints(Popped', Pushed')
    BY QueueIs, <1>c DEF QueueInv
  <2>3. CASE PushStores
    <3>1. Pushed' = Pushed + 1 /\ Popped' = Popped /\ UNCHANGED received
      BY <2>1, <2>3 DEF PushStores, Counted, Pushed, Popped, consumerVars, IndInv, IndexInv
    <3>2. Ints(Popped, Pushed + 1) = Append(Ints(Popped, Pushed), Pushed + 1)
      BY <2>1 DEF Counted, Ints
    <3>3. Pushed + 1 \in Values
      BY <2>1, <2>3, RingBuffersAssumption DEF PushStores, Counted, IndInv, DataInv, Values
    <3>4. Queue' = Append(Queue, Pushed + 1) /\ UNCHANGED received
      BY <2>2, <3>1, <3>2
    <3> QED
      BY <3>3, <3>4 DEF FIFO!Next, FIFO!Send, Queue
  <2>4. CASE PopStores
    <3>1. Pushed' = Pushed /\ Popped' = Popped + 1 /\ received' = Append(received, Popped + 1)
      BY <2>1, <2>4 DEF PopStores, Counted, Pushed, Popped, producerVars, IndInv, IndexInv, DataInv
    <3>2. Popped < Pushed
      BY <2>1, <2>4 DEF PopStores, Counted
    <3>3. /\ Ints(Popped, Pushed) # <<>>
          /\ Head(Ints(Popped, Pushed)) = Popped + 1
          /\ Tail(Ints(Popped, Pushed)) = Ints(Popped + 1, Pushed)
      BY <2>1, <3>2, SMTT(30) DEF Counted, Ints
    <3>4. Queue # <<>> /\ received' = Append(received, Head(Queue)) /\ Queue' = Tail(Queue)
      BY <2>2, <3>1, <3>3
    <3>5. FIFO!Receive
      BY <3>4 DEF FIFO!Receive, Queue
    <3> QED
      BY <3>5 DEF FIFO!Next
  <2>5. ASSUME ~ PushStores, ~ PopStores PROVE UNCHANGED <<Pushed, Popped, received>>
    BY <2>5 DEF Next, Producer, Consumer, PushLocks, PushChecks, PushWrites, PopLocks,
                PopChecks, PopReads, Pushed, Popped, vars, producerVars, consumerVars
  <2> QED
    BY <2>2, <2>3, <2>4, <2>5
<1> QED
  BY InitInv, NextInv, <1>1, <1>2, PTL DEF Spec, FIFO!Spec, FIFO!fifoVars, Queue
----------------------------------------------------------------------------
Locked == {"check", "write", "read", "store"}

(* The elements hold values or nothing yet; only ringbuffer4 locks, a thread *)
(* of it holds the mutex from the check of a call to its return, and nobody  *)
(* holds it otherwise.                                                       *)
LocalInv ==
  /\ data_ \in [Indices -> Values \cup {Unset}] /\ val \in Values \cup {Unset}
  /\ ppc \in {"lock", "check", "write", "store"}
  /\ cpc \in {"lock", "check", "read", "store"}
  /\ "lock" \in {ppc, cpc} => kind = "ringbuffer4"
  /\ mutex_ \in {"none", "producer", "consumer"}
  /\ mutex_ = "producer" <=> kind = "ringbuffer4" /\ ppc \in Locked
  /\ mutex_ = "consumer" <=> kind = "ringbuffer4" /\ cpc \in Locked

(* An empty buffer, and a free mutex.                                        *)
LEMMA InitLocal == Init => LocalInv
<1> SUFFICES ASSUME Init PROVE LocalInv
  OBVIOUS
<1>1. /\ Start \in {"lock", "check"} /\ (Start = "lock" => kind = "ringbuffer4")
      /\ kind = "ringbuffer4" <=> Start \notin Locked
  BY DEF Start, Locked
<1> QED
  BY <1>1 DEF Init, LocalInv, Indices

(* Each step keeps the mutex with the thread whose call is under way.        *)
LEMMA NextLocal == IndInv /\ LocalInv /\ [Next]_vars => LocalInv'
<1> SUFFICES ASSUME IndInv, LocalInv, [Next]_vars PROVE LocalInv'
  OBVIOUS
<1>c. Counted
  BY Counts
<1>1. Start \in {"lock", "check"} /\ (kind = "ringbuffer4" <=> Start \notin Locked)
  BY DEF Start, Locked
<1> USE DEF LocalInv, Locked
<1>2. CASE PushLocks \/ PushChecks \/ PushStores
  <2>1. UNCHANGED <<kind, data_, val, cpc>>
    BY <1>2 DEF PushLocks, PushChecks, PushStores, consumerVars
  <2>2. CASE PushLocks
    BY <1>1, <2>1, <2>2 DEF PushLocks, Lock
  <2>3. CASE PushChecks
    <3>1. ppc = "check" /\ \/ ppc' = Start /\ mutex_' = "none"
                           \/ ppc' = "write" /\ mutex_' = mutex_
      BY <2>3 DEF PushChecks, Unlock
    <3> QED
      BY <1>1, <2>1, <3>1
  <2>4. CASE PushStores
    BY <1>1, <2>1, <2>4 DEF PushStores, Unlock
  <2> QED
    BY <1>2, <2>2, <2>3, <2>4
<1>3. CASE PushWrites
  <2>1. Pushed + 1 \in Values
    BY <1>c, <1>3, RingBuffersAssumption DEF PushWrites, Counted, IndInv, DataInv, Values
  <2> QED
    BY <1>3, <2>1 DEF PushWrites, consumerVars
<1>4. CASE PopLocks \/ PopChecks \/ PopStores
  <2>1. UNCHANGED <<kind, data_, val, ppc>>
    BY <1>4 DEF PopLocks, PopChecks, PopStores, producerVars
  <2>2. CASE PopLocks
    BY <1>1, <2>1, <2>2 DEF PopLocks, Lock
  <2>3. CASE PopChecks
    <3>1. cpc = "check" /\ \/ cpc' = Start /\ mutex_' = "none"
                           \/ cpc' = "read" /\ mutex_' = mutex_
      BY <2>3 DEF PopChecks, Unlock
    <3> QED
      BY <1>1, <2>1, <3>1
  <2>4. CASE PopStores
    BY <1>1, <2>1, <2>4 DEF PopStores, Unlock
  <2> QED
    BY <1>4, <2>2, <2>3, <2>4
<1>5. CASE PopReads
  <2>1. readIdx_ \in Indices
    BY <1>c, Positions DEF Counted
  <2> QED
    BY <1>5, <2>1 DEF PopReads, producerVars
<1>6. CASE UNCHANGED vars
  BY <1>6 DEF vars, producerVars, consumerVars
<1> QED
  BY <1>2, <1>3, <1>4, <1>5, <1>6 DEF Next, Producer, Consumer

(* For every capacity, and each of the five: the indices stay inside data_,  *)
(* and never more than Capacity - 1 values are in it.                        *)
THEOREM WithinCapacity == Spec => []TypeOK
<1>1. IndInv /\ LocalInv => TypeOK
  <2> SUFFICES ASSUME IndInv, LocalInv PROVE TypeOK
    OBVIOUS
  <2>1. Popped <= Pushed /\ Pushed <= Popped + Capacity - 1
    BY Counts DEF Counted
  <2> QED
    BY <2>1 DEF IndInv, IndexInv, LocalInv, TypeOK
<1> QED
  BY InitInv, NextInv, InitLocal, NextLocal, <1>1, PTL DEF Spec

(* The threads of ringbuffer4 are never both between lock and unlock.        *)
MutualExclusion ==
  kind = "ringbuffer4" => ~ (ppc \in Locked /\ cpc \in Locked)

(* Each of the four returns of push and pop of ringbuffer4 releases the      *)
(* mutex that its own call took, and no other.                               *)
THEOREM OneInside == Spec => []MutualExclusion
<1>1. LocalInv => MutualExclusion
  BY DEF LocalInv, MutualExclusion
<1> QED
  BY InitInv, NextInv, InitLocal, NextLocal, <1>1, PTL DEF Spec

----------------------------------------------------------------------------
(* As long as bench has not ended, push or pop has something to do that it   *)
(* is not refused by the indices as they are.                                *)
NeverBothRefused ==
  Joined \/ (Pushed < Iters /\ NextIdx(writeIdx_) # readIdx_)
         \/ (Popped < Iters /\ readIdx_ # writeIdx_)

(* The producer sends iters values. *)
PushesInv == Pushed <= Iters

(* It calls push no more when that many have been accepted.                  *)
LEMMA NextPushes == IndInv /\ PushesInv /\ [Next]_vars => PushesInv'
<1> SUFFICES ASSUME IndInv, Pushed <= Iters, [Next]_vars PROVE Pushed' <= Iters
  BY DEF PushesInv
<1>1. CASE PushStores
  <2>1. Pushed' = Pushed + 1 /\ Pushed < Iters /\ Pushed \in Nat
    BY <1>1, Counts DEF PushStores, Pushed, IndInv, IndexInv, DataInv, Counted
  <2> QED
    BY <2>1, RingBuffersAssumption
<1>2. CASE ~ PushStores
  <2>1. writeMO' = writeMO
    BY <1>2 DEF Next, Producer, Consumer, PushLocks, PushChecks, PushWrites, PopLocks,
                PopChecks, PopReads, PopStores, producerVars, vars
  <2> QED
    BY <2>1 DEF Pushed
<1> QED
  BY <1>1, <1>2

(* The safety half of BenchEnds, for every capacity from 2 on: the retry     *)
(* loops of the two threads never wait for each other.                       *)
THEOREM OneEndGoesOn == Spec => []NeverBothRefused
<1>0. Init => PushesInv
  BY RingBuffersAssumption DEF Init, PushesInv, Pushed
<1>1. IndInv /\ PushesInv => NeverBothRefused
  <2> SUFFICES ASSUME IndInv, Pushed <= Iters, ~ Joined PROVE NeverBothRefused
    BY DEF NeverBothRefused, PushesInv
  <2>1. /\ Pushed \in Nat /\ Popped \in Nat /\ Popped <= Pushed
        /\ Pushed <= Popped + Capacity - 1 /\ Pushed <= Iters
        /\ Capacity \in Nat /\ Capacity > 1 /\ Iters \in Nat
        /\ writeIdx_ = Pos(Pushed) /\ readIdx_ = Pos(Popped)
    BY Counts, RingBuffersAssumption DEF Counted
  <2>2. CASE Popped < Pushed
    <3>1. Pos(Popped) # Pos(Pushed)
      BY <2>1, <2>2, Positions
    <3> QED
      BY <2>1, <2>2, <3>1 DEF NeverBothRefused
  <2>3. CASE Popped = Pushed
    <3>1. Pos(Pushed) # Pos(Pushed + 1) /\ NextIdx(Pos(Pushed)) = Pos(Pushed + 1)
      BY <2>1, Positions
    <3> QED
      BY <2>1, <2>3, <3>1 DEF NeverBothRefused, Joined
  <2> QED
    BY <2>1, <2>2, <2>3
<1> QED
  BY InitInv, NextInv, NextPushes, <1>0, <1>1, PTL DEF Spec
=============================================================================
