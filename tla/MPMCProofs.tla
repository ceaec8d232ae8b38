------------------------------ MODULE MPMCProofs ------------------------------
(****************************************************************************)
(* The turns of MPMC keep the threads apart and in order, for any number of *)
(* producers and consumers, any capacity and any number of calls.           *)
(****************************************************************************)
EXTENDS MPMC, TLAPS

Holding == {"spin", "access", "accessed"}   \* the ticket is the thread's own
Inside == {"access", "accessed"}            \* and the slot is, too

Types ==
  /\ next \in [{"head_", "tail_"} -> Nat]
  /\ slot_turn \in [Slots -> Nat]
  /\ storage \in [Slots -> Int]
  /\ pc \in [Threads -> {"idle", "spin", "try", "cas", "reload", "access", "accessed"}]
  /\ ticket \in [Threads -> Nat]
  /\ popped \in [0 .. TotalPops - 1 -> Int]

(* A ticket belongs to one thread, and has been given out. *)
OwnTickets ==
  /\ \A t \in Threads : pc[t] \in Holding => ticket[t] < next[End(t)]
  /\ \A t, u \in Threads :
       t # u /\ pc[t] \in Holding /\ pc[u] \in Holding /\ End(t) = End(u)
         => ticket[t] # ticket[u]

(* A slot's turn does not pass a ticket that still waits for it, be it taken *)
(* or not; it has come for a thread that saw it come.                        *)
TurnsInOrder ==
  /\ \A t \in Threads :
       /\ pc[t] = "spin" => slot_turn[Slot(t)] <= Awaited(t)
       /\ pc[t] = "cas" => Awaited(t) <= slot_turn[Slot(t)]
       /\ pc[t] \in Inside => slot_turn[Slot(t)] = Awaited(t)
  /\ \A i \in Nat :
       /\ next["head_"] <= i => slot_turn[idx(i)] <= turn(i) * 2
       /\ next["tail_"] <= i => slot_turn[idx(i)] <= turn(i) * 2 + 1

Accessed(s) == \E t \in Threads : pc[t] = "accessed" /\ Slot(t) = s

(* What lies in a slot: at an odd turn, the element of the turn's push. *)
Contents ==
  /\ \A t \in Producers : pc[t] = "accessed" => storage[Slot(t)] = ticket[t]
  /\ \A t \in Consumers : pc[t] = "accessed" => storage[Slot(t)] = None
  /\ \A s \in Slots : ~ Accessed(s) =>
       \/ slot_turn[s] % 2 = 0 /\ storage[s] = None
       \/ /\ storage[s] \in Nat
          /\ idx(storage[s]) = s
          /\ slot_turn[s] = turn(storage[s]) * 2 + 1

IndInv == Types /\ OwnTickets /\ TurnsInOrder /\ Contents /\ PopsWhatWasPushed

----------------------------------------------------------------------------
(* idx and turn are the remainder and the quotient by capacity_.             *)
LEMMA TicketParts ==
  ASSUME NEW i \in Nat
  PROVE  /\ turn(i) \in Nat /\ idx(i) \in Nat /\ idx(i) < capacity_
         /\ i = capacity_ * turn(i) + idx(i)
BY MPMCAssumption DEF idx, turn

(* They name a ticket.                                                       *)
LEMMA TicketArithmetic ==
  /\ \A i \in Nat : idx(i) \in Slots /\ turn(i) \in Nat
  /\ \A i, j \in Nat : idx(i) = idx(j) /\ turn(i) = turn(j) => i = j
<1>1. ASSUME NEW i \in Nat PROVE idx(i) \in Slots /\ turn(i) \in Nat
  BY TicketParts, MPMCAssumption DEF Slots
<1> QED
  BY <1>1, TicketParts

(* Producers are at head_ and await even turns, consumers at tail_ and await *)
(* odd ones.                                                                 *)
LEMMA Ends ==
  ASSUME NEW t \in Threads
  PROVE  /\ End(t) \in {"head_", "tail_"}
         /\ t \in Producers \/ t \in Consumers
         /\ t \in Producers <=> t \notin Consumers
         /\ t \in Producers <=> End(t) = "head_"
BY MPMCAssumption DEF End, Threads

(* Two threads that are inside a slot, by their tickets and its turn, are at *)
(* different slots: the same turn is awaited at one end by one ticket only.  *)
LEMMA Exclusive ==
  ASSUME Types, OwnTickets, TurnsInOrder,
         NEW t \in Threads, NEW u \in Threads, t # u,
         pc[t] \in Inside, pc[u] \in Inside
  PROVE  Slot(t) # Slot(u)
<1> SUFFICES ASSUME Slot(t) = Slot(u) PROVE FALSE
  OBVIOUS
<1>1. Awaited(t) = Awaited(u)
  BY DEF TurnsInOrder
<1>2. ticket[t] \in Nat /\ ticket[u] \in Nat
  BY DEF Types
<1>3. turn(ticket[t]) \in Nat /\ turn(ticket[u]) \in Nat
  BY <1>2, TicketArithmetic
<1>4. End(t) = End(u) /\ turn(ticket[t]) = turn(ticket[u])
  BY <1>1, <1>3 DEF Awaited, End
<1>5. ticket[t] = ticket[u]
  BY <1>2, <1>4, TicketArithmetic DEF Slot
<1> QED
  BY <1>4, <1>5 DEF OwnTickets, Holding, Inside

----------------------------------------------------------------------------
(* A new Queue: no tickets, and every slot free for its first push.          *)
LEMMA InitInv == Init => IndInv
<1> SUFFICES ASSUME Init PROVE IndInv
  OBVIOUS
<1>1. Types
  BY DEF Init, Types, None, Unpopped
<1>2. OwnTickets
  BY DEF Init, OwnTickets, Holding
<1>3. TurnsInOrder
  <2>1. \A i \in Nat : slot_turn[idx(i)] = 0 /\ turn(i) \in Nat
    BY TicketArithmetic DEF Init
  <2>2. \A i \in Nat : slot_turn[idx(i)] <= turn(i) * 2 /\ slot_turn[idx(i)] <= turn(i) * 2 + 1
    BY <2>1
  <2>3. \A t \in Threads : pc[t] = "idle"
    BY DEF Init
  <2> QED
    BY <2>2, <2>3 DEF TurnsInOrder, Inside
<1>4. Contents
  BY MPMCAssumption DEF Init, Contents, Threads
<1>5. PopsWhatWasPushed
  BY DEF Init, PopsWhatWasPushed
<1> QED
  BY <1>1, <1>2, <1>3, <1>4, <1>5 DEF IndInv

----------------------------------------------------------------------------
(* A thread that neither holds a ticket nor takes one changes only its own   *)
(* pc and ticket: try_emplace and try_pop up to the compare and exchange.    *)
LEMMA TryingKeepsInv ==
  ASSUME IndInv, NEW t \in Threads,
         pc[t] \in {"idle", "try", "cas", "reload"},
         NEW l \in {"idle", "try", "cas", "reload"}, NEW i \in Nat,
         Goto(t, l), Sees(t, i),
         l = "cas" => turn(i) * 2 + (IF t \in Producers THEN 0 ELSE 1) <= slot_turn[idx(i)],
         UNCHANGED <<next, slot_turn, storage, popped>>
  PROVE  IndInv'
<1> USE DEF IndInv, Goto, Sees
<1>1. Types'
  BY DEF Types
<1>2. OwnTickets'
  BY DEF Types, OwnTickets, Holding, End
<1>3. TurnsInOrder'
  <2>1. ASSUME NEW u \in Threads
        PROVE  /\ pc'[u] = "spin" => slot_turn'[Slot(u)'] <= Awaited(u)'
               /\ pc'[u] = "cas" => Awaited(u)' <= slot_turn'[Slot(u)']
               /\ pc'[u] \in Inside => slot_turn'[Slot(u)'] = Awaited(u)'
    <3>1. CASE u = t
      BY <3>1 DEF Types, Inside, Slot, Awaited
    <3>2. CASE u # t
      BY <3>2 DEF Types, TurnsInOrder, Slot, Awaited
    <3> QED
      BY <3>1, <3>2
  <2> QED
    BY <2>1 DEF TurnsInOrder
<1>4. Contents'
  <2>1. \A u \in Threads : pc'[u] = "accessed" <=> pc[u] = "accessed"
    BY DEF Types
  <2>2. \A u \in Threads : pc[u] = "accessed" => ticket'[u] = ticket[u]
    BY DEF Types
  <2>3. \A s \in Slots : Accessed(s)' <=> Accessed(s)
    BY <2>1, <2>2 DEF Accessed, Slot
  <2> QED
    BY <2>1, <2>2, <2>3 DEF Contents, Slot, Threads
<1>5. PopsWhatWasPushed'
  BY DEF PopsWhatWasPushed
<1> QED
  BY <1>1, <1>2, <1>3, <1>4, <1>5

(* Taking the next ticket, by a fetch_add or by a compare and exchange that  *)
(* succeeds after the awaited turn was seen.                                 *)
LEMMA TakingKeepsInv ==
  ASSUME IndInv, NEW t \in Threads,
         NEW l \in {"spin", "access"},
         Goto(t, l), Sees(t, next[End(t)]), TakesTicket(t),
         pc[t] \notin Holding,
         l = "access" => pc[t] = "cas" /\ ticket[t] = next[End(t)],
         UNCHANGED <<slot_turn, storage, popped>>
  PROVE  IndInv'
<1> USE DEF IndInv, Goto, Sees, TakesTicket
<1> DEFINE n == next[End(t)]
<1>0. n \in Nat /\ End(t) \in {"head_", "tail_"}
  BY Ends DEF Types
<1>1. Types'
  BY <1>0 DEF Types
<1>n. /\ next'[End(t)] = n + 1
      /\ \A e \in {"head_", "tail_"} : next[e] <= next'[e]
  BY <1>0 DEF Types
<1>2. OwnTickets'
  <2>1. ASSUME NEW u \in Threads, pc'[u] \in Holding
        PROVE  ticket'[u] < next'[End(u)]
    <3>1. CASE u = t
      BY <3>1, <1>0, <1>n DEF Types, End
    <3>2. CASE u # t
      <4>1. pc[u] \in Holding /\ ticket'[u] = ticket[u]
        BY <3>2, <2>1 DEF Types
      <4>2. ticket[u] < next[End(u)] /\ End(u) \in {"head_", "tail_"}
        BY <4>1, Ends DEF OwnTickets
      <4> QED
        BY <4>1, <4>2, <1>n, <1>1 DEF Types
    <3> QED
      BY <3>1, <3>2
  <2>2. ASSUME NEW u \in Threads, NEW v \in Threads, u # v,
               pc'[u] \in Holding, pc'[v] \in Holding, End(u) = End(v)
        PROVE  ticket'[u] # ticket'[v]
    <3>1. \A w \in Threads : w # t /\ pc'[w] \in Holding
            => pc[w] \in Holding /\ ticket'[w] = ticket[w] /\ ticket[w] < next[End(w)]
      BY DEF Types, OwnTickets
    <3>2. ticket'[t] = n
      BY DEF Types
    <3>3. CASE u = t
      BY <2>2, <3>1, <3>2, <3>3, <1>0 DEF Types
    <3>4. CASE v = t
      BY <2>2, <3>1, <3>2, <3>4, <1>0 DEF Types
    <3>5. CASE u # t /\ v # t
      BY <2>2, <3>1, <3>5 DEF OwnTickets
    <3> QED
      BY <3>3, <3>4, <3>5
  <2> QED
    BY <2>1, <2>2 DEF OwnTickets, End
<1>3. TurnsInOrder'
  <2>1. slot_turn[idx(n)] <= turn(n) * 2 + (IF t \in Producers THEN 0 ELSE 1)
    <3>1. turn(n) \in Nat
      BY <1>0, TicketArithmetic
    <3>2. CASE t \in Producers
      <4>1. n = next["head_"]
        BY <3>2 DEF End
      <4> QED
        BY <1>0, <3>1, <3>2, <4>1 DEF TurnsInOrder
    <3>3. CASE t \notin Producers
      <4>1. n = next["tail_"]
        BY <3>3 DEF End
      <4> QED
        BY <1>0, <3>1, <3>3, <4>1 DEF TurnsInOrder
    <3> QED
      BY <3>2, <3>3
  <2>2. ASSUME NEW u \in Threads
        PROVE  /\ pc'[u] = "spin" => slot_turn'[Slot(u)'] <= Awaited(u)'
               /\ pc'[u] = "cas" => Awaited(u)' <= slot_turn'[Slot(u)']
               /\ pc'[u] \in Inside => slot_turn'[Slot(u)'] = Awaited(u)'
    <3>1. CASE u = t
      <4>1. Slot(t)' = idx(n)
        BY <1>0 DEF Types, Slot
      <4>2. Awaited(t)' = turn(n) * 2 + (IF t \in Producers THEN 0 ELSE 1)
        BY <1>0 DEF Types, Awaited
      <4>3. pc'[t] = l
        BY DEF Types
      <4>4. CASE l = "spin"
        BY <3>1, <4>1, <4>2, <4>3, <4>4, <2>1 DEF Inside
      <4>5. CASE l = "access"
        <5>1. turn(n) * 2 + (IF t \in Producers THEN 0 ELSE 1) <= slot_turn[idx(n)]
          BY <4>5 DEF TurnsInOrder, Slot, Awaited
        <5>2. idx(n) \in Slots /\ turn(n) \in Nat /\ slot_turn[idx(n)] \in Nat
          BY <1>0, TicketArithmetic DEF Types
        <5> QED
          BY <3>1, <4>1, <4>2, <4>3, <4>5, <2>1, <5>1, <5>2 DEF Inside
      <4> QED
        BY <4>4, <4>5
    <3>2. CASE u # t
      BY <3>2 DEF Types, TurnsInOrder, Slot, Awaited
    <3> QED
      BY <3>1, <3>2
  <2>3. ASSUME NEW i \in Nat
        PROVE  /\ next'["head_"] <= i => slot_turn'[idx(i)] <= turn(i) * 2
               /\ next'["tail_"] <= i => slot_turn'[idx(i)] <= turn(i) * 2 + 1
    BY <1>n, <1>1 DEF Types, TurnsInOrder
  <2> QED
    BY <2>2, <2>3 DEF TurnsInOrder
<1>4. Contents'
  <2>1. \A u \in Threads : pc'[u] = "accessed" <=> pc[u] = "accessed"
    BY DEF Types, Holding
  <2>2. \A u \in Threads : pc[u] = "accessed" => ticket'[u] = ticket[u]
    BY DEF Types, Holding
  <2>3. \A s \in Slots : Accessed(s)' <=> Accessed(s)
    BY <2>1, <2>2 DEF Accessed, Slot
  <2> QED
    BY <2>1, <2>2, <2>3 DEF Contents, Slot, Threads
<1>5. PopsWhatWasPushed'
  BY DEF PopsWhatWasPushed
<1> QED
  BY <1>1, <1>2, <1>3, <1>4, <1>5

(* The spinning load returns the awaited turn: it has come, and is not over. *)
LEMMA SpinEndsKeepsInv ==
  ASSUME IndInv, NEW t \in Threads, SpinEnds(t)
  PROVE  IndInv'
<1> USE DEF IndInv, SpinEnds, Goto
<1>1. Types'
  BY DEF Types
<1>2. OwnTickets'
  BY DEF Types, OwnTickets, Holding, End
<1>3. TurnsInOrder'
  <2>1. slot_turn[Slot(t)] = Awaited(t)
    <3>1. ticket[t] \in Nat
      BY DEF Types
    <3>2. slot_turn[Slot(t)] \in Nat
      BY <3>1, TicketArithmetic DEF Types, Slot
    <3>3. turn(ticket[t]) \in Nat
      BY <3>1, TicketArithmetic
    <3>4. Awaited(t) \in Nat
      BY <3>3 DEF Awaited
    <3>5. Awaited(t) <= slot_turn[Slot(t)]
      BY <3>2 DEF LoadTurn
    <3>6. slot_turn[Slot(t)] <= Awaited(t)
      BY DEF TurnsInOrder
    <3> QED
      BY <3>2, <3>4, <3>5, <3>6
  <2> QED
    BY <2>1 DEF Types, TurnsInOrder, Slot, Awaited, Inside
<1>4. Contents'
  <2>1. \A u \in Threads : pc'[u] = "accessed" <=> pc[u] = "accessed"
    BY DEF Types
  <2>2. \A s \in Slots : Accessed(s)' <=> Accessed(s)
    BY <2>1 DEF Accessed, Slot
  <2> QED
    BY <2>1, <2>2 DEF Contents, Slot, Threads
<1>5. PopsWhatWasPushed'
  BY DEF PopsWhatWasPushed
<1> QED
  BY <1>1, <1>2, <1>3, <1>4, <1>5

(* A thread goes from one label inside its slot to the next: tickets and     *)
(* turns stay as they were.                                                  *)
LEMMA InsideKeepsOrder ==
  ASSUME IndInv, NEW t \in Threads, pc[t] = "access", Goto(t, "accessed"),
         UNCHANGED <<next, slot_turn, ticket>>
  PROVE  OwnTickets' /\ TurnsInOrder'
<1> USE DEF IndInv, Goto
<1>1. OwnTickets'
  BY DEF Types, OwnTickets, Holding, End
<1>2. TurnsInOrder'
  BY DEF Types, TurnsInOrder, Slot, Awaited, Inside
<1> QED
  BY <1>1, <1>2

(* A thread that is inside a slot is alone there. *)
LEMMA AloneInside ==
  ASSUME IndInv, NEW t \in Threads, pc[t] \in Inside
  PROVE  /\ Slot(t) \in Slots
         /\ \A u \in Threads : u # t /\ pc[u] = "accessed" => Slot(u) # Slot(t)
         /\ pc[t] = "access" => ~ Accessed(Slot(t))
<1> USE DEF IndInv
<1>1. Slot(t) \in Slots
  BY TicketArithmetic DEF Types, Slot
<1>2. \A u \in Threads : u # t /\ pc[u] = "accessed" => Slot(u) # Slot(t)
  BY Exclusive DEF Inside
<1>3. pc[t] = "access" => ~ Accessed(Slot(t))
  BY <1>2 DEF Accessed
<1> QED
  BY <1>1, <1>2, <1>3

(* The slot that a thread is about to access is empty, or holds the element  *)
(* of the thread's own ticket.                                               *)
LEMMA FindsInSlot ==
  ASSUME IndInv, NEW t \in Threads, pc[t] = "access"
  PROVE  storage[Slot(t)] = IF t \in Producers THEN None ELSE ticket[t]
<1> USE DEF IndInv
<1>1. Slot(t) \in Slots /\ ~ Accessed(Slot(t))
  BY AloneInside DEF Inside
<1>2. ticket[t] \in Nat /\ turn(ticket[t]) \in Nat
  BY TicketArithmetic DEF Types
<1>3. slot_turn[Slot(t)] = turn(ticket[t]) * 2 + IF t \in Producers THEN 0 ELSE 1
  BY DEF TurnsInOrder, Awaited, Inside
<1>4. CASE t \in Producers
  <2>1. slot_turn[Slot(t)] % 2 = 0
    BY <1>2, <1>3, <1>4
  <2>2. \A i \in Nat : slot_turn[Slot(t)] # turn(i) * 2 + 1
    BY <2>1, TicketArithmetic
  <2> QED
    BY <1>1, <1>4, <2>2 DEF Contents
<1>5. CASE t \notin Producers
  <2>1. slot_turn[Slot(t)] % 2 # 0
    BY <1>2, <1>3, <1>5
  <2>2. /\ storage[Slot(t)] \in Nat
        /\ idx(storage[Slot(t)]) = Slot(t)
        /\ slot_turn[Slot(t)] = turn(storage[Slot(t)]) * 2 + 1
    BY <1>1, <2>1 DEF Contents
  <2>3. turn(storage[Slot(t)]) = turn(ticket[t])
    BY <1>2, <1>3, <1>5, <2>2, TicketArithmetic
  <2> QED
    BY <1>2, <1>5, <2>2, <2>3, TicketArithmetic DEF Slot
<1> QED
  BY <1>4, <1>5

(* emplace and try_emplace construct the element in an empty slot. *)
LEMMA ConstructKeepsInv ==
  ASSUME IndInv, NEW t \in Producers, Construct(t)
  PROVE  IndInv'
<1> USE DEF IndInv, Construct, Goto
<1>0. t \in Threads /\ pc[t] \in Inside
  BY DEF Threads, Inside
<1>1. Types'
  <2>0. ticket[t] \in Int
    BY <1>0 DEF Types
  <2>1. storage' \in [Slots -> Int]
    BY <2>0, Zenon DEF Types
  <2>2. pc' \in [Threads -> {"idle", "spin", "try", "cas", "reload", "access", "accessed"}]
    BY <1>0, Zenon DEF Types
  <2> QED
    BY <2>1, <2>2, Zenon DEF Types
<1>2. OwnTickets' /\ TurnsInOrder'
  BY <1>0, InsideKeepsOrder, Zenon
<1>4. Contents'
  <2>1. /\ Slot(t) \in Slots
        /\ \A u \in Threads : u # t /\ pc[u] = "accessed" => Slot(u) # Slot(t)
    BY <1>0, AloneInside
  <2>2. \A s \in Slots : Accessed(s)' <=> Accessed(s) \/ s = Slot(t)
    BY <1>0 DEF Types, Accessed, Slot
  <2>3. storage'[Slot(t)] = ticket[t] /\ \A s \in Slots : s # Slot(t) => storage'[s] = storage[s]
    BY <2>1 DEF Types
  <2>4. \A u \in Producers : pc'[u] = "accessed" => storage'[Slot(u)'] = ticket'[u]
    <3> SUFFICES ASSUME NEW u \in Producers, pc'[u] = "accessed"
                 PROVE  storage'[Slot(u)] = ticket[u]
      BY DEF Slot
    <3>1. CASE u = t
      BY <3>1, <2>3
    <3>2. CASE u # t
      <4>1. u \in Threads /\ pc[u] = "accessed"
        BY <3>2 DEF Types, Threads
      <4>2. Slot(u) \in Slots
        BY <4>1, TicketArithmetic DEF Types, Slot
      <4> QED
        BY <3>2, <4>1, <4>2, <2>1, <2>3 DEF Contents
    <3> QED
      BY <3>1, <3>2
  <2>5. \A u \in Consumers : pc'[u] = "accessed" => storage'[Slot(u)'] = None
    <3> SUFFICES ASSUME NEW u \in Consumers, pc'[u] = "accessed"
                 PROVE  storage'[Slot(u)] = None
      BY DEF Slot
    <3>1. u # t
      BY MPMCAssumption
    <3>2. u \in Threads /\ pc[u] = "accessed"
      BY <3>1 DEF Types, Threads
    <3>3. Slot(u) \in Slots
      BY <3>2, TicketArithmetic DEF Types, Slot
    <3> QED
      BY <3>1, <3>2, <3>3, <2>1, <2>3 DEF Contents
  <2> QED
    BY <2>2, <2>3, <2>4, <2>5 DEF Contents
<1>5. PopsWhatWasPushed'
  BY DEF PopsWhatWasPushed
<1> QED
  BY <1>1, <1>2, <1>4, <1>5

(* pop and try_pop move the element of their own ticket out of the slot. *)
LEMMA MoveKeepsInv ==
  ASSUME IndInv, NEW t \in Consumers, Move(t)
  PROVE  IndInv'
<1> USE DEF IndInv, Move, Goto
<1>0. t \in Threads /\ pc[t] \in Inside /\ t \notin Producers
  BY MPMCAssumption DEF Threads, Inside
<1>s. /\ Slot(t) \in Slots
      /\ \A u \in Threads : u # t /\ pc[u] = "accessed" => Slot(u) # Slot(t)
      /\ ~ Accessed(Slot(t))
  BY <1>0, AloneInside
<1>m. storage[Slot(t)] = ticket[t]
  BY <1>0, FindsInSlot
<1>1. Types'
  <2>0. ticket[t] \in Int /\ None \in Int
    BY <1>0 DEF Types, None
  <2>1. storage' \in [Slots -> Int]
    BY <2>0, Zenon DEF Types
  <2>2. pc' \in [Threads -> {"idle", "spin", "try", "cas", "reload", "access", "accessed"}]
    BY <1>0, Zenon DEF Types
  <2>3. popped' \in [0 .. TotalPops - 1 -> Int]
    BY <2>0, <1>m, Zenon DEF Types
  <2> QED
    BY <2>1, <2>2, <2>3, Zenon DEF Types
<1>2. OwnTickets' /\ TurnsInOrder'
  BY <1>0, InsideKeepsOrder, Zenon
<1>4. Contents'
  <2>2. \A s \in Slots : Accessed(s)' <=> Accessed(s) \/ s = Slot(t)
    BY <1>0 DEF Types, Accessed, Slot
  <2>3. storage'[Slot(t)] = None /\ \A s \in Slots : s # Slot(t) => storage'[s] = storage[s]
    BY <1>s DEF Types
  <2>4. ASSUME NEW u \in Threads, u # t, pc'[u] = "accessed"
        PROVE  pc[u] = "accessed" /\ storage'[Slot(u)] = storage[Slot(u)]
    <3>1. pc[u] = "accessed" /\ Slot(u) # Slot(t)
      BY <2>4, <1>s DEF Types
    <3>2. Slot(u) \in Slots
      BY TicketArithmetic DEF Types, Slot
    <3> QED
      BY <3>1, <3>2, <2>3
  <2>5. \A u \in Producers : pc'[u] = "accessed" => storage'[Slot(u)'] = ticket'[u]
    BY <1>0, <2>4 DEF Contents, Slot, Threads
  <2>6. \A u \in Consumers : pc'[u] = "accessed" => storage'[Slot(u)'] = None
    BY <2>3, <2>4 DEF Contents, Slot, Threads
  <2> QED
    BY <2>2, <2>3, <2>5, <2>6 DEF Contents
<1>5. PopsWhatWasPushed'
  BY <1>m DEF PopsWhatWasPushed, Types
<1> QED
  BY <1>1, <1>2, <1>4, <1>5

(* The store of the turn hands the slot over.  No ticket that waits for the  *)
(* slot is passed: at the same end it has a later turn, at the other end the *)
(* same turn or a later one.                                                 *)
LEMMA HandsOverKeepsInv ==
  ASSUME IndInv, NEW t \in Threads, HandsOver(t)
  PROVE  IndInv'
<1> USE DEF IndInv, HandsOver, Goto
<1>0. pc[t] \in Inside /\ ticket[t] \in Nat /\ turn(ticket[t]) \in Nat
  BY TicketArithmetic DEF Types, Inside
<1>s. /\ Slot(t) \in Slots
      /\ \A u \in Threads : u # t /\ pc[u] = "accessed" => Slot(u) # Slot(t)
      /\ slot_turn[Slot(t)] = Awaited(t)
  BY <1>0, AloneInside DEF TurnsInOrder
<1>a. Awaited(t) \in Nat
  BY <1>0 DEF Awaited
<1>v. /\ slot_turn'[Slot(t)] = Awaited(t) + 1
      /\ \A s \in Slots : s # Slot(t) => slot_turn'[s] = slot_turn[s]
  BY <1>s DEF Types
<1>1. Types'
  BY <1>s, <1>a DEF Types
<1>2. OwnTickets'
  BY DEF Types, OwnTickets, Holding, End
<1>3. TurnsInOrder'
  <2>1. ASSUME NEW i \in Nat, NEW odd \in {0, 1},
               idx(i) = Slot(t), slot_turn[Slot(t)] <= turn(i) * 2 + odd,
               i = ticket[t] => odd # IF t \in Producers THEN 0 ELSE 1
        PROVE  Awaited(t) + 1 <= turn(i) * 2 + odd
    <3>1. turn(i) \in Nat
      BY TicketArithmetic
    <3>2. turn(i) = turn(ticket[t]) => i = ticket[t]
      BY <2>1, <1>0, TicketArithmetic DEF Slot
    <3> QED
      BY <2>1, <3>1, <3>2, <1>0, <1>s DEF Awaited
  <2>2. ASSUME NEW u \in Threads
        PROVE  /\ pc'[u] = "spin" => slot_turn'[Slot(u)'] <= Awaited(u)'
               /\ pc'[u] = "cas" => Awaited(u)' <= slot_turn'[Slot(u)']
               /\ pc'[u] \in Inside => slot_turn'[Slot(u)'] = Awaited(u)'
    <3> DEFINE odd == IF u \in Producers THEN 0 ELSE 1
    <3>1. Slot(u)' = Slot(u) /\ Awaited(u)' = Awaited(u) /\ Awaited(u) = turn(ticket[u]) * 2 + odd
      BY DEF Slot, Awaited
    <3>2. /\ ticket[u] \in Nat /\ turn(ticket[u]) \in Nat
          /\ Slot(u) \in Slots /\ slot_turn[Slot(u)] \in Nat
      BY TicketArithmetic, SMTT(30) DEF Types, Slot
    <3>3. CASE u = t
      BY <3>3 DEF Types, Inside
    <3>4. CASE u # t
      <4>1. pc'[u] = pc[u]
        BY <3>4 DEF Types
      <4>2. CASE Slot(u) # Slot(t)
        BY <4>1, <4>2, <3>1, <3>2, <1>v DEF TurnsInOrder
      <4>3. CASE Slot(u) = Slot(t)
        <5>1. pc[u] \notin Inside
          BY <3>4, <4>3, <1>0, Exclusive
        <5>2. ASSUME pc[u] = "spin" PROVE Awaited(t) + 1 <= Awaited(u)
          <6>1. slot_turn[Slot(t)] <= turn(ticket[u]) * 2 + odd
            BY <5>2, <4>3, <3>1 DEF TurnsInOrder
          <6>2. ticket[u] = ticket[t] => odd # IF t \in Producers THEN 0 ELSE 1
            BY <5>2, <3>4, <1>0 DEF OwnTickets, Holding, Inside, End
          <6> QED
            BY <6>1, <6>2, <4>3, <2>1, <3>1, <3>2 DEF Slot
        <5>3. ASSUME pc[u] = "cas" PROVE Awaited(u) <= Awaited(t) + 1
          BY <5>3, <4>3, <3>1, <3>2, <1>s, <1>a DEF TurnsInOrder
        <5> QED
          BY <5>1, <5>2, <5>3, <4>1, <4>3, <3>1, <1>v
      <4> QED
        BY <4>2, <4>3
    <3> QED
      BY <3>3, <3>4
  <2>3. ASSUME NEW i \in Nat
        PROVE  /\ next["head_"] <= i => slot_turn'[idx(i)] <= turn(i) * 2
               /\ next["tail_"] <= i => slot_turn'[idx(i)] <= turn(i) * 2 + 1
    <3>1. idx(i) \in Slots /\ turn(i) \in Nat
      BY TicketArithmetic
    <3>2. CASE idx(i) # Slot(t)
      BY <3>1, <3>2, <1>v DEF TurnsInOrder
    <3>3. CASE idx(i) = Slot(t)
      <4>1. ticket[t] < next[End(t)]
        BY <1>0 DEF OwnTickets, Holding, Inside
      <4>2. ASSUME next["head_"] <= i PROVE Awaited(t) + 1 <= turn(i) * 2 + 0
        <5>1. slot_turn[Slot(t)] <= turn(i) * 2 + 0
          BY <3>1, <3>3, <4>2 DEF TurnsInOrder
        <5>2. i = ticket[t] => 0 # IF t \in Producers THEN 0 ELSE 1
          BY <4>1, <4>2, <1>0 DEF End, Types
        <5> QED
          BY <5>1, <5>2, <3>3, <2>1
      <4>3. ASSUME next["tail_"] <= i PROVE Awaited(t) + 1 <= turn(i) * 2 + 1
        <5>1. slot_turn[Slot(t)] <= turn(i) * 2 + 1
          BY <3>1, <3>3, <4>3 DEF TurnsInOrder
        <5>2. i = ticket[t] => 1 # IF t \in Producers THEN 0 ELSE 1
          BY <4>1, <4>3, <1>0 DEF End, Types
        <5> QED
          BY <5>1, <5>2, <3>3, <2>1
      <4> QED
        BY <4>2, <4>3, <3>1, <3>3, <1>v
    <3> QED
      BY <3>2, <3>3
  <2> QED
    BY <2>2, <2>3 DEF TurnsInOrder
<1>4. Contents'
  <2>1. ASSUME NEW u \in Threads, pc'[u] = "accessed"
        PROVE  u # t /\ pc[u] = "accessed" /\ Slot(u)' = Slot(u)
    BY <2>1 DEF Types, Slot
  <2>2. \A s \in Slots : Accessed(s) => Accessed(s)' \/ s = Slot(t)
    BY Zenon DEF Types, Accessed, Slot
  <2>3. \A u \in Producers : pc'[u] = "accessed" => storage'[Slot(u)'] = ticket'[u]
    BY <2>1 DEF Contents, Threads
  <2>4. \A u \in Consumers : pc'[u] = "accessed" => storage'[Slot(u)'] = None
    BY <2>1 DEF Contents, Threads
  <2>5. \/ slot_turn'[Slot(t)] % 2 = 0 /\ storage[Slot(t)] = None
        \/ /\ storage[Slot(t)] \in Nat
           /\ idx(storage[Slot(t)]) = Slot(t)
           /\ slot_turn'[Slot(t)] = turn(storage[Slot(t)]) * 2 + 1
    <3>1. CASE t \in Producers
      <4>1. storage[Slot(t)] = ticket[t]
        BY <3>1 DEF Contents
      <4> QED
        BY <3>1, <4>1, <1>0, <1>v DEF Awaited, Slot
    <3>2. CASE t \notin Producers
      <4>1. storage[Slot(t)] = None
        BY <3>2, Ends DEF Contents
      <4> QED
        BY <3>2, <4>1, <1>0, <1>v DEF Awaited
    <3> QED
      BY <3>1, <3>2
  <2>6. ASSUME NEW s \in Slots, ~ Accessed(s)'
        PROVE  \/ slot_turn'[s] % 2 = 0 /\ storage'[s] = None
               \/ /\ storage'[s] \in Nat
                  /\ idx(storage'[s]) = s
                  /\ slot_turn'[s] = turn(storage'[s]) * 2 + 1
    BY <2>2, <2>5, <2>6, <1>v DEF Contents
  <2> QED
    BY <2>3, <2>4, <2>6 DEF Contents
<1>5. PopsWhatWasPushed'
  BY DEF PopsWhatWasPushed
<1> QED
  BY <1>1, <1>2, <1>3, <1>4, <1>5

(* The steps of try_emplace and try_pop before a ticket is taken. *)
LEMMA TrySteps ==
  ASSUME IndInv, NEW t \in Threads,
         \/ Try(t) \/ TryChecks(t) \/ TryReloads(t)
         \/ TryClaims(t) /\ ticket[t] # next[End(t)]
  PROVE  IndInv'
<1>1. ticket[t] \in Nat /\ next[End(t)] \in Nat
  BY Ends DEF IndInv, Types
<1>2. CASE Try(t)
  <2>1. PICK i \in ticket[t] .. next[End(t)] : Sees(t, i)
    BY <1>2 DEF Try
  <2>2. i \in Nat
    BY <1>1
  <2> QED
    BY <1>2, <2>1, <2>2, TryingKeepsInv DEF Try, MayCall
<1>3. CASE TryChecks(t)
  <2>1. PICK v \in LoadTurn(t) : Goto(t, IF v = Awaited(t) THEN "cas" ELSE "reload")
    BY <1>3 DEF TryChecks
  <2>2. Sees(t, ticket[t])
    BY <1>3 DEF TryChecks, Sees, IndInv, Types
  <2>3. Slot(t) \in Slots /\ slot_turn[Slot(t)] \in Nat
    BY <1>1, TicketArithmetic DEF Slot, IndInv, Types
  <2>4. v <= slot_turn[Slot(t)]
    BY <2>3 DEF LoadTurn
  <2>5. CASE v = Awaited(t)
    <3>1. turn(ticket[t]) * 2 + (IF t \in Producers THEN 0 ELSE 1) <= slot_turn[idx(ticket[t])]
      BY <2>4, <2>5 DEF Awaited, Slot
    <3>2. Goto(t, "cas")
      BY <2>1, <2>5
    <3> QED
      BY <1>1, <1>3, <2>2, <3>1, <3>2, TryingKeepsInv DEF TryChecks
  <2>6. CASE v # Awaited(t)
    <3>1. Goto(t, "reload")
      BY <2>1, <2>6
    <3> QED
      BY <1>1, <1>3, <2>2, <3>1, TryingKeepsInv DEF TryChecks
  <2> QED
    BY <2>5, <2>6
<1>4. CASE TryReloads(t)
  <2>1. PICK i \in ticket[t] .. next[End(t)] :
          Sees(t, i) /\ Goto(t, IF i = ticket[t] THEN "idle" ELSE "try")
    BY <1>4 DEF TryReloads
  <2>2. i \in Nat
    BY <1>1
  <2>3. CASE i = ticket[t]
    BY <1>4, <2>1, <2>2, <2>3, TryingKeepsInv DEF TryReloads
  <2>4. CASE i # ticket[t]
    BY <1>4, <2>1, <2>2, <2>4, TryingKeepsInv DEF TryReloads
  <2> QED
    BY <2>3, <2>4
<1>5. CASE TryClaims(t) /\ ticket[t] # next[End(t)]
  BY <1>1, <1>5, TryingKeepsInv DEF TryClaims
<1> QED
  BY <1>2, <1>3, <1>4, <1>5

(* Every step of a thread, and joining them, keeps the invariant.            *)
LEMMA NextInv == IndInv /\ [Next]_vars => IndInv'
<1> SUFFICES ASSUME IndInv, [Next]_vars PROVE IndInv'
  OBVIOUS
<1>1. ASSUME NEW t \in Threads, Blocking(t) \/ Trying(t) \/ HandsOver(t) PROVE IndInv'
  <2>0. ticket[t] \in Nat /\ next[End(t)] \in Nat
    BY Ends DEF IndInv, Types
  <2>1. CASE Claim(t)
    BY <2>1, TakingKeepsInv DEF Claim, MayCall, Holding
  <2>2. CASE SpinEnds(t)
    BY <2>2, SpinEndsKeepsInv
  <2>3. CASE TryClaims(t) /\ ticket[t] = next[End(t)]
    <3>1. Sees(t, next[End(t)])
      BY <2>3 DEF TryClaims, Sees, IndInv, Types
    <3>2. TakesTicket(t) /\ Goto(t, "access") /\ pc[t] = "cas"
      BY <2>3 DEF TryClaims
    <3> QED
      BY <2>3, <3>1, <3>2, TakingKeepsInv DEF TryClaims, Holding
  <2>4. CASE \/ Try(t) \/ TryChecks(t) \/ TryReloads(t)
             \/ TryClaims(t) /\ ticket[t] # next[End(t)]
    BY <2>4, TrySteps
  <2>5. CASE HandsOver(t)
    BY <2>5, HandsOverKeepsInv
  <2> QED
    BY <1>1, <2>1, <2>2, <2>3, <2>4, <2>5 DEF Blocking, Trying
<1>2. ASSUME NEW t \in Producers, Producer(t) PROVE IndInv'
  BY <1>1, <1>2, ConstructKeepsInv DEF Producer, Threads
<1>3. ASSUME NEW t \in Consumers, Consumer(t) PROVE IndInv'
  BY <1>1, <1>3, MoveKeepsInv DEF Consumer, Threads
<1>4. CASE UNCHANGED vars
  <2>1. Types' /\ OwnTickets' /\ PopsWhatWasPushed'
    BY <1>4 DEF vars, IndInv, Types, OwnTickets, PopsWhatWasPushed, End
  <2>2. TurnsInOrder'
    BY <1>4 DEF vars, IndInv, TurnsInOrder, Slot, Awaited
  <2>3. Contents'
    BY <1>4 DEF vars, IndInv, Contents, Accessed, Slot
  <2> QED
    BY <2>1, <2>2, <2>3 DEF IndInv
<1> QED
  BY <1>2, <1>3, <1>4 DEF Next

(* The inductive invariant of the ticket queue: tickets have one owner, and  *)
(* a slot's turn never passes a ticket that waits for it.                    *)
THEOREM TurnsKept == Spec => []IndInv
BY InitInv, NextInv, PTL DEF Spec

(* Slot::construct, move and destroy of two threads never meet in a slot,    *)
(* for any number of threads, slots and calls.                               *)
THEOREM SlotsExclusive == Spec => []ExclusiveSlot
<1>1. IndInv => ExclusiveSlot
  BY Exclusive DEF IndInv, ExclusiveSlot, InCall, Inside
<1> QED
  BY <1>1, TurnsKept, PTL

(* The pop with the i-th ticket of tail_ gets what the push with the i-th    *)
(* ticket of head_ has constructed.                                          *)
THEOREM PopsMatchPushes == Spec => []PopsWhatWasPushed
<1>1. IndInv => PopsWhatWasPushed
  BY DEF IndInv
<1> QED
  BY <1>1, TurnsKept, PTL

(* ~Slot destroys an element exactly where there is one.                     *)
THEOREM DestructorsMatch == Spec => []DestroysWhatIsLeft
<1>1. IndInv => DestroysWhatIsLeft
  <2> SUFFICES ASSUME IndInv, NEW s \in Slots, ~ Accessed(s)
               PROVE  Destroys(s) <=> storage[s] # None
    BY DEF DestroysWhatIsLeft, Accessed, InCall
  <2>1. CASE slot_turn[s] % 2 = 0 /\ storage[s] = None
    BY <2>1 DEF Destroys
  <2>2. CASE /\ storage[s] \in Nat
             /\ slot_turn[s] = turn(storage[s]) * 2 + 1
    <3>1. turn(storage[s]) \in Nat
      BY <2>2, TicketArithmetic
    <3> QED
      BY <2>2, <3>1 DEF Destroys, None
  <2> QED
    BY <2>1, <2>2 DEF IndInv, Contents
<1> QED
  BY <1>1, TurnsKept, PTL

----------------------------------------------------------------------------
(* The turn that ticket i of an end waits for, and who has the ticket. *)
Due(e, i) == turn(i) * 2 + IF e = "head_" THEN 0 ELSE 1
HeldBy(t, e, i) == pc[t] \in Holding /\ End(t) = e /\ ticket[t] = i

(* A ticket that was given out is not forgotten: a call has it until the     *)
(* slot's turn has passed it.                                                *)
Accounted ==
  \A e \in {"head_", "tail_"} : \A i \in Nat : i < next[e] =>
    \/ Due(e, i) < slot_turn[idx(i)]
    \/ \E t \in Threads : HeldBy(t, e, i)

(* A call spins on a slot only while a call whose turn it is at that slot    *)
(* has not handed it over, or, if that call is still to be made, while the   *)
(* queue is full, for a push, or empty, for a pop.                           *)
SpinsForReason ==
  \A t \in Threads : pc[t] = "spin" /\ slot_turn[Slot(t)] # Awaited(t) =>
    \/ \E u \in Threads : /\ pc[u] \in Holding
                          /\ Slot(u) = Slot(t) /\ slot_turn[Slot(u)] = Awaited(u)
    \/ t \in Producers /\ next["tail_"] <= ticket[t] - capacity_
    \/ t \in Consumers /\ next["head_"] <= ticket[t]

(* No tickets yet.                                                           *)
LEMMA InitAccounted == Init => Accounted
BY DEF Init, Accounted

(* Steps that leave the tickets with the threads that have them.             *)
LEMMA KeepingAccounted ==
  ASSUME Accounted, UNCHANGED <<next, slot_turn>>,
         \A u \in Threads : pc[u] \in Holding => pc'[u] \in Holding /\ ticket'[u] = ticket[u]
  PROVE  Accounted'
<1> SUFFICES ASSUME NEW e \in {"head_", "tail_"}, NEW i \in Nat, i < next[e]
             PROVE  \/ Due(e, i) < slot_turn[idx(i)]
                    \/ \E t \in Threads : HeldBy(t, e, i)'
  BY DEF Accounted
<1>1. \A t \in Threads : HeldBy(t, e, i) => HeldBy(t, e, i)'
  BY Zenon DEF HeldBy, End
<1> QED
  BY <1>1, Zenon DEF Accounted

(* A thread that takes the next ticket has it.                               *)
LEMMA TakingAccounted ==
  ASSUME Types, Accounted, NEW t \in Threads, TakesTicket(t), slot_turn' = slot_turn,
         pc[t] \notin Holding, pc'[t] \in Holding, ticket'[t] = next[End(t)],
         \A u \in Threads : u # t => pc'[u] = pc[u] /\ ticket'[u] = ticket[u]
  PROVE  Accounted'
<1> SUFFICES ASSUME NEW e \in {"head_", "tail_"}, NEW i \in Nat, i < next'[e]
             PROVE  \/ Due(e, i) < slot_turn[idx(i)]
                    \/ \E u \in Threads : HeldBy(u, e, i)'
  BY DEF Accounted
<1>1. \A u \in Threads : HeldBy(u, e, i) => HeldBy(u, e, i)'
  BY Zenon DEF HeldBy, End
<1>2. i < next[e] \/ (e = End(t) /\ i = next[e])
  BY Ends DEF Types, TakesTicket
<1>3. CASE i < next[e]
  BY <1>1, <1>3, Zenon DEF Accounted
<1>4. CASE e = End(t) /\ i = next[e]
  BY <1>4, Zenon DEF HeldBy, End
<1> QED
  BY <1>2, <1>3, <1>4

(* The store of the turn passes the ticket of the thread that stores it, and *)
(* sets no turn back.                                                        *)
LEMMA HandingAccounted ==
  ASSUME IndInv, Accounted, NEW t \in Threads, HandsOver(t)
  PROVE  Accounted'
<1> SUFFICES ASSUME NEW e \in {"head_", "tail_"}, NEW i \in Nat, i < next[e]
             PROVE  \/ Due(e, i) < slot_turn'[idx(i)]
                    \/ \E u \in Threads : HeldBy(u, e, i)'
  BY DEF Accounted, HandsOver
<1>1. /\ pc[t] \in Inside /\ ticket[t] \in Nat /\ ticket' = ticket
      /\ \A u \in Threads : u # t => pc'[u] = pc[u]
  BY DEF HandsOver, Goto, IndInv, Types, Inside
<1>2. /\ Slot(t) \in Slots /\ slot_turn[Slot(t)] = Awaited(t) /\ Awaited(t) \in Nat
      /\ idx(i) \in Slots /\ slot_turn[idx(i)] \in Nat /\ Due(e, i) \in Nat
  <2>1. Slot(t) \in Slots /\ slot_turn[Slot(t)] = Awaited(t)
    BY <1>1, AloneInside DEF IndInv, TurnsInOrder
  <2>2. turn(ticket[t]) \in Nat /\ turn(i) \in Nat /\ idx(i) \in Slots
    BY <1>1, TicketArithmetic
  <2> QED
    BY <2>1, <2>2, SMTT(30) DEF Awaited, Due, IndInv, Types
<1>3. slot_turn'[idx(i)] = IF idx(i) = Slot(t) THEN Awaited(t) + 1 ELSE slot_turn[idx(i)]
  BY <1>2 DEF HandsOver, IndInv, Types
<1>4. CASE Due(e, i) < slot_turn[idx(i)]
  BY <1>2, <1>3, <1>4
<1>5. CASE HeldBy(t, e, i)
  <2>1. idx(i) = Slot(t) /\ Due(e, i) = Awaited(t)
    BY <1>5, Ends DEF HeldBy, Slot, Due, Awaited
  <2> QED
    BY <1>2, <1>3, <2>1
<1>6. ASSUME NEW u \in Threads, u # t, HeldBy(u, e, i) PROVE HeldBy(u, e, i)'
  BY <1>1, <1>6, Zenon DEF HeldBy, End
<1> QED
  BY <1>4, <1>5, <1>6 DEF Accounted

(* All steps.                                                                *)
LEMMA NextAccounted == IndInv /\ Accounted /\ [Next]_vars => Accounted'
<1> SUFFICES ASSUME IndInv, Accounted, [Next]_vars PROVE Accounted'
  OBVIOUS
<1>t. Types
  BY DEF IndInv
<1>1. ASSUME NEW t \in Threads, Claim(t) \/ (TryClaims(t) /\ ticket[t] = next[End(t)])
      PROVE  Accounted'
  <2>1. /\ TakesTicket(t) /\ slot_turn' = slot_turn
        /\ pc[t] \notin Holding /\ pc'[t] \in Holding /\ ticket'[t] = next[End(t)]
        /\ \A u \in Threads : u # t => pc'[u] = pc[u] /\ ticket'[u] = ticket[u]
    BY <1>1, <1>t DEF Claim, TryClaims, MayCall, Goto, Sees, Types, Holding
  <2> QED
    BY <1>t, <2>1, TakingAccounted
<1>2. ASSUME NEW t \in Threads,
             \/ Try(t) \/ TryChecks(t) \/ TryReloads(t)
             \/ TryClaims(t) /\ ticket[t] # next[End(t)]
      PROVE  Accounted'
  <2>1. UNCHANGED <<next, slot_turn>> /\ pc[t] \notin Holding
    BY <1>2 DEF Try, MayCall, TryChecks, TryReloads, TryClaims, Holding
  <2>2. \A u \in Threads : u # t => pc'[u] = pc[u] /\ ticket'[u] = ticket[u]
    BY <1>2, <1>t DEF Try, TryChecks, TryReloads, TryClaims, Goto, Sees, Types
  <2> QED
    BY <2>1, <2>2, KeepingAccounted
<1>3. ASSUME NEW t \in Threads, SpinEnds(t) \/ Construct(t) \/ Move(t) PROVE Accounted'
  BY <1>3, <1>t, KeepingAccounted
  DEF SpinEnds, Construct, Move, Goto, Types, Holding
<1>4. ASSUME NEW t \in Threads, HandsOver(t) PROVE Accounted'
  BY <1>4, HandingAccounted
<1>5. CASE UNCHANGED vars
  BY <1>5, KeepingAccounted DEF vars
<1> QED
  BY <1>1, <1>2, <1>3, <1>4, <1>5, Zenon
  DEF Next, Producer, Consumer, Blocking, Trying, Threads

(* A later turn of a slot is a ticket that is later by capacity_ or more.    *)
LEMMA TurnOrder ==
  ASSUME NEW q \in Nat, NEW r \in Nat, q < r
  PROVE  capacity_ * q + capacity_ <= capacity_ * r
<1>1. r - q \in Nat /\ r - q >= 1 /\ r = q + (r - q)
  OBVIOUS
<1>2. PICK d \in Nat : d = (r - q) - 1
  BY <1>1
<1>3. r = q + 1 + d /\ capacity_ \in Nat /\ capacity_ * d \in Nat
  BY <1>1, <1>2, MPMCAssumption
<1>4. capacity_ * r = capacity_ * q + capacity_ + capacity_ * d
  BY <1>3
<1> QED
  BY <1>3, <1>4

(* The ticket of a slot and a turn.                                          *)
LEMMA TicketOf ==
  ASSUME NEW s \in Slots, NEW q \in Nat
  PROVE  /\ capacity_ * q + s \in Nat
         /\ idx(capacity_ * q + s) = s /\ turn(capacity_ * q + s) = q
<1>1. PICK i : i = capacity_ * q + s
  OBVIOUS
<1>2. /\ capacity_ \in Nat /\ s \in Nat /\ s < capacity_ /\ capacity_ * q \in Nat /\ i \in Nat
  BY <1>1, MPMCAssumption DEF Slots
<1>3. /\ turn(i) \in Nat /\ idx(i) \in Nat /\ idx(i) < capacity_
      /\ i = capacity_ * turn(i) + idx(i) /\ capacity_ * turn(i) \in Nat
  <2>1. /\ turn(i) \in Nat /\ idx(i) \in Nat /\ idx(i) < capacity_
        /\ i = capacity_ * turn(i) + idx(i)
    BY <1>2, TicketParts, Zenon
  <2>2. capacity_ * turn(i) \in Nat
    BY ONLY <1>2, <2>1
  <2> QED
    BY <2>1, <2>2
<1>4. ~ turn(i) < q
  BY <1>1, <1>2, <1>3, TurnOrder
<1>5. ~ q < turn(i)
  BY <1>1, <1>2, <1>3, TurnOrder
<1>6. turn(i) = q
  BY <1>3, <1>4, <1>5
<1>7. idx(i) = s
  <2>1. PICK a \in Nat : a = capacity_ * q
    BY <1>2
  <2>2. i = a + s /\ i = a + idx(i)
    BY <1>1, <1>3, <1>6, <2>1, Zenon
  <2>3. PICK r \in Nat : r = idx(i)
    BY <1>3
  <2>4. a + s = a + r
    BY <2>2, <2>3, Zenon
  <2>5. s \in Nat
    BY <1>2
  <2>6. s = r
    BY ONLY a \in Nat, r \in Nat, <2>4, <2>5
  <2> QED
    BY <2>3, <2>6, Zenon
<1> QED
  BY <1>1, <1>2, <1>6, <1>7

(* The ticket that a spinning call waits for is an earlier one of the slot:  *)
(* it was given out if it is of the same end.                                *)
LEMMA TicketWaitedFor ==
  ASSUME IndInv, NEW t \in Threads, pc[t] = "spin", slot_turn[Slot(t)] # Awaited(t)
  PROVE  \E e \in {"head_", "tail_"}, j \in Nat :
           /\ idx(j) = Slot(t) /\ Due(e, j) = slot_turn[Slot(t)]
           /\ \/ j < next[e]
              \/ t \in Producers /\ next["tail_"] <= ticket[t] - capacity_
              \/ t \in Consumers /\ next["head_"] <= ticket[t]
<1>1. /\ ticket[t] \in Nat /\ ticket[t] < next[End(t)]
      /\ slot_turn[Slot(t)] <= Awaited(t)
      /\ next["head_"] \in Nat /\ next["tail_"] \in Nat
  BY DEF IndInv, Types, OwnTickets, TurnsInOrder, Holding
<1> DEFINE v == slot_turn[Slot(t)]
           q == turn(ticket[t])
<1>2. q \in Nat /\ Slot(t) \in Slots /\ v \in Nat /\ ticket[t] = capacity_ * q + Slot(t)
  BY <1>1, TicketParts, TicketArithmetic DEF IndInv, Types, Slot
<1>3. v < Awaited(t) /\ Awaited(t) = q * 2 + IF t \in Producers THEN 0 ELSE 1
  BY <1>1, <1>2 DEF Awaited
<1>4. PICK h \in Nat, o \in {0, 1} : v = h * 2 + o
  <2>1. PICK w \in Nat : w = v
    BY <1>2
  <2>2. PICK h \in Nat : h = w \div 2
    OBVIOUS
  <2>3. w = h * 2 \/ w = h * 2 + 1
    BY <2>2
  <2>4. \E o \in {0, 1} : w = h * 2 + o
    BY <2>3
  <2> QED
    BY <2>1, <2>4, Zenon
<1> DEFINE j == capacity_ * h + Slot(t)
           e == IF o = 0 THEN "head_" ELSE "tail_"
<1>5. /\ j \in Nat /\ idx(j) = Slot(t) /\ turn(j) = h
      /\ capacity_ \in Nat /\ capacity_ * h \in Nat /\ capacity_ * q \in Nat
      /\ Slot(t) \in Nat
  <2>1. Slot(t) \in Nat /\ capacity_ \in Nat
    BY <1>2, MPMCAssumption DEF Slots
  <2>2. capacity_ * h \in Nat
    BY ONLY <2>1, h \in Nat
  <2>3. capacity_ * q \in Nat
    <3>1. PICK r \in Nat : r = q
      BY <1>2, Zenon
    <3>2. capacity_ * r \in Nat
      BY ONLY <2>1, r \in Nat
    <3> QED
      BY <3>1, <3>2, Zenon
  <2>4. j \in Nat /\ idx(j) = Slot(t) /\ turn(j) = h
    BY <1>2, TicketOf, Zenon
  <2> QED
    BY <2>1, <2>2, <2>3, <2>4, Zenon
<1>6. e \in {"head_", "tail_"} /\ Due(e, j) = v
  BY <1>4, <1>5 DEF Due
<1>7. h < q => j + capacity_ <= ticket[t]
  BY <1>2, <1>5, TurnOrder
<1>8. h = q => j = ticket[t]
  BY <1>2
<1> HIDE DEF v, q, j
<1>9. j < next[e] \/ (t \in Producers /\ next["tail_"] <= ticket[t] - capacity_)
                  \/ (t \in Consumers /\ next["head_"] <= ticket[t])
  <2>1. CASE t \in Producers
    <3>1. h < q /\ End(t) = "head_"
      BY <1>2, <1>3, <1>4, <2>1 DEF End
    <3>2. CASE o = 0
      BY <1>1, <1>5, <1>7, <3>1, <3>2
    <3>3. CASE o = 1
      BY <1>1, <1>5, <1>7, <2>1, <3>1, <3>3
    <3> QED
      BY <3>2, <3>3
  <2>2. CASE t \notin Producers
    <3>1. t \in Consumers /\ End(t) = "tail_"
      BY <2>2, Ends DEF End
    <3>2. CASE o = 0
      <4>1. h < q \/ h = q
        BY <1>2, <1>3, <1>4, <2>2, <3>2
      <4>2. j <= ticket[t]
        BY <1>1, <1>5, <1>7, <1>8, <4>1
      <4> QED
        BY <1>1, <1>5, <3>1, <3>2, <4>2
    <3>3. CASE o = 1
      <4>1. h < q
        BY <1>2, <1>3, <1>4, <2>2, <3>3
      <4> QED
        BY <1>1, <1>5, <1>7, <3>1, <3>3, <4>1
    <3> QED
      BY <3>2, <3>3
  <2> QED
    BY <2>1, <2>2
<1> HIDE DEF e
<1> QED
  BY <1>5, <1>6, <1>9 DEF v

(* Somebody has that ticket, with the turn the slot is at.                   *)
LEMMA Reasons == IndInv /\ Accounted => SpinsForReason
<1> SUFFICES ASSUME IndInv, Accounted, NEW t \in Threads,
                    pc[t] = "spin", slot_turn[Slot(t)] # Awaited(t)
             PROVE  \/ \E u \in Threads :
                         /\ pc[u] \in Holding
                         /\ Slot(u) = Slot(t) /\ slot_turn[Slot(u)] = Awaited(u)
                    \/ t \in Producers /\ next["tail_"] <= ticket[t] - capacity_
                    \/ t \in Consumers /\ next["head_"] <= ticket[t]
  BY Zenon DEF SpinsForReason
<1>1. PICK e \in {"head_", "tail_"}, j \in Nat :
           /\ idx(j) = Slot(t) /\ Due(e, j) = slot_turn[Slot(t)]
           /\ \/ j < next[e]
              \/ t \in Producers /\ next["tail_"] <= ticket[t] - capacity_
              \/ t \in Consumers /\ next["head_"] <= ticket[t]
  BY TicketWaitedFor, Zenon
<1>2. CASE j < next[e]
  <2>1. turn(j) \in Nat
    BY TicketArithmetic
  <2>2. ~ Due(e, j) < slot_turn[idx(j)]
    BY <1>1, <2>1 DEF Due
  <2>3. PICK u \in Threads : HeldBy(u, e, j)
    BY <1>2, <2>2, Zenon DEF Accounted
  <2>4. Slot(u) = idx(j) /\ Awaited(u) = Due(e, j)
    BY <2>3, Ends DEF HeldBy, Slot, Awaited, Due
  <2> QED
    BY <1>1, <2>3, <2>4, Zenon DEF HeldBy
<1> QED
  BY <1>1, <1>2, Zenon

(* For any number of threads, slots and calls, blocking or trying, in any    *)
(* order of their tickets and turns: no call spins but for a call whose turn *)
(* it is at the slot, or because the queue is full or empty.                 *)
THEOREM SpinsJustified == Spec => []SpinsForReason
BY InitInv, NextInv, InitAccounted, NextAccounted, Reasons, PTL DEF Spec

----------------------------------------------------------------------------
Before == {"spin", "access"}    \* a ticket taken, its element not yet accessed
Elements == {s \in Slots : storage[s] # None}
ToCome == InCall(Producers, Before)
ToGo == InCall(Consumers, Before)

Held == next["head_"] - next["tail_"]

(* The tickets of head_ over those of tail_: the elements, the pushes that   *)
(* have still to make theirs, less the pops that have still to take theirs.  *)
SizeInv ==
  Held = (Cardinality(Elements) + Cardinality(ToCome)) - Cardinality(ToGo)

Limit(t) == IF t \in Producers THEN Pushes ELSE Pops

(* The calls of the threads ts that have a ticket, the last one of a thread  *)
(* while it is under way included.                                           *)
Made(t) == calls[t] + IF pc[t] \in Holding THEN 1 ELSE 0
Taken(ts, n) == {x \in ts \X (1 .. n) : x[2] <= Made(x[1])}

(* head_ and tail_ count the tickets taken, one for each call. *)
CallsInv ==
  /\ calls \in [Threads -> Nat]
  /\ \A t \in Threads : pc[t] # "idle" => calls[t] < Limit(t)
  /\ next["head_"] = Cardinality(Taken(Producers, Pushes))
  /\ next["tail_"] = Cardinality(Taken(Consumers, Pops))

(* Elements are named by tickets that have been given out, and so is what a  *)
(* thread has seen of head_ or tail_.                                        *)
RangeInv ==
  /\ \A s \in Slots : storage[s] \in None .. next["head_"] - 1
  /\ \A i \in DOMAIN popped : popped[i] \in Unpopped .. next["head_"] - 1
  /\ \A t \in Threads : ticket[t] <= next[End(t)]

(* Steps that take no ticket and access no slot. *)
Quiet ==
  /\ UNCHANGED <<next, storage, calls, popped>>
  /\ \A u \in Threads : /\ pc'[u] \in Holding <=> pc[u] \in Holding
                        /\ pc'[u] \in Before <=> pc[u] \in Before
                        /\ pc'[u] # "idle" => calls[u] < Limit(u)
                        /\ ticket'[u] <= next[End(u)]

(* The fetch_add, and a compare and exchange that succeeds. *)
Takes(t) ==
  /\ UNCHANGED <<storage, calls, popped>>
  /\ TakesTicket(t) /\ Sees(t, next[End(t)])
  /\ calls[t] < Limit(t)
  /\ pc[t] \notin Holding /\ \E l \in Before : Goto(t, l)

(* What a step of a thread is, as far as tickets and elements go.            *)
LEMMA Kinds ==
  ASSUME IndInv, CallsInv, RangeInv, NEW t \in Threads, Blocking(t) \/ Trying(t)
  PROVE  Quiet \/ Takes(t)
<1>t. Types /\ next[End(t)] \in Nat /\ ticket[t] \in Nat
  BY Ends DEF IndInv, Types
<1>1. ASSUME NEW l \in {"idle", "try", "cas", "reload"}, NEW i \in 0 .. next[End(t)],
             pc[t] \in {"idle", "try", "cas", "reload"},
             Goto(t, l), Sees(t, i), calls[t] < Limit(t),
             UNCHANGED <<next, storage, calls, popped>>
      PROVE  Quiet
  <2>1. ASSUME NEW u \in Threads
        PROVE  /\ pc'[u] \in Holding <=> pc[u] \in Holding
               /\ pc'[u] \in Before <=> pc[u] \in Before
               /\ pc'[u] # "idle" => calls[u] < Limit(u)
               /\ ticket'[u] <= next[End(u)]
    <3>1. CASE u = t
      BY <1>1, <1>t, <3>1 DEF Goto, Sees, Types, Holding, Before
    <3>2. CASE u # t
      BY <1>1, <1>t, <3>2 DEF Goto, Sees, Types, CallsInv, RangeInv
    <3> QED
      BY <3>1, <3>2
  <2> QED
    BY <1>1, <2>1 DEF Quiet
<1>2. CASE Claim(t)
  BY <1>2 DEF Claim, MayCall, Takes, Holding, Before, Limit
<1>3. CASE SpinEnds(t)
  <2>1. /\ \A u \in Threads \ {t} : pc'[u] = pc[u]
        /\ pc[t] = "spin" /\ pc'[t] = "access"
    BY <1>3, <1>t DEF SpinEnds, Goto, Types
  <2> QED
    BY <1>3, <2>1, Zenon DEF SpinEnds, Quiet, Holding, Before, CallsInv, RangeInv
<1>4. CASE Try(t)
  <2>1. PICK i \in ticket[t] .. next[End(t)] : Sees(t, i)
    BY <1>4 DEF Try
  <2>2. Quiet
    <3>1. i \in 0 .. next[End(t)]
      BY <1>t, <2>1
    <3>2. /\ pc[t] = "idle" /\ Goto(t, "try") /\ calls[t] < Limit(t)
          /\ UNCHANGED <<next, storage, calls, popped>>
      BY <1>4 DEF Try, MayCall, Limit
    <3> QED
      BY <1>1, <2>1, <3>1, <3>2, Zenon
  <2> QED
    BY <2>2
<1>5. ASSUME pc[t] # "idle" PROVE calls[t] < Limit(t)
  BY <1>5 DEF CallsInv
<1>6. CASE TryChecks(t)
  <2>1. \E l \in {"cas", "reload"} : Goto(t, l)
    BY <1>6 DEF TryChecks
  <2>2. Sees(t, ticket[t]) /\ ticket[t] \in 0 .. next[End(t)]
    BY <1>6, <1>t DEF TryChecks, Sees, Types, RangeInv
  <2> QED
    BY <1>1, <1>5, <1>6, <2>1, <2>2 DEF TryChecks
<1>7. CASE TryClaims(t)
  <2>1. CASE ticket[t] = next[End(t)]
    <3>1. Sees(t, next[End(t)])
      BY <1>7, <1>t, <2>1 DEF TryClaims, Sees, Types
    <3> QED
      BY <1>5, <1>7, <2>1, <3>1 DEF TryClaims, Takes, Holding, Before
  <2>2. CASE ticket[t] # next[End(t)]
    <3>1. /\ pc[t] = "cas" /\ Goto(t, "try") /\ Sees(t, next[End(t)])
          /\ UNCHANGED <<next, storage, calls, popped>>
      BY <1>7, <2>2, Zenon DEF TryClaims
    <3>2. next[End(t)] \in 0 .. next[End(t)] /\ calls[t] < Limit(t)
      BY <1>5, <1>t, <3>1
    <3> QED
      BY <1>1, <3>1, <3>2, Zenon
  <2> QED
    BY <2>1, <2>2
<1>8. CASE TryReloads(t)
  <2>1. PICK i \in ticket[t] .. next[End(t)] :
          Sees(t, i) /\ Goto(t, IF i = ticket[t] THEN "idle" ELSE "try")
    BY <1>8 DEF TryReloads
  <2>2. i \in 0 .. next[End(t)] /\ \E l \in {"idle", "try"} : Goto(t, l)
    BY <1>t, <2>1
  <2> QED
    BY <1>1, <1>5, <1>8, <2>1, <2>2 DEF TryReloads
<1> QED
  BY <1>2, <1>3, <1>4, <1>6, <1>7, <1>8 DEF Blocking, Trying

(* The cases of a step.                                                      *)
LEMMA StepCases ==
  ASSUME IndInv, CallsInv, RangeInv, [Next]_vars
  PROVE  \/ Quiet
         \/ \E t \in Threads : Takes(t) \/ HandsOver(t)
         \/ \E t \in Producers : Construct(t)
         \/ \E t \in Consumers : Move(t)
<1>1. CASE UNCHANGED vars
  BY <1>1 DEF vars, Quiet, CallsInv, RangeInv
<1> QED
  BY <1>1, Kinds DEF Next, Producer, Consumer, Threads

(* Taking a ticket moves one end by one.                                     *)
LEMMA TakesEnd ==
  ASSUME Types, NEW t \in Threads, TakesTicket(t)
  PROVE  /\ t \in Producers => /\ next'["head_"] = next["head_"] + 1
                               /\ next'["tail_"] = next["tail_"]
         /\ t \notin Producers => /\ next'["head_"] = next["head_"]
                                  /\ next'["tail_"] = next["tail_"] + 1
BY DEF Types, TakesTicket, End

(* Every element carries a ticket that was given out.                        *)
LEMMA NextRange == IndInv /\ CallsInv /\ RangeInv /\ [Next]_vars => RangeInv'
<1> SUFFICES ASSUME IndInv, CallsInv, RangeInv, [Next]_vars PROVE RangeInv'
  OBVIOUS
<1>t. Types /\ next["head_"] \in Nat /\ next["tail_"] \in Nat /\ None \in Int
  BY DEF IndInv, Types, None
<1>1. CASE Quiet
  BY <1>1 DEF Quiet, RangeInv, End
<1>2. ASSUME NEW t \in Threads, Takes(t) PROVE RangeInv'
  <2>1. /\ next["head_"] <= next'["head_"] /\ next["tail_"] <= next'["tail_"]
        /\ next'["head_"] \in Nat /\ next'["tail_"] \in Nat
    BY <1>2, <1>t, TakesEnd DEF Takes
  <2>2. \A u \in Threads : /\ ticket'[u] \in {ticket[u], next[End(u)]} /\ ticket[u] \in Nat
                           /\ End(u) \in {"head_", "tail_"}
    BY <1>2, <1>t, Ends DEF Takes, Sees, Types
  <2>3. \A u \in Threads : ticket'[u] <= next'[End(u)]
    BY <1>t, <2>1, <2>2 DEF RangeInv
  <2>4. UNCHANGED <<storage, popped>>
    BY <1>2 DEF Takes
  <2> QED
    BY <1>t, <2>1, <2>3, <2>4 DEF RangeInv, End
<1>3. ASSUME NEW t \in Threads, HandsOver(t) PROVE RangeInv'
  BY <1>3 DEF HandsOver, RangeInv, End
<1>4. ASSUME NEW t \in Producers, Construct(t) PROVE RangeInv'
  <2>1. ticket[t] \in None .. next["head_"] - 1
    <3>1. t \in Threads /\ ticket[t] \in Nat /\ End(t) = "head_" /\ pc[t] \in Holding
      BY <1>4, <1>t DEF Threads, Types, End, Construct, Holding
    <3>2. ticket[t] < next["head_"]
      BY <3>1 DEF IndInv, OwnTickets
    <3> QED
      BY <1>t, <3>1, <3>2 DEF None
  <2>2. \A s \in Slots : storage'[s] \in {storage[s], ticket[t]}
    BY <1>4, <1>t DEF Construct, Types
  <2> QED
    BY <1>4, <2>1, <2>2 DEF Construct, RangeInv, End
<1>5. ASSUME NEW t \in Consumers, Move(t) PROVE RangeInv'
  <2>1. t \in Threads /\ pc[t] = "access"
    BY <1>5 DEF Move, Threads
  <2>2. Slot(t) \in Slots
    BY <2>1, AloneInside DEF Inside
  <2>3. storage[Slot(t)] \in None .. next["head_"] - 1
    BY <2>2 DEF RangeInv
  <2>4. \A s \in Slots : storage'[s] \in {storage[s], None}
    BY <1>5, <1>t DEF Move, Types
  <2>5. /\ DOMAIN popped' = DOMAIN popped
        /\ \A i \in DOMAIN popped : popped'[i] \in {popped[i], storage[Slot(t)]}
    BY <1>5, <1>t DEF Move, Types
  <2>6. None \in None .. next["head_"] - 1
    BY <1>t DEF None
  <2>7. storage[Slot(t)] \in Unpopped .. next["head_"] - 1
    BY <1>t, <2>3 DEF None, Unpopped
  <2> QED
    BY <1>5, <2>3, <2>4, <2>5, <2>6, <2>7 DEF Move, RangeInv, End
<1> QED
  BY <1>1, <1>2, <1>3, <1>4, <1>5, StepCases

(* A slot's turn is at most one round ahead of head_.                        *)
LEMMA TurnsBounded ==
  ASSUME IndInv, NEW s \in Slots
  PROVE  slot_turn[s] \in 0 .. 2 * (turn(next["head_"]) + 1)
<1> DEFINE h == next["head_"]
           q == turn(h) + 1
           i == capacity_ * q + s
<1>1. h \in Nat /\ capacity_ \in Nat /\ capacity_ > 0 /\ s \in Nat /\ s < capacity_
  BY MPMCAssumption DEF IndInv, Types, Slots
<1>2. turn(h) \in Nat /\ idx(h) \in Nat /\ idx(h) < capacity_ /\ h = capacity_ * turn(h) + idx(h)
  BY <1>1, TicketParts, Zenon
<1>3. q \in Nat /\ capacity_ * q = capacity_ * turn(h) + capacity_
  BY <1>1, <1>2
<1>4. i \in Nat /\ h <= i
  <2>1. capacity_ * turn(h) \in Nat
    BY <1>1, <1>2
  <2> HIDE DEF h, q
  <2> QED
    BY <1>1, <1>2, <1>3, <2>1
<1>5. idx(i) = s /\ turn(i) = q
  BY <1>3, TicketOf, Zenon
<1>6. slot_turn[s] <= turn(i) * 2
  BY <1>4, <1>5 DEF IndInv, TurnsInOrder
<1>7. slot_turn[s] \in Nat
  BY DEF IndInv, Types
<1> HIDE DEF i
<1> QED
  BY <1>2, <1>5, <1>6, <1>7

(* T has one element more than S. *)
OneMore(S, T) == \E x : x \notin S /\ T = S \cup {x}

(* What a step does to the counts. *)
SizeStays == UNCHANGED <<Held, Elements, ToCome, ToGo>>
SizeGrows == Held' = Held + 1 /\ OneMore(ToCome, ToCome') /\ UNCHANGED <<Elements, ToGo>>
SizeShrinks == Held' = Held - 1 /\ OneMore(ToGo, ToGo') /\ UNCHANGED <<Elements, ToCome>>
ElementComes == OneMore(Elements, Elements') /\ OneMore(ToCome', ToCome) /\ UNCHANGED <<Held, ToGo>>
ElementGoes == OneMore(Elements', Elements) /\ OneMore(ToGo', ToGo) /\ UNCHANGED <<Held, ToCome>>

(* size() moves with the tickets, the elements with the accesses.            *)
LEMMA SizeSteps ==
  ASSUME IndInv, CallsInv, RangeInv, [Next]_vars
  PROVE  SizeStays \/ SizeGrows \/ SizeShrinks \/ ElementComes \/ ElementGoes
<1>t. Types /\ next["head_"] \in Nat /\ next["tail_"] \in Nat
  BY DEF IndInv, Types
<1>1. ASSUME UNCHANGED <<next, storage>>,
             \A u \in Threads : pc'[u] \in Before <=> pc[u] \in Before
      PROVE  SizeStays
  BY <1>1 DEF SizeStays, ToCome, ToGo, Elements, InCall, Threads, Held
<1>2. CASE Quiet
  BY <1>1, <1>2, Zenon DEF Quiet
<1>3. ASSUME NEW t \in Threads, HandsOver(t) PROVE SizeStays
  BY <1>1, <1>3, <1>t DEF HandsOver, Goto, Types, Before
<1>4. ASSUME NEW t \in Threads, Takes(t) PROVE SizeGrows \/ SizeShrinks
  <2>1. /\ pc[t] \notin Before /\ pc'[t] \in Before
        /\ \A u \in Threads : u # t => pc'[u] = pc[u]
    BY <1>4, <1>t DEF Takes, Goto, Types, Before, Holding
  <2>2. Elements' = Elements
    BY <1>4 DEF Takes, Elements
  <2>3. CASE t \in Producers
    <3>1. t \notin ToCome /\ ToCome' = ToCome \cup {t} /\ ToGo' = ToGo
      BY <2>1, <2>3, MPMCAssumption DEF ToCome, ToGo, InCall, Threads
    <3>2. Held' = Held + 1
      <4>1. /\ next'["head_"] = next["head_"] + 1
            /\ next'["tail_"] = next["tail_"]
        BY <1>4, <1>t, <2>3, TakesEnd, Zenon DEF Takes
      <4> QED
        BY ONLY <1>t, <4>1 DEF Held
    <3> QED
      BY <2>2, <3>1, <3>2, Zenon DEF SizeGrows, OneMore
  <2>4. CASE t \notin Producers
    <3>1. t \notin ToGo /\ ToGo' = ToGo \cup {t} /\ ToCome' = ToCome
      BY <2>1, <2>4 DEF ToCome, ToGo, InCall, Threads
    <3>2. Held' = Held - 1
      <4>1. /\ next'["head_"] = next["head_"]
            /\ next'["tail_"] = next["tail_"] + 1
        BY <1>4, <1>t, <2>4, TakesEnd, Zenon DEF Takes
      <4> QED
        BY ONLY <1>t, <4>1 DEF Held
    <3> QED
      BY <2>2, <3>1, <3>2, Zenon DEF SizeShrinks, OneMore
  <2> QED
    BY <2>3, <2>4
<1>5. ASSUME NEW t \in Threads, pc[t] = "access", Goto(t, "accessed"), UNCHANGED next
      PROVE  /\ Held' = Held /\ Slot(t) \in Slots /\ pc[t] \in Before /\ pc'[t] \notin Before
             /\ \A u \in Threads : u # t => pc'[u] = pc[u]
  BY <1>5, <1>t, AloneInside DEF Held, Goto, Types, Before, Inside
<1>6. ASSUME NEW t \in Producers, Construct(t) PROVE ElementComes
  <2>1. /\ t \in Threads /\ Held' = Held /\ Slot(t) \in Slots
        /\ pc[t] \in Before /\ pc'[t] \notin Before
        /\ \A u \in Threads : u # t => pc'[u] = pc[u]
    BY <1>5, <1>6 DEF Construct, Threads
  <2>2. t \notin ToCome' /\ ToCome = ToCome' \cup {t} /\ ToGo' = ToGo
    BY <2>1, MPMCAssumption DEF ToCome, ToGo, InCall, Threads
  <2>3. storage[Slot(t)] = None /\ ticket[t] # None
    BY <1>6, <1>t, <2>1, FindsInSlot DEF Construct, Types, None
  <2>4. Slot(t) \notin Elements /\ Elements' = Elements \cup {Slot(t)}
    BY <1>6, <1>t, <2>1, <2>3 DEF Construct, Types, Elements
  <2> QED
    BY <2>1, <2>2, <2>4, Zenon DEF ElementComes, OneMore
<1>7. ASSUME NEW t \in Consumers, Move(t) PROVE ElementGoes
  <2>1. /\ t \in Threads /\ t \notin Producers /\ Held' = Held /\ Slot(t) \in Slots
        /\ pc[t] \in Before /\ pc'[t] \notin Before
        /\ \A u \in Threads : u # t => pc'[u] = pc[u]
    BY <1>5, <1>7, MPMCAssumption DEF Move, Threads
  <2>2. t \notin ToGo' /\ ToGo = ToGo' \cup {t} /\ ToCome' = ToCome
    BY <2>1 DEF ToCome, ToGo, InCall, Threads
  <2>3. storage[Slot(t)] # None
    BY <1>7, <1>t, <2>1, FindsInSlot DEF Move, Types, None
  <2>4. Slot(t) \notin Elements' /\ Elements = Elements' \cup {Slot(t)}
    BY <1>7, <1>t, <2>1, <2>3 DEF Move, Types, Elements
  <2> QED
    BY <2>1, <2>2, <2>4, Zenon DEF ElementGoes, OneMore
<1> QED
  BY <1>2, <1>3, <1>4, <1>6, <1>7, StepCases, Zenon

----------------------------------------------------------------------------
INSTANCE FiniteSetTheorems

(* The calls that have a ticket are finitely many, at most n for each thread. *)
LEMMA TakenBounded ==
  ASSUME NEW ts, IsFiniteSet(ts), NEW n \in Nat
  PROVE  /\ IsFiniteSet(Taken(ts, n)) /\ Cardinality(Taken(ts, n)) \in Nat
         /\ Cardinality(Taken(ts, n)) <= n * Cardinality(ts)
<1>1. IsFiniteSet(1 .. n) /\ Cardinality(1 .. n) = n
  BY FS_Interval
<1>2. /\ IsFiniteSet(ts \X (1 .. n)) /\ Cardinality(ts) \in Nat
      /\ Cardinality(ts \X (1 .. n)) = Cardinality(ts) * n
  BY <1>1, FS_Product, FS_CardinalityType
<1>3. Taken(ts, n) \in SUBSET (ts \X (1 .. n))
  BY DEF Taken
<1>4. IsFiniteSet(Taken(ts, n)) /\ Cardinality(Taken(ts, n)) <= Cardinality(ts) * n
  BY <1>2, <1>3, FS_Subset
<1>5. Cardinality(ts) * n = n * Cardinality(ts)
  BY <1>2
<1> QED
  BY <1>4, <1>5, FS_CardinalityType

(* A thread that takes a ticket adds one call to them.                       *)
LEMMA TakenGrows ==
  ASSUME NEW ts, IsFiniteSet(ts), NEW n \in Nat, NEW t \in ts,
         calls[t] \in Nat, calls[t] < n, Made(t) = calls[t], Made(t)' = calls[t] + 1,
         \A u \in ts : u # t => Made(u)' = Made(u)
  PROVE  Cardinality(Taken(ts, n)') = Cardinality(Taken(ts, n)) + 1
<1> DEFINE x == <<t, calls[t] + 1>>
<1>1. x \in ts \X (1 .. n) /\ x \notin Taken(ts, n)
  BY DEF Taken
<1>2. ASSUME NEW y \in ts \X (1 .. n)
      PROVE  y[2] <= Made(y[1])' <=> y[2] <= Made(y[1]) \/ y = x
  <2>1. y[1] \in ts /\ y[2] \in 1 .. n /\ y = <<y[1], y[2]>>
    OBVIOUS
  <2>2. CASE y[1] = t
    BY <2>1, <2>2
  <2>3. CASE y[1] # t
    BY <2>1, <2>3
  <2> QED
    BY <2>2, <2>3
<1>3. Taken(ts, n)' = Taken(ts, n) \cup {x}
  <2> HIDE DEF x
  <2> QED
    BY <1>1, <1>2, Zenon DEF Taken
<1> QED
  BY <1>1, <1>3, TakenBounded, FS_AddElement, Zenon

(* Where no call takes a ticket, they stay.                                  *)
LEMMA TakenSame ==
  ASSUME NEW ts, NEW n \in Nat, \A u \in ts : Made(u)' = Made(u)
  PROVE  Taken(ts, n)' = Taken(ts, n)
BY DEF Taken

(* No calls yet.                                                             *)
LEMMA InitCalls == Init => CallsInv /\ RangeInv
<1> SUFFICES ASSUME Init PROVE CallsInv /\ RangeInv
  OBVIOUS
<1>1. \A t \in Threads : Made(t) = 0
  BY DEF Init, Made, Holding
<1>2. Taken(Producers, Pushes) = {} /\ Taken(Consumers, Pops) = {}
  BY <1>1, CallsAssumption DEF Taken, Threads
<1>3. CallsInv
  BY <1>2, FS_EmptySet DEF Init, CallsInv
<1>4. RangeInv
  BY DEF Init, RangeInv, None, Unpopped, End
<1> QED
  BY <1>3, <1>4

(* A ticket is taken by a call that has none, and a call that returns has    *)
(* had one.                                                                  *)
LEMMA NextCalls == IndInv /\ CallsInv /\ RangeInv /\ [Next]_vars => CallsInv'
<1> SUFFICES ASSUME IndInv, CallsInv, RangeInv, [Next]_vars PROVE CallsInv'
  OBVIOUS
<1>t. Types /\ calls \in [Threads -> Nat] /\ Pushes \in Nat /\ Pops \in Nat
  BY CallsAssumption DEF IndInv, CallsInv
<1>s. ASSUME calls' \in [Threads -> Nat], UNCHANGED next,
             \A u \in Threads : /\ Made(u)' = Made(u)
                                /\ pc'[u] # "idle" => calls'[u] < Limit(u)
      PROVE  CallsInv'
  <2>1. Taken(Producers, Pushes)' = Taken(Producers, Pushes)
    BY <1>s, <1>t, TakenSame DEF Threads
  <2>2. Taken(Consumers, Pops)' = Taken(Consumers, Pops)
    BY <1>s, <1>t, TakenSame DEF Threads
  <2> QED
    BY <1>s, <2>1, <2>2 DEF CallsInv, Limit
<1>1. CASE Quiet
  BY <1>1, <1>s, <1>t DEF Quiet, Made
<1>2. ASSUME NEW t \in Threads, Takes(t) PROVE CallsInv'
  <2>1. /\ UNCHANGED calls /\ calls[t] < Limit(t) /\ calls[t] \in Nat
        /\ pc[t] \notin Holding /\ pc'[t] \in Before
        /\ \A u \in Threads : u # t => pc'[u] = pc[u]
    BY <1>2, <1>t DEF Takes, Goto, Types
  <2>2. /\ Made(t) = calls[t] /\ Made(t)' = calls[t] + 1
        /\ \A u \in Threads : u # t => Made(u)' = Made(u)
    BY <2>1 DEF Made, Before, Holding
  <2>3. \A u \in Threads : pc'[u] # "idle" => calls'[u] < Limit(u)'
    BY <2>1 DEF CallsInv, Limit
  <2>4. CASE t \in Producers
    <3>1. Cardinality(Taken(Producers, Pushes)') = Cardinality(Taken(Producers, Pushes)) + 1
      BY <2>1, <2>2, <2>4, <1>t, TakenGrows, CallsAssumption DEF Limit, Threads
    <3>2. Taken(Consumers, Pops)' = Taken(Consumers, Pops)
      BY <2>2, <2>4, <1>t, TakenSame, MPMCAssumption DEF Threads
    <3>3. next'["head_"] = next["head_"] + 1 /\ next'["tail_"] = next["tail_"]
      BY <1>2, <1>t, <2>4, TakesEnd DEF Takes
    <3> QED
      BY <1>t, <2>1, <2>3, <3>1, <3>2, <3>3 DEF CallsInv
  <2>5. CASE t \notin Producers
    <3>1. Cardinality(Taken(Consumers, Pops)') = Cardinality(Taken(Consumers, Pops)) + 1
      BY <2>1, <2>2, <2>5, <1>t, TakenGrows, CallsAssumption DEF Limit, Threads
    <3>2. Taken(Producers, Pushes)' = Taken(Producers, Pushes)
      BY <2>2, <2>5, <1>t, TakenSame DEF Threads
    <3>3. next'["head_"] = next["head_"] /\ next'["tail_"] = next["tail_"] + 1
      BY <1>2, <1>t, <2>5, TakesEnd DEF Takes
    <3> QED
      BY <1>t, <2>1, <2>3, <3>1, <3>2, <3>3 DEF CallsInv
  <2> QED
    BY <2>4, <2>5
<1>3. ASSUME NEW t \in Threads, HandsOver(t) PROVE CallsInv'
  <2>1. /\ calls' = [calls EXCEPT ![t] = calls[t] + 1] /\ UNCHANGED next
        /\ pc[t] = "accessed" /\ pc'[t] = "idle"
        /\ \A u \in Threads : u # t => pc'[u] = pc[u]
    BY <1>3, <1>t DEF HandsOver, Goto, Types
  <2>2. \A u \in Threads : calls'[u] = IF u = t THEN calls[t] + 1 ELSE calls[u]
    BY <1>t, <2>1
  <2>3. \A u \in Threads : Made(u)' = Made(u)
    BY <1>t, <2>1, <2>2 DEF Made, Holding
  <2>4. \A u \in Threads : pc'[u] # "idle" => calls'[u] < Limit(u)
    BY <2>1, <2>2 DEF CallsInv
  <2> QED
    BY <1>s, <1>t, <2>1, <2>3, <2>4
<1>4. ASSUME NEW t \in Threads, Construct(t) \/ Move(t) PROVE CallsInv'
  <2>1. /\ UNCHANGED <<calls, next>> /\ pc[t] = "access" /\ pc'[t] = "accessed"
        /\ \A u \in Threads : u # t => pc'[u] = pc[u]
    BY <1>4, <1>t DEF Construct, Move, Goto, Types
  <2> QED
    BY <1>s, <1>t, <2>1 DEF Made, Holding, CallsInv
<1> QED
  BY <1>1, <1>2, <1>3, <1>4, StepCases DEF Threads

(* For any number of threads, slots and calls: tickets, turns and elements   *)
(* stay within the calls that are made; no turn runs ahead of the tickets.   *)
THEOREM TypesKept == Spec => []TypeOK
<1>1. IndInv /\ CallsInv /\ RangeInv => TypeOK
  <2> SUFFICES ASSUME IndInv, CallsInv, RangeInv PROVE TypeOK
    OBVIOUS
  <2>1. Types /\ next["head_"] \in Nat /\ next["tail_"] \in Nat
    BY DEF IndInv, Types
  <2>2. next["head_"] <= TotalPushes /\ next["tail_"] <= TotalPops
    BY TakenBounded, CallsAssumption DEF CallsInv, TotalPushes, TotalPops
  <2>3. TotalPushes \in Nat /\ TotalPops \in Nat
    BY FS_CardinalityType, CallsAssumption DEF TotalPushes, TotalPops
  <2>4. \A v : v \in None .. next["head_"] - 1 => v \in None .. TotalPushes - 1
    BY <2>1, <2>2, <2>3 DEF None
  <2>5. storage \in [Slots -> None .. TotalPushes - 1]
    BY <2>1, <2>4 DEF Types, RangeInv
  <2>6. popped \in [0 .. TotalPops - 1 -> Unpopped .. TotalPushes - 1]
    <3>1. \A v : v \in Unpopped .. next["head_"] - 1 => v \in Unpopped .. TotalPushes - 1
      BY <2>1, <2>2, <2>3 DEF Unpopped
    <3> QED
      BY <2>1, <3>1 DEF Types, RangeInv
  <2>7. \A t \in Threads : ticket[t] \in 0 .. next[End(t)]
    BY <2>1, Ends DEF Types, RangeInv
  <2>8. next["head_"] \in 0 .. TotalPushes /\ next["tail_"] \in 0 .. TotalPops
    BY <2>1, <2>2, <2>3
  <2>9. pc \in [Threads -> {"idle", "spin", "try", "cas", "reload", "access", "accessed"}]
    BY <2>1 DEF Types
  <2> QED
    BY <2>5, <2>6, <2>7, <2>8, <2>9, TurnsBounded DEF TypeOK
<1> QED
  BY InitCalls, NextCalls, NextRange, InitInv, NextInv, <1>1, PTL DEF Spec

----------------------------------------------------------------------------
(* A thread waits for nobody: it is not spinning for a turn to come, and has *)
(* not made all its calls.                                                   *)
CanGoOn(t) ==
  \/ MayCall(t)
  \/ pc[t] \notin {"idle", "spin"}
  \/ pc[t] = "spin" /\ slot_turn[Slot(t)] = Awaited(t)

(* As long as a call is under way, not all threads wait.                     *)
NeverAllWait ==
  (\E t \in Threads : pc[t] # "idle") => \E t \in Threads : CanGoOn(t)

(* Threads that have made n calls each have taken n tickets each.            *)
LEMMA TakenAll ==
  ASSUME NEW ts, IsFiniteSet(ts), NEW n \in Nat,
         \A t \in ts : calls[t] \in Nat /\ n <= calls[t] /\ pc[t] = "idle"
  PROVE  Cardinality(Taken(ts, n)) = n * Cardinality(ts)
<1>1. \A t \in ts : Made(t) \in Nat /\ n <= Made(t)
  BY DEF Made, Holding
<1>2. Taken(ts, n) = ts \X (1 .. n)
  <2>1. ASSUME NEW x \in ts \X (1 .. n) PROVE x[2] <= Made(x[1])
    <3>1. x[1] \in ts /\ x[2] \in 1 .. n
      OBVIOUS
    <3> QED
      BY <1>1, <3>1
  <2> QED
    BY <2>1, Zenon DEF Taken
<1>3. IsFiniteSet(1 .. n) /\ Cardinality(1 .. n) = n
  BY FS_Interval
<1>4. Cardinality(ts \X (1 .. n)) = Cardinality(ts) * n /\ Cardinality(ts) \in Nat
  BY <1>3, FS_Product, FS_CardinalityType, Zenon
<1> QED
  BY <1>2, <1>4

(* If all threads waited, those at one end would be done, the queue would be *)
(* full or empty, and there would be more calls at the other end than that.  *)
LEMMA SomebodyGoesOn == IndInv /\ CallsInv /\ SpinsForReason => NeverAllWait
<1> SUFFICES ASSUME IndInv, CallsInv, SpinsForReason,
                    \A u \in Threads : ~ CanGoOn(u),
                    NEW t \in Threads, pc[t] # "idle"
             PROVE  FALSE
  BY Zenon DEF NeverAllWait
<1> DEFINE head == next["head_"]
           tail == next["tail_"]
<1>1. /\ head \in Nat /\ tail \in Nat /\ capacity_ \in Nat
      /\ head <= TotalPushes /\ tail <= TotalPops
      /\ TotalPushes \in Nat /\ TotalPops \in Nat
      /\ TotalPops <= TotalPushes /\ TotalPushes <= TotalPops + capacity_
  <2>1. head \in Nat /\ tail \in Nat /\ capacity_ \in Nat
    BY MPMCAssumption DEF IndInv, Types
  <2>2. head <= TotalPushes /\ tail <= TotalPops
    BY TakenBounded, CallsAssumption DEF CallsInv, TotalPushes, TotalPops
  <2>3. TotalPushes \in Nat /\ TotalPops \in Nat
    BY FS_CardinalityType, CallsAssumption DEF TotalPushes, TotalPops
  <2> QED
    BY <2>1, <2>2, <2>3, CallsAssumption, Zenon
<1>2. ASSUME NEW u \in Threads
      PROVE  /\ pc[u] = "spin" \/ (pc[u] = "idle" /\ calls[u] \in Nat /\ Limit(u) <= calls[u])
             /\ pc[u] = "spin" => /\ ticket[u] \in Nat /\ ticket[u] < next[End(u)]
                                  /\ slot_turn[Slot(u)] # Awaited(u)
  BY CallsAssumption DEF CanGoOn, MayCall, Limit, CallsInv, IndInv, Types, OwnTickets, Holding
<1>3. ASSUME NEW u \in Threads, pc[u] = "spin"
      PROVE  \/ u \in Producers /\ tail <= ticket[u] - capacity_
             \/ u \in Consumers /\ head <= ticket[u]
  <2>1. ~ \E w \in Threads : pc[w] \in Holding /\ Slot(w) = Slot(u) /\ slot_turn[Slot(w)] = Awaited(w)
    BY Zenon DEF CanGoOn, Holding
  <2> QED
    BY <1>2, <1>3, <2>1, Zenon DEF SpinsForReason
<1>4. ASSUME NEW u \in Producers, pc[u] = "spin" PROVE tail + capacity_ < head
  <2>1. u \in Threads /\ u \notin Consumers /\ End(u) = "head_"
    BY Ends DEF Threads, End
  <2>2. tail <= ticket[u] - capacity_ /\ ticket[u] \in Nat /\ ticket[u] < head
    BY <1>2, <1>3, <1>4, <2>1
  <2> HIDE DEF head, tail
  <2> QED
    BY <1>1, <2>2
<1>5. ASSUME NEW u \in Consumers, pc[u] = "spin" PROVE head < tail
  <2>1. u \in Threads /\ u \notin Producers /\ End(u) = "tail_"
    BY Ends DEF Threads, End
  <2>2. head <= ticket[u] /\ ticket[u] \in Nat /\ ticket[u] < tail
    BY <1>2, <1>3, <1>5, <2>1
  <2> HIDE DEF head, tail
  <2> QED
    BY <1>1, <2>2
<1>6. pc[t] = "spin"
  BY <1>2
<1>7. CASE t \in Producers
  <2>1. tail + capacity_ < head
    BY <1>4, <1>6, <1>7
  <2>2. \A u \in Consumers : pc[u] # "spin"
    BY <1>1, <1>5, <2>1
  <2>3. \A u \in Consumers : calls[u] \in Nat /\ Pops <= calls[u] /\ pc[u] = "idle"
    BY <1>2, <2>2, Ends DEF Threads, Limit
  <2>4. tail = TotalPops
    BY <2>3, TakenAll, CallsAssumption DEF CallsInv, TotalPops
  <2> QED
    BY <1>1, <2>1, <2>4
<1>8. CASE t \notin Producers
  <2>1. t \in Consumers
    BY <1>8 DEF Threads
  <2>2. head < tail
    BY <1>5, <1>6, <2>1
  <2>3. \A u \in Producers : pc[u] # "spin"
    BY <1>1, <1>4, <2>2
  <2>4. \A u \in Producers : calls[u] \in Nat /\ Pushes <= calls[u] /\ pc[u] = "idle"
    BY <1>2, <2>3 DEF Threads, Limit
  <2>5. head = TotalPushes
    BY <2>4, TakenAll, CallsAssumption DEF CallsInv, TotalPushes
  <2> QED
    BY <1>1, <2>2, <2>5
<1> QED
  BY <1>7, <1>8

(* For any number of threads, slots and calls, with no more pops than pushes *)
(* and no more pushes than pops and slots: the threads never all wait for    *)
(* each other; while a call is under way, some thread can take its next step. *)
THEOREM NoDeadlock == Spec => []NeverAllWait
BY InitCalls, NextCalls, NextRange, InitInv, NextInv, InitAccounted, NextAccounted, Reasons,
   SomebodyGoesOn, PTL DEF Spec

----------------------------------------------------------------------------
(* The sets that size() is compared with are finite.                         *)
LEMMA FiniteCounts ==
  /\ IsFiniteSet(Elements) /\ Cardinality(Elements) \in Nat
  /\ IsFiniteSet(ToCome) /\ Cardinality(ToCome) \in Nat
  /\ IsFiniteSet(ToGo) /\ Cardinality(ToGo) \in Nat
<1>1. IsFiniteSet(Slots)
  BY FS_Interval, MPMCAssumption DEF Slots
<1>2. /\ Elements \in SUBSET Slots
      /\ ToCome \in SUBSET Producers
      /\ ToGo \in SUBSET Consumers
  BY DEF Elements, ToCome, ToGo, InCall
<1>3. IsFiniteSet(Elements)
  BY <1>1, <1>2, FS_Subset
<1>4. IsFiniteSet(ToCome) /\ IsFiniteSet(ToGo)
  BY <1>2, FS_Subset, CallsAssumption
<1> QED
  BY <1>3, <1>4, FS_CardinalityType

(* An empty queue.                                                           *)
LEMMA InitSize == Init => SizeInv
<1> SUFFICES ASSUME Init PROVE SizeInv
  OBVIOUS
<1>1. Elements = {} /\ ToCome = {} /\ ToGo = {}
  BY DEF Init, Elements, ToCome, ToGo, InCall, Before, Threads
<1>2. Held = 0 /\ Cardinality({}) = 0
  BY FS_EmptySet DEF Init, Held
<1> QED
  BY <1>1, <1>2 DEF SizeInv

(* One element more is one more.                                             *)
LEMMA OneMoreCounts ==
  ASSUME NEW S, NEW T, OneMore(S, T), IsFiniteSet(S) \/ IsFiniteSet(T)
  PROVE  /\ Cardinality(S) \in Nat /\ Cardinality(T) \in Nat
         /\ Cardinality(T) = Cardinality(S) + 1
<1>1. PICK x : x \notin S /\ T = S \cup {x}
  BY DEF OneMore
<1>2. IsFiniteSet(S)
  <2>1. S \in SUBSET T
    BY <1>1
  <2> QED
    BY <2>1, FS_Subset, Zenon
<1>3. Cardinality(S) \in Nat
  BY <1>2, FS_CardinalityType, Zenon
<1>4. Cardinality(T) = Cardinality(S) + 1
  <2>1. Cardinality(S \cup {x}) = IF x \in S THEN Cardinality(S) ELSE Cardinality(S) + 1
    BY <1>2, FS_AddElement, Zenon
  <2> QED
    BY <1>1, <2>1, Zenon
<1> QED
  BY <1>3, <1>4

(* A ticket counts at once; the element that it stands for comes, or goes,   *)
(* at the access.                                                            *)
LEMMA NextSize == IndInv /\ CallsInv /\ RangeInv /\ SizeInv /\ [Next]_vars => SizeInv'
<1> SUFFICES ASSUME IndInv, CallsInv, RangeInv, SizeInv, [Next]_vars PROVE SizeInv'
  OBVIOUS
<1>f. /\ IsFiniteSet(Elements) /\ Cardinality(Elements) \in Nat
      /\ IsFiniteSet(ToCome) /\ Cardinality(ToCome) \in Nat
      /\ IsFiniteSet(ToGo) /\ Cardinality(ToGo) \in Nat
  BY FiniteCounts, Zenon
<1>s. Held = (Cardinality(Elements) + Cardinality(ToCome)) - Cardinality(ToGo)
  BY Zenon DEF SizeInv
<1>g. ASSUME Held' = (Cardinality(Elements') + Cardinality(ToCome')) - Cardinality(ToGo')
      PROVE  SizeInv'
  BY <1>g, Zenon DEF SizeInv
<1>1. CASE SizeStays
  BY <1>1, <1>s, <1>g, Zenon DEF SizeStays
<1>2. CASE SizeGrows
  <2>1. Cardinality(ToCome') = Cardinality(ToCome) + 1
    BY <1>2, <1>f, OneMoreCounts DEF SizeGrows
  <2> QED
    BY <1>2, <1>f, <1>s, <1>g, <2>1 DEF SizeGrows
<1>3. CASE SizeShrinks
  <2>1. Cardinality(ToGo') = Cardinality(ToGo) + 1
    BY <1>3, <1>f, OneMoreCounts DEF SizeShrinks
  <2> QED
    BY <1>3, <1>f, <1>s, <1>g, <2>1 DEF SizeShrinks
<1>4. CASE ElementComes
  <2>1. /\ Cardinality(Elements') = Cardinality(Elements) + 1
        /\ Cardinality(ToCome) = Cardinality(ToCome') + 1 /\ Cardinality(ToCome') \in Nat
    BY <1>4, <1>f, OneMoreCounts DEF ElementComes
  <2> QED
    BY <1>4, <1>f, <1>s, <1>g, <2>1 DEF ElementComes
<1>5. CASE ElementGoes
  <2>1. /\ Cardinality(Elements) = Cardinality(Elements') + 1 /\ Cardinality(Elements') \in Nat
        /\ Cardinality(ToGo) = Cardinality(ToGo') + 1 /\ Cardinality(ToGo') \in Nat
    BY <1>5, <1>f, OneMoreCounts DEF ElementGoes
  <2> QED
    BY <1>5, <1>f, <1>s, <1>g, <2>1 DEF ElementGoes
<1> QED
  BY <1>1, <1>2, <1>3, <1>4, <1>5, SizeSteps, Zenon

(* For any number of threads, slots and calls: once all threads have been    *)
(* joined, size() is the number of elements that are left.                   *)
THEOREM SizeRightOnceJoined == Spec => []SizeOnceJoined
<1>1. SizeInv => SizeOnceJoined
  <2> SUFFICES ASSUME SizeInv, AllJoined PROVE size = {Cardinality(Elements)}
    BY DEF SizeOnceJoined, Elements
  <2>1. ToCome = {} /\ ToGo = {}
    BY DEF AllJoined, ToCome, ToGo, InCall, Before
  <2>2. Held = Cardinality(Elements)
    BY <2>1, FiniteCounts, FS_EmptySet DEF SizeInv
  <2>3. Loads("head_") = {next["head_"]} /\ Loads("tail_") = {next["tail_"]}
    BY Zenon DEF Loads
  <2>4. size = {Held}
    BY <2>3 DEF size, Held
  <2> QED
    BY <2>2, <2>4
<1> QED
  BY InitCalls, NextCalls, NextRange, InitInv, NextInv, InitSize, NextSize, <1>1, PTL DEF Spec
=============================================================================
