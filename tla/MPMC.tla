--------------------------------- MODULE MPMC ---------------------------------
(****************************************************************************)
(* examples/mpmc.hpp: the bounded queue of many producers and consumers.    *)
(* A push takes a ticket from head_, a pop one from tail_.  A ticket names  *)
(* a slot and a turn: the slot's turn counter tells whose turn it is.       *)
(* pop and try_pop are emplace and try_emplace over tail_ and the turns one *)
(* higher; push and try_push only forward to emplace and try_emplace.       *)
(*                                                                          *)
(* Every atomic access is a step of its own.  head_, tail_ and the turns    *)
(* count up by one, so what they have been is 0 to what they are, and an    *)
(* acquire load returns one of these; of head_ or tail_, none older than    *)
(* the thread has already seen.  Tickets do not wrap around.                *)
(****************************************************************************)
EXTENDS Integers, FiniteSets

CONSTANTS
  Producers, Consumers,    \* the threads
  capacity_,               \* slots
  Pushes, Pops             \* elements that each of them pushes and pops

TotalPushes == Pushes * Cardinality(Producers)
TotalPops == Pops * Cardinality(Consumers)

ASSUME MPMCAssumption ==
  Producers \cap Consumers = {} /\ capacity_ \in Nat \ {0}

(* What is popped gets pushed, and the slots can hold the rest: without it   *)
(* some blocking call never returns.                                         *)
ASSUME CallsAssumption ==
  /\ IsFiniteSet(Producers) /\ IsFiniteSet(Consumers)
  /\ Pushes \in Nat /\ Pops \in Nat
  /\ TotalPops <= TotalPushes /\ TotalPushes <= TotalPops + capacity_

VARIABLES
  next,         \* head_ and tail_: the next ticket of a push, of a pop
  slot_turn,    \* Slot::turn of each slot
  storage,      \* Slot::storage: the ticket of the push that made the element
  pc,           \* where each thread is
  ticket,       \* its local head or tail: what it last saw of head_ or tail_
  calls,        \* history: the calls with which it has pushed or popped
  popped        \* history: what each ticket of a pop has moved out

vars == <<next, slot_turn, storage, pc, ticket, calls, popped>>

Threads == Producers \cup Consumers
Slots == 0 .. capacity_ - 1
None == -1          \* no element in the storage
Unpopped == -2      \* no pop with this ticket yet

idx(i) == i % capacity_
turn(i) == i \div capacity_

End(t) == IF t \in Producers THEN "head_" ELSE "tail_"
Slot(t) == idx(ticket[t])
MayCall(t) == pc[t] = "idle" /\ calls[t] < IF t \in Producers THEN Pushes ELSE Pops

(* The turn at which a slot is free for the push of thread t, or holds the   *)
(* element for its pop; what a load of the slot's counter may return.        *)
Awaited(t) == turn(ticket[t]) * 2 + IF t \in Producers THEN 0 ELSE 1
LoadTurn(t) == 0 .. slot_turn[Slot(t)]

Goto(t, label) == pc' = [pc EXCEPT ![t] = label]
Sees(t, i) == ticket' = [ticket EXCEPT ![t] = i]
TakesTicket(t) == next' = [next EXCEPT ![End(t)] = @ + 1]

----------------------------------------------------------------------------
(* emplace and pop: fetch_add. *)
Claim(t) ==
  /\ MayCall(t)
  /\ Sees(t, next[End(t)])
  /\ TakesTicket(t)
  /\ Goto(t, "spin")
  /\ UNCHANGED <<slot_turn, storage, calls, popped>>

(* Mutant: pop waits for the turn of the push. *)
SpinEnds_OffByOne(t) ==
  /\ pc[t] = "spin"
  /\ turn(ticket[t]) * 2 \in LoadTurn(t)
  /\ Goto(t, "access")
  /\ UNCHANGED <<next, slot_turn, storage, ticket, calls, popped>>

(* The spinning load has returned the awaited turn. *)
SpinEnds(t) ==
  /\ pc[t] = "spin"
  /\ Awaited(t) \in LoadTurn(t)
  /\ Goto(t, "access")
  /\ UNCHANGED <<next, slot_turn, storage, ticket, calls, popped>>

(* try_emplace and try_pop: the first load of head_ or tail_. *)
Try(t) ==
  /\ MayCall(t)
  /\ \E i \in ticket[t] .. next[End(t)] : Sees(t, i)
  /\ Goto(t, "try")
  /\ UNCHANGED <<next, slot_turn, storage, calls, popped>>

TryChecks(t) ==
  /\ pc[t] = "try"
  /\ \E v \in LoadTurn(t) : Goto(t, IF v = Awaited(t) THEN "cas" ELSE "reload")
  /\ UNCHANGED <<next, slot_turn, storage, ticket, calls, popped>>

(* Mutant: a store in place of the compare and exchange. *)
TryClaims_NoCompare(t) ==
  /\ pc[t] = "cas"
  /\ next' = [next EXCEPT ![End(t)] = ticket[t] + 1]
  /\ Goto(t, "access")
  /\ UNCHANGED <<slot_turn, storage, ticket, calls, popped>>

(* compare_exchange_strong; a failure loads what head_ or tail_ is now. *)
TryClaims(t) ==
  /\ pc[t] = "cas"
  /\ \/ /\ ticket[t] = next[End(t)]
        /\ TakesTicket(t)
        /\ Goto(t, "access")
        /\ UNCHANGED ticket
     \/ /\ ticket[t] # next[End(t)]
        /\ Sees(t, next[End(t)])
        /\ Goto(t, "try")
        /\ UNCHANGED next
  /\ UNCHANGED <<slot_turn, storage, calls, popped>>

(* It was not the turn: the call returns false unless head_ or tail_ moved. *)
TryReloads(t) ==
  /\ pc[t] = "reload"
  /\ \E i \in ticket[t] .. next[End(t)] :
       Sees(t, i) /\ Goto(t, IF i = ticket[t] THEN "idle" ELSE "try")
  /\ UNCHANGED <<next, slot_turn, storage, calls, popped>>

(* Slot::construct, a write that is not atomic. *)
Construct(t) ==
  /\ pc[t] = "access"
  /\ storage' = [storage EXCEPT ![Slot(t)] = ticket[t]]
  /\ Goto(t, "accessed")
  /\ UNCHANGED <<next, slot_turn, ticket, calls, popped>>

(* Mutant: what has been moved from stays in the slot. *)
Move_NotDestroyed(t) ==
  /\ pc[t] = "access"
  /\ popped' = [popped EXCEPT ![ticket[t]] = storage[Slot(t)]]
  /\ Goto(t, "accessed")
  /\ UNCHANGED <<next, slot_turn, storage, ticket, calls>>

(* Slot::move and Slot::destroy. *)
Move(t) ==
  /\ pc[t] = "access"
  /\ popped' = [popped EXCEPT ![ticket[t]] = storage[Slot(t)]]
  /\ storage' = [storage EXCEPT ![Slot(t)] = None]
  /\ Goto(t, "accessed")
  /\ UNCHANGED <<next, slot_turn, ticket, calls>>

(* Mutant: the turn stays what it was. *)
HandsOver_SameTurn(t) ==
  /\ pc[t] = "accessed"
  /\ slot_turn' = [slot_turn EXCEPT ![Slot(t)] = Awaited(t)]
  /\ Goto(t, "idle")
  /\ calls' = [calls EXCEPT ![t] = @ + 1]
  /\ UNCHANGED <<next, storage, ticket, popped>>

(* Mutant: the turn is counted per ticket, not per round of the slots. *)
HandsOver_PerTicket(t) ==
  /\ pc[t] = "accessed"
  /\ slot_turn' = [slot_turn EXCEPT ![Slot(t)] = ticket[t] * 2 + IF t \in Producers THEN 1 ELSE 2]
  /\ Goto(t, "idle")
  /\ calls' = [calls EXCEPT ![t] = @ + 1]
  /\ UNCHANGED <<next, storage, ticket, popped>>

(* The turn goes from the push to the pop with the same ticket, and from     *)
(* there to the push that uses the slot next.                                *)
HandsOver(t) ==
  /\ pc[t] = "accessed"
  /\ slot_turn' = [slot_turn EXCEPT ![Slot(t)] = Awaited(t) + 1]
  /\ Goto(t, "idle")
  /\ calls' = [calls EXCEPT ![t] = @ + 1]
  /\ UNCHANGED <<next, storage, ticket, popped>>

----------------------------------------------------------------------------
(* Every thread has made its calls: the threads can be joined. *)
AllJoined ==
  /\ \A t \in Producers : pc[t] = "idle" /\ calls[t] = Pushes
  /\ \A t \in Consumers : pc[t] = "idle" /\ calls[t] = Pops

(* size() makes two relaxed loads, at two moments.  Each returns anything    *)
(* that head_ or tail_ has been, but what it is if all threads are joined.   *)
Loads(end) == IF AllJoined THEN {next[end]} ELSE 0 .. next[end]
size == {head - tail : head \in Loads("head_"), tail \in Loads("tail_")}

(* Whether ~Slot destroys the element of slot s. *)
Destroys(s) == slot_turn[s] % 2 = 1

Init ==
  /\ next = [e \in {"head_", "tail_"} |-> 0]
  /\ slot_turn = [s \in Slots |-> 0]
  /\ storage = [s \in Slots |-> None]
  /\ pc = [t \in Threads |-> "idle"]
  /\ ticket = [t \in Threads |-> 0]
  /\ calls = [t \in Threads |-> 0]
  /\ popped = [i \in 0 .. TotalPops - 1 |-> Unpopped]

Blocking(t) == Claim(t) \/ SpinEnds(t)
Trying(t) == Try(t) \/ TryChecks(t) \/ TryClaims(t) \/ TryReloads(t)

Producer(t) == Blocking(t) \/ Trying(t) \/ Construct(t) \/ HandsOver(t)
Consumer(t) == Blocking(t) \/ Trying(t) \/ Move(t) \/ HandsOver(t)

Next ==
  \/ \E t \in Producers : Producer(t)
  \/ \E t \in Consumers : Consumer(t)
  \/ AllJoined /\ UNCHANGED vars

(* Every thread keeps running, and a store becomes visible in the end: a     *)
(* try_ call that is repeated often enough loads the turn it waits for.      *)
Fairness ==
  /\ \A t \in Producers : WF_vars(Producer(t))
  /\ \A t \in Consumers : WF_vars(Consumer(t))
  /\ \A t \in Threads : SF_vars(TryChecks(t) /\ pc'[t] = "cas")

Spec == Init /\ [][Next]_vars /\ Fairness

----------------------------------------------------------------------------
InCall(ts, labels) == {t \in ts : pc[t] \in labels}

(* Types; a turn never runs ahead of the tickets that have been given out.   *)
TypeOK ==
  /\ next["head_"] \in 0 .. TotalPushes /\ next["tail_"] \in 0 .. TotalPops
  /\ \A s \in Slots : slot_turn[s] \in 0 .. 2 * (turn(next["head_"]) + 1)
  /\ storage \in [Slots -> None .. TotalPushes - 1]
  /\ pc \in [Threads -> {"idle", "spin", "try", "cas", "reload", "access", "accessed"}]
  /\ \A t \in Threads : ticket[t] \in 0 .. next[End(t)]
  /\ popped \in [0 .. TotalPops - 1 -> Unpopped .. TotalPushes - 1]

(* No two threads are in the storage of a slot at once: construct, move and  *)
(* destroy are not atomic, the turn counter alone keeps them apart.          *)
ExclusiveSlot ==
  \A t, u \in InCall(Threads, {"access", "accessed"}) : t # u => Slot(t) # Slot(u)

(* The pop with ticket i gets the element that the push with ticket i has    *)
(* constructed: it finds an element, and none is lost, overwritten or popped *)
(* twice, in whatever order the threads get to their slots.                  *)
PopsWhatWasPushed == \A i \in DOMAIN popped : popped[i] \in {Unpopped, i}

(* In a slot that no call is using, ~Slot destroys an element exactly if     *)
(* there is one: the destructor neither leaks nor destroys twice.            *)
DestroysWhatIsLeft ==
  \A s \in Slots :
    \/ Destroys(s) <=> storage[s] # None
    \/ \E t \in InCall(Threads, {"accessed"}) : Slot(t) = s

(* Once all threads have been joined, size() is the number of elements in    *)
(* the slots: every ticket that was taken has been used, also by the try_    *)
(* calls that gave up or lost a compare and exchange.  Until then it is a    *)
(* guess.                                                                    *)
SizeOnceJoined == AllJoined => size = {Cardinality({s \in Slots : storage[s] # None})}

(* All calls return: no order of the tickets and turns leaves a push or a    *)
(* pop spinning forever.                                                     *)
AllReturn == <>AllJoined
==============================================================================
