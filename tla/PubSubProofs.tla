----------------------------- MODULE PubSubProofs -----------------------------
(****************************************************************************)
(* PubSub.hpp, for any names, capacity, number of calls and failures: the   *)
(* spin lock keeps sync_configs and publish apart; sync_configs leaves the  *)
(* Publishers of the configurations; publish returns true only when each    *)
(* queue has the message; and the queues get the messages once, in order.   *)
(****************************************************************************)
EXTENDS PubSub, TLAPS

(* The places from lo to hi of the sequence q that hold x. *)
Places(q, lo, hi, x) == {k \in lo .. hi : q[k] = x}

(* sync_configs is between lock and unlock. *)
Syncing == spc \in {"remove", "add", "apply"}

(* The changes x that are yet to be applied. *)
Pending(x) ==
  Places(change_queue, IF spc = "apply" THEN spos ELSE 1, Len(change_queue), x)

(* The Publishers called n that the first loop has seen. *)
Seen(n) ==
  Places(publishers, 1, IF spc = "remove" THEN spos - 1 ELSE Len(publishers), n)

(* TypeOK, and where the counters and loop variables can be: for             *)
(* sync_configs, for publish, for the queues and for the flags.              *)
SyncTypeInv ==
  /\ publishers \in Seq(Names)
  /\ change_queue \in Seq(Changes)
  /\ spc \in {"idle", "lock", "remove", "add", "apply", "failed", "synced"}
  /\ configs \in ConfigLists
  /\ configs \in Seq(Names)
  /\ spos \in Nat \ {0}
  /\ failures \in Nat
  /\ repeats \in Nat
  /\ failures + repeats <= MaxFaults
  /\ spc \in {"idle", "lock"} => spos = 1
  /\ spc = "remove" => spos <= Len(publishers) + 1
  /\ spc = "add" => spos <= Len(configs) + 1
  /\ spc = "apply" => spos <= Len(change_queue) + 1

PublishTypeInv ==
  /\ ppc \in {"idle", "lock", "loop"}
  /\ ppos \in Nat \ {0}
  /\ message \in Nat
  /\ calls \in 0 .. MaxCalls
  /\ message <= calls
  /\ ppc # "idle" => message > 0
  /\ published \/ message > 0

QueueTypeInv ==
  /\ stream \in [Names -> Seq(1 .. MaxCalls)]
  /\ taken \in [Names -> Nat]
  /\ \A n \in Names : Held(n) \in 0 .. Capacity

FlagTypeInv ==
  /\ locked \in BOOLEAN
  /\ published \in BOOLEAN
  /\ retried \in BOOLEAN

TypeInv == SyncTypeInv /\ PublishTypeInv /\ QueueTypeInv /\ FlagTypeInv

(* Who is between lock and unlock. *)
LockInv ==
  /\ ppc = "loop" \/ Syncing => locked
  /\ ~ (ppc = "loop" /\ Syncing)

(* What the changes in the queue will do about n: if it is not configured,    *)
(* there is one removal for each of its Publishers that has been seen, and   *)
(* otherwise none.                                                           *)
RemovalsDue(n) ==
  IF n \in Range(configs) THEN Pending(Removal(n)) = {}
                          ELSE ExistsBijection(Pending(Removal(n)), Seen(n))

(* It is added if it is configured, has been looked up and is missing.       *)
AdditionsDue(n) ==
  /\ n \notin Range(configs) \/ spc = "remove" => Pending(Addition(n)) = {}
  /\ spc = "add" =>
       (Pending(Addition(n)) # {} <=>
          n \notin Range(publishers) /\ Places(configs, 1, spos - 1, n) # {})
  /\ spc = "apply" /\ n \in Range(configs) =>
       n \in Range(publishers) \/ Pending(Addition(n)) # {}

(* All of this if no changes are left from a call that failed.               *)
QueueInv ==
  failures = 0 =>
    /\ ~ Syncing => change_queue = <<>>
    /\ Syncing => \A n \in Names : RemovalsDue(n) /\ AdditionsDue(n)
    /\ spc = "synced" => Range(publishers) = Range(configs)

AddedOnce(n) ==
  \A k, l \in Pending(Addition(n)) : k = l /\ n \notin Range(publishers)

(* And if no vector of configurations has named anything twice, a Publisher  *)
(* is there once, and added once.                                            *)
UniqueInv ==
  failures = 0 /\ repeats = 0 =>
    /\ IsInjective(configs)
    /\ IsInjective(publishers)
    /\ Syncing => \A n \in Names : AddedOnce(n)

Has(q, m) == \E k \in 1 .. Len(q) : q[k] = m

(* As long as published is true, each Publisher that the loop has passed     *)
(* has the message in its queue.                                             *)
ReachInv ==
  /\ ppc # "loop" => ppos = 1
  /\ ppc = "loop" /\ published =>
       \A i \in 1 .. Len(publishers) : i < ppos => Has(stream[publishers[i]], message)

Increasing(q) == \A i, j \in 1 .. Len(q) : i < j => q[i] < q[j]
Below(q, m) == \A i \in 1 .. Len(q) : q[i] < m

(* publish has not come to a Publisher called n yet. *)
Fresh(n) == ppc = "lock" \/ (ppc = "loop" /\ Places(publishers, 1, ppos - 1, n) = {})

(* The messages of a queue increase up to the current one, which is in it    *)
(* only if the loop has passed its Publisher.                                *)
Ordered(n) ==
  /\ Increasing(stream[n])
  /\ Below(stream[n], message + 1)
  /\ Fresh(n) => Below(stream[n], message)

OrderInv == failures = 0 /\ ~ retried /\ repeats = 0 => \A n \in Names : Ordered(n)

----------------------------------------------------------------------------
(* Sequences and the places in them. *)

(* What is at each place of a sequence after push_back.                      *)
LEMMA AppendFacts ==
  ASSUME NEW S, NEW q \in Seq(S), NEW x \in S
  PROVE  /\ Append(q, x) \in Seq(S)
         /\ Len(q) \in Nat
         /\ Len(Append(q, x)) = Len(q) + 1
         /\ Append(q, x)[Len(q) + 1] = x
         /\ \A k \in 1 .. Len(q) : Append(q, x)[k] = q[k]
OBVIOUS

(* What is at a place of a sequence.                                         *)
LEMMA ElementOf ==
  ASSUME NEW S, NEW q \in Seq(S), NEW k \in 1 .. Len(q)
  PROVE  q[k] \in S
OBVIOUS

(* What is at each place of a concatenation.                                 *)
LEMMA ConcatFacts ==
  ASSUME NEW S, NEW a \in Seq(S), NEW b \in Seq(S)
  PROVE  /\ a \o b \in Seq(S)
         /\ Len(a \o b) = Len(a) + Len(b)
         /\ \A k \in 1 .. Len(a) + Len(b) :
              (a \o b)[k] = IF k <= Len(a) THEN a[k] ELSE b[k - Len(a)]
OBVIOUS

(* And after erase.                                                          *)
LEMMA EraseFacts ==
  ASSUME NEW S, NEW q \in Seq(S), NEW i \in 1 .. Len(q)
  PROVE  /\ erase(q, i) \in Seq(S)
         /\ Len(q) \in Nat
         /\ Len(erase(q, i)) = Len(q) - 1
         /\ \A k \in 1 .. i - 1 : erase(q, i)[k] = q[k]
         /\ \A k \in i .. Len(q) - 1 : erase(q, i)[k] = q[k + 1]
<1> DEFINE a == SubSeq(q, 1, i - 1)
           b == SubSeq(q, i + 1, Len(q))
<1>1. a \in Seq(S) /\ Len(a) = i - 1 /\ \A k \in 1 .. i - 1 : a[k] = q[k]
  OBVIOUS
<1>2. /\ b \in Seq(S) /\ Len(b) = Len(q) - i
      /\ \A k \in 1 .. Len(q) - i : b[k] = q[i + k]
  OBVIOUS
<1>3. erase(q, i) = a \o b
  BY DEF erase
<1> HIDE DEF a, b
<1>4. /\ a \o b \in Seq(S) /\ Len(a \o b) = Len(a) + Len(b)
      /\ \A k \in 1 .. Len(a) + Len(b) : (a \o b)[k] = IF k <= Len(a) THEN a[k] ELSE b[k - Len(a)]
  BY <1>1, <1>2, ConcatFacts, Zenon
<1>5. ASSUME NEW k \in i .. Len(q) - 1
      PROVE  (a \o b)[k] = q[k + 1]
  <2>1. k - Len(a) \in 1 .. Len(q) - i /\ k > Len(a) /\ k \in 1 .. Len(a) + Len(b)
    BY <1>1, <1>2
  <2>2. (a \o b)[k] = b[k - Len(a)]
    <3>1. ~ (k <= Len(a))
      BY <1>1, <2>1
    <3> QED
      BY <1>4, <2>1, <3>1, Zenon
  <2>3. b[k - Len(a)] = q[i + (k - Len(a))]
    BY <1>2, <2>1, Zenon
  <2>4. i + (k - Len(a)) = k + 1
    BY <1>1
  <2> QED
    BY <2>2, <2>3, <2>4
<1>6. ASSUME NEW k \in 1 .. i - 1
      PROVE  (a \o b)[k] = q[k]
  BY <1>1, <1>2, <1>4
<1> QED
  BY <1>1, <1>2, <1>3, <1>4, <1>5, <1>6, SMTT(30)

(* The elements of a sequence are those at its places.                       *)
LEMMA RangeFacts ==
  ASSUME NEW S, NEW q \in Seq(S), NEW x
  PROVE  /\ x \in Range(q) <=> \E k \in 1 .. Len(q) : q[k] = x
         /\ x \in Range(q) <=> Places(q, 1, Len(q), x) # {}
BY DEF Range, Places

(* push_back adds its argument to the elements.                              *)
LEMMA AppendSet ==
  ASSUME NEW S, NEW q \in Seq(S), NEW y \in S, NEW x
  PROVE  x \in Range(Append(q, y)) <=> x \in Range(q) \/ x = y
<1> DEFINE r == Append(q, y)
<1>1. /\ r \in Seq(S) /\ Len(q) \in Nat /\ Len(r) = Len(q) + 1
      /\ r[Len(q) + 1] = y /\ \A k \in 1 .. Len(q) : r[k] = q[k]
  BY AppendFacts
<1> HIDE DEF r
<1>2. (\E k \in 1 .. Len(r) : r[k] = x) <=> (\E k \in 1 .. Len(q) : q[k] = x) \/ x = y
  BY <1>1
<1>3. x \in Range(r) <=> \E k \in 1 .. Len(r) : r[k] = x
  BY <1>1, RangeFacts, Zenon
<1>4. x \in Range(q) <=> \E k \in 1 .. Len(q) : q[k] = x
  BY RangeFacts, Zenon
<1> QED
  BY <1>2, <1>3, <1>4 DEF r

(* An argument of sync_configs is a sequence of names.                       *)
LEMMA ConfigFacts ==
  /\ <<>> \in ConfigLists
  /\ \A cs \in ConfigLists : cs \in Seq(Names)
<1>1. <<>> \in [1 .. 0 -> Names]
  OBVIOUS
<1> QED
  BY <1>1, PubSubAssumption DEF ConfigLists

(* push_back of y: one more place of y, the same places of all others.       *)
LEMMA PlacesAppend ==
  ASSUME NEW S, NEW q \in Seq(S), NEW y \in S, NEW x, NEW lo \in Nat \ {0}, lo <= Len(q) + 1
  PROVE  LET r == Append(q, y)
             old == Places(q, lo, Len(q), x)
             new == Places(r, lo, Len(r), x)
         IN  /\ y # x => new = old
             /\ y = x => new = old \cup {Len(q) + 1}
             /\ Len(q) + 1 \notin old
<1> DEFINE r == Append(q, y)
<1>1. /\ Len(q) \in Nat /\ Len(r) = Len(q) + 1 /\ r[Len(q) + 1] = y
      /\ \A k \in 1 .. Len(q) : r[k] = q[k]
  BY AppendFacts
<1> HIDE DEF r
<1>3. y # x => Places(r, lo, Len(r), x) = Places(q, lo, Len(q), x)
  BY <1>1 DEF Places
<1>4. y = x => Places(r, lo, Len(r), x) = Places(q, lo, Len(q), x) \cup {Len(q) + 1}
  BY <1>1 DEF Places
<1>5. Len(q) + 1 \notin Places(q, lo, Len(q), x)
  BY <1>1 DEF Places
<1> QED
  BY <1>3, <1>4, <1>5 DEF r

(* The first place is left behind.                                           *)
LEMMA PlacesRest ==
  ASSUME NEW q, NEW lo \in Nat, NEW hi \in Nat, lo <= hi, NEW x
  PROVE  /\ q[lo] # x => Places(q, lo + 1, hi, x) = Places(q, lo, hi, x)
         /\ q[lo] = x => /\ lo \in Places(q, lo, hi, x)
                         /\ Places(q, lo + 1, hi, x) = Places(q, lo, hi, x) \ {lo}
BY DEF Places

----------------------------------------------------------------------------
(* Sets of the same size *)

(* A bijection is a function that has each value once.                       *)
LEMMA BijectionBy ==
  ASSUME NEW S, NEW T, NEW f \in [S -> T],
         \A x, y \in S : f[x] = f[y] => x = y,
         \A t \in T : \E x \in S : f[x] = t
  PROVE  ExistsBijection(S, T)
BY DEF ExistsBijection, Bijection, Injection, Surjection, IsInjective

LEMMA BijectionIs ==
  ASSUME NEW S, NEW T, ExistsBijection(S, T)
  PROVE  \E f \in [S -> T] : /\ \A x, y \in S : f[x] = f[y] => x = y
                             /\ \A t \in T : \E x \in S : f[x] = t
BY DEF ExistsBijection, Bijection, Injection, Surjection, IsInjective

(* Nothing is as large as nothing.                                           *)
LEMMA SameEmpty ==
  /\ ExistsBijection({}, {})
  /\ \A T : ExistsBijection({}, T) => T = {}
<1>1. ExistsBijection({}, {})
  <2> DEFINE f == [x \in {} |-> x]
  <2>1. f \in [{} -> {}]
    OBVIOUS
  <2> HIDE DEF f
  <2> QED
    BY <2>1, BijectionBy, Zenon
<1>2. ASSUME NEW T, ExistsBijection({}, T) PROVE T = {}
  BY <1>2, BijectionIs
<1> QED
  BY <1>1, <1>2

(* An element more in both.                                                  *)
LEMMA SameAdd ==
  ASSUME NEW S, NEW T, ExistsBijection(S, T), NEW a, a \notin S, NEW b, b \notin T
  PROVE  ExistsBijection(S \cup {a}, T \cup {b})
<1>1. PICK f \in [S -> T] : /\ \A x, y \in S : f[x] = f[y] => x = y
                            /\ \A t \in T : \E x \in S : f[x] = t
  BY BijectionIs
<1> DEFINE g == [x \in S \cup {a} |-> IF x = a THEN b ELSE f[x]]
<1>2. g \in [S \cup {a} -> T \cup {b}] /\ g[a] = b /\ \A x \in S : g[x] = f[x]
  OBVIOUS
<1> HIDE DEF g
<1>3. \A x, y \in S \cup {a} : g[x] = g[y] => x = y
  BY <1>1, <1>2
<1>4. \A t \in T \cup {b} : \E x \in S \cup {a} : g[x] = t
  BY <1>1, <1>2
<1> QED
  BY <1>2, <1>3, <1>4, BijectionBy

(* An element fewer in both: what went with b goes with what a went with.    *)
LEMMA SameRemove ==
  ASSUME NEW S, NEW T, ExistsBijection(S, T), NEW a \in S, NEW b \in T
  PROVE  ExistsBijection(S \ {a}, T \ {b})
<1>1. PICK f \in [S -> T] : /\ \A x, y \in S : f[x] = f[y] => x = y
                            /\ \A t \in T : \E x \in S : f[x] = t
  BY BijectionIs
<1> DEFINE g == [x \in S \ {a} |-> IF f[x] = b THEN f[a] ELSE f[x]]
<1>2. /\ g \in [S \ {a} -> T \ {b}]
      /\ \A x \in S \ {a} : g[x] = IF f[x] = b THEN f[a] ELSE f[x]
  BY <1>1
<1> HIDE DEF g
<1>3. \A x, y \in S \ {a} : g[x] = g[y] => x = y
  BY <1>1, <1>2
<1>4. ASSUME NEW t \in T \ {b} PROVE \E x \in S \ {a} : g[x] = t
  <2>1. PICK x \in S : f[x] = t
    BY <1>1
  <2>2. PICK y \in S : f[y] = b
    BY <1>1
  <2> QED
    BY <1>2, <2>1, <2>2
<1> QED
  BY <1>2, <1>3, <1>4, BijectionBy

(* One bijection after another.                                              *)
LEMMA SameAsSame ==
  ASSUME NEW S, NEW T, NEW U, ExistsBijection(S, T), ExistsBijection(T, U)
  PROVE  ExistsBijection(S, U)
<1>1. PICK f \in [S -> T] : /\ \A x, y \in S : f[x] = f[y] => x = y
                            /\ \A t \in T : \E x \in S : f[x] = t
  BY BijectionIs, SMTT(30)
<1>2. PICK g \in [T -> U] : /\ \A x, y \in T : g[x] = g[y] => x = y
                            /\ \A t \in U : \E x \in T : g[x] = t
  BY BijectionIs
<1> DEFINE h == [x \in S |-> g[f[x]]]
<1>3. h \in [S -> U] /\ \A x \in S : f[x] \in T /\ h[x] = g[f[x]]
  OBVIOUS
<1> HIDE DEF h
<1>4. \A x, y \in S : h[x] = h[y] => x = y
  BY <1>1, <1>2, <1>3
<1>5. \A t \in U : \E x \in S : h[x] = t
  BY <1>1, <1>2, <1>3
<1> QED
  BY <1>3, <1>4, <1>5, BijectionBy

(* erase at i: the places left are as many as all but i.                     *)
LEMMA PlacesErase ==
  ASSUME NEW S, NEW q \in Seq(S), NEW i \in 1 .. Len(q), NEW x
  PROVE  LET r == erase(q, i)
         IN  ExistsBijection(Places(q, 1, Len(q), x) \ {i}, Places(r, 1, Len(r), x))
<1> DEFINE r == erase(q, i)
           old == Places(q, 1, Len(q), x)
           new == Places(r, 1, Len(r), x)
           f == [k \in old \ {i} |-> IF k < i THEN k ELSE k - 1]
<1>1. /\ Len(q) \in Nat /\ Len(r) = Len(q) - 1
      /\ \A k \in 1 .. i - 1 : r[k] = q[k]
      /\ \A k \in i .. Len(q) - 1 : r[k] = q[k + 1]
  BY EraseFacts
<1> HIDE DEF r
<1>2. f \in [old \ {i} -> new]
  <2> SUFFICES ASSUME NEW k \in old \ {i} PROVE (IF k < i THEN k ELSE k - 1) \in new
    OBVIOUS
  <2>1. CASE k < i
    BY <1>1, <2>1 DEF Places
  <2>2. CASE k > i
    <3>1. k - 1 \in i .. Len(q) - 1 /\ (k - 1) + 1 = k /\ q[k] = x
      BY <1>1, <2>2 DEF Places
    <3>2. r[k - 1] = q[(k - 1) + 1]
      BY <1>1, <3>1
    <3> QED
      BY <1>1, <2>2, <3>1, <3>2 DEF Places
  <2> QED
    BY <1>1, <2>1, <2>2 DEF Places
<1>3. \A k, l \in old \ {i} : f[k] = f[l] => k = l
  BY <1>1 DEF Places
<1>4. ASSUME NEW m \in new PROVE \E k \in old \ {i} : f[k] = m
  <2>1. CASE m < i
    <3>1. m \in old \ {i} /\ f[m] = m
      BY <1>1, <2>1 DEF Places
    <3> QED
      BY <3>1
  <2>2. CASE m >= i
    <3>1. m + 1 \in old \ {i} /\ f[m + 1] = m
      BY <1>1, <2>2 DEF Places
    <3> QED
      BY <3>1
  <2> QED
    BY <1>1, <2>1, <2>2 DEF Places
<1> HIDE DEF old, new, f
<1>5. ExistsBijection(old \ {i}, new)
  BY <1>2, <1>3, <1>4, BijectionBy
<1> QED
  BY <1>5 DEF r, old, new

----------------------------------------------------------------------------
(* Types *)

(* Removal and Addition are PubSubChange objects.                            *)
LEMMA ChangeFacts ==
  ASSUME NEW m \in Names
  PROVE  /\ Removal(m) \in Changes /\ Addition(m) \in Changes
         /\ \A n \in Names : /\ Removal(m) # Addition(n)
                             /\ Removal(m) = Removal(n) => m = n
                             /\ Addition(m) = Addition(n) => m = n
BY DEF Removal, Addition, Changes

(* And there are no others.                                                  *)
LEMMA ChangeIs ==
  ASSUME NEW c \in Changes
  PROVE  /\ c.name \in Names
         /\ c.kind \in {"addition", "removal"}
         /\ c.kind = "addition" => c = Addition(c.name)
         /\ c.kind = "removal" => c = Removal(c.name)
BY DEF Removal, Addition, Changes

(* A PubSub is constructed without publishers and changes.                   *)
LEMMA InitTypes == Init => TypeInv
<1> SUFFICES ASSUME Init PROVE TypeInv
  OBVIOUS
<1>1. SyncTypeInv
  BY ConfigFacts, PubSubAssumption DEF Init, SyncTypeInv
<1>2. PublishTypeInv
  BY PubSubAssumption DEF Init, PublishTypeInv
<1>3. QueueTypeInv
  BY PubSubAssumption DEF Init, QueueTypeInv, Held
<1>4. FlagTypeInv
  BY Zenon DEF Init, FlagTypeInv
<1> QED
  BY <1>1, <1>2, <1>3, <1>4, Zenon DEF TypeInv

(* The steps of sync_configs keep the types of its own variables.            *)
LEMMA SyncTypes ==
  ASSUME SyncTypeInv,
         \/ \E cs \in ConfigLists : Sync(cs)
         \/ SyncLocks \/ SyncHoldsLock \/ SyncReturns
  PROVE  SyncTypeInv'
<1> USE DEF SyncTypeInv
<1>1. CASE \E cs \in ConfigLists : Sync(cs)
  <2>1. PICK cs \in ConfigLists : Sync(cs)
    BY <1>1
  <2>2. cs \in Seq(Names)
    BY ConfigFacts
  <2> QED
    BY <2>1, <2>2, PubSubAssumption DEF Sync
<1>2. CASE SyncLocks
  BY <1>2 DEF SyncLocks
<1>3. CASE SyncRemoves
  <2>1. publishers[spos] \in Names
    BY <1>3 DEF SyncRemoves
  <2>2. Removal(publishers[spos]) \in Changes
    BY <2>1, ChangeFacts
  <2>3. change_queue' \in Seq(Changes)
    BY <1>3, <2>2 DEF SyncRemoves
  <2> QED
    BY <1>3, <2>3 DEF SyncRemoves
<1>4. CASE RemovesEnd
  BY <1>4 DEF RemovesEnd, LoopEnds
<1>5. CASE SyncAdds
  <2>1. configs[spos] \in Names
    BY <1>5 DEF SyncAdds
  <2>2. Addition(configs[spos]) \in Changes
    BY <2>1, ChangeFacts
  <2>3. change_queue' \in Seq(Changes)
    BY <1>5, <2>2 DEF SyncAdds
  <2> QED
    BY <1>5, <2>3 DEF SyncAdds
<1>6. CASE SyncFails
  BY <1>6, PubSubAssumption DEF SyncFails
<1>7. CASE AddsEnd
  BY <1>7 DEF AddsEnd, LoopEnds
<1>8. CASE apply_changes
  <2> DEFINE c == change_queue[spos]
  <2>1. c.name \in Names
    BY <1>8, ChangeIs DEF apply_changes
  <2>2. Append(publishers, c.name) \in Seq(Names)
    BY <2>1
  <2>3. \A i \in 1 .. Len(publishers) : erase(publishers, i) \in Seq(Names)
    BY EraseFacts
  <2>4. publishers' \in Seq(Names)
    <3>1. \/ publishers' = publishers
          \/ publishers' = Append(publishers, c.name)
          \/ \E i \in 1 .. Len(publishers) : publishers' = erase(publishers, i)
      BY <1>8, Zenon DEF apply_changes, apply_change
    <3> QED
      BY <2>2, <2>3, <3>1, Zenon
  <2> QED
    BY <1>8, <2>4 DEF apply_changes
<1>9. CASE SyncEnds
  BY <1>9 DEF SyncEnds
<1>10. CASE SyncReturns
  BY <1>10, ConfigFacts DEF SyncReturns
<1> HIDE DEF SyncTypeInv
<1> QED
  BY <1>1, <1>2, <1>3, <1>4, <1>5, <1>6, <1>7, <1>8, <1>9, <1>10, Zenon DEF SyncHoldsLock

(* Those of publish the types of its variables.                              *)
LEMMA PublishTypes ==
  ASSUME PublishTypeInv, Publish \/ PublishLocks \/ PublishHoldsLock
  PROVE  PublishTypeInv'
<1> USE DEF PublishTypeInv, publishVars
<1>1. CASE Publish
  <2>1. /\ message' = message + 1 \/ message' = message
        /\ ~ published \/ message' = message + 1
        /\ calls < MaxCalls /\ calls' = calls + 1
        /\ ppc' = "lock" /\ ppos' = ppos
        /\ published' = published
    BY <1>1, Zenon DEF Publish
  <2> QED
    BY <2>1, PubSubAssumption
<1>2. CASE PublishLocks
  BY <1>2 DEF PublishLocks
<1>3. CASE EnqueueAccepts
  BY <1>3 DEF EnqueueAccepts
<1>4. CASE EnqueueRefuses
  BY <1>4 DEF EnqueueRefuses
<1>5. CASE PublishReturns
  BY <1>5 DEF PublishReturns
<1> HIDE DEF PublishTypeInv, publishVars
<1> QED
  BY <1>1, <1>2, <1>3, <1>4, <1>5, Zenon DEF PublishHoldsLock

(* A queue takes a message only with room for it, and gives one only if it   *)
(* has one.                                                                  *)
LEMMA QueueTypes ==
  ASSUME TypeInv, EnqueueAccepts \/ \E n \in Names : Take(n)
  PROVE  QueueTypeInv'
<1>0. ASSUME NEW n \in Names
      PROVE  /\ stream[n] \in Seq(1 .. MaxCalls) /\ Len(stream[n]) \in Nat
             /\ taken[n] \in Nat /\ Len(stream[n]) - taken[n] \in 0 .. Capacity
  BY DEF TypeInv, QueueTypeInv, Held
<1>1. CASE EnqueueAccepts
  <2> DEFINE name == publishers[ppos]
  <2>1. name \in Names /\ message \in 1 .. MaxCalls
    <3>1. ppc = "loop" /\ ppos <= Len(publishers)
      BY <1>1 DEF EnqueueAccepts
    <3>2. name \in Names
      BY <3>1 DEF TypeInv, SyncTypeInv, PublishTypeInv
    <3>3. message \in 1 .. MaxCalls
      BY <3>1, PubSubAssumption DEF TypeInv, PublishTypeInv
    <3> QED
      BY <3>2, <3>3
  <2>2. /\ stream' = [stream EXCEPT ![name] = Append(stream[name], message)]
        /\ taken' = taken
        /\ Len(stream[name]) - taken[name] < Capacity
    BY <1>1 DEF EnqueueAccepts, Held
  <2> HIDE DEF name
  <2>3. /\ Append(stream[name], message) \in Seq(1 .. MaxCalls)
        /\ Len(Append(stream[name], message)) = Len(stream[name]) + 1
    BY <1>0, <2>1, AppendFacts
  <2>4. /\ stream' \in [Names -> Seq(1 .. MaxCalls)]
        /\ stream'[name] = Append(stream[name], message)
        /\ \A n \in Names : n # name => stream'[n] = stream[n]
    BY <2>1, <2>2, <2>3 DEF TypeInv, QueueTypeInv
  <2>5. ASSUME NEW n \in Names
        PROVE  Len(stream'[n]) - taken'[n] \in 0 .. Capacity
    <3>1. CASE n = name
      BY <1>0, <2>2, <2>3, <2>4, <3>1, PubSubAssumption
    <3>2. CASE n # name
      BY <1>0, <2>2, <2>4, <3>2
    <3> QED
      BY <3>1, <3>2
  <2> QED
    BY <2>2, <2>4, <2>5 DEF TypeInv, QueueTypeInv, Held
<1>2. ASSUME NEW m \in Names, Take(m)
      PROVE  QueueTypeInv'
  <2>1. /\ taken' = [taken EXCEPT ![m] = taken[m] + 1]
        /\ stream' = stream
        /\ Len(stream[m]) - taken[m] > 0
    BY <1>2 DEF Take, Held
  <2>2. /\ taken' \in [Names -> Nat]
        /\ \A n \in Names : taken'[n] = IF n = m THEN taken[n] + 1 ELSE taken[n]
    BY <2>1 DEF TypeInv, QueueTypeInv
  <2>3. ASSUME NEW n \in Names
        PROVE  Len(stream'[n]) - taken'[n] \in 0 .. Capacity
    <3>1. CASE n = m
      BY <1>0, <2>1, <2>2, <3>1, PubSubAssumption, SMTT(30)
    <3>2. CASE n # m
      BY <1>0, <2>1, <2>2, <3>2
    <3> QED
      BY <3>1, <3>2
  <2> QED
    BY <2>1, <2>2, <2>3 DEF TypeInv, QueueTypeInv, Held
<1> QED
  BY <1>1, <1>2

(* The flags are only set and cleared.                                       *)
LEMMA FlagTypes == FlagTypeInv /\ Next => FlagTypeInv'
<1> SUFFICES ASSUME FlagTypeInv, Next PROVE FlagTypeInv'
  OBVIOUS
<1> USE DEF FlagTypeInv, publishVars, Lock, Unlock
<1>1. CASE \/ \E cs \in ConfigLists : Sync(cs)
           \/ SyncLocks \/ SyncHoldsLock \/ SyncReturns
  BY <1>1, Zenon
     DEF Sync, SyncLocks, SyncHoldsLock, SyncRemoves, RemovesEnd, LoopEnds, SyncAdds,
         SyncFails, AddsEnd, apply_changes, SyncEnds, SyncReturns
<1>2. CASE Publish \/ PublishLocks \/ PublishHoldsLock
  BY <1>2, Zenon
     DEF Publish, PublishLocks, PublishHoldsLock, EnqueueAccepts, EnqueueRefuses, PublishReturns
<1>3. CASE \E n \in Names : Take(n)
  BY <1>3, Zenon DEF Take
<1> HIDE DEF FlagTypeInv, publishVars, Lock, Unlock
<1> QED
  BY <1>1, <1>2, <1>3, Zenon DEF Next

(* What the steps of sync_configs leave alone.                               *)
LEMMA SyncFrame ==
  ASSUME (\E cs \in ConfigLists : Sync(cs)) \/ SyncLocks \/ SyncHoldsLock \/ SyncReturns
  PROVE  UNCHANGED <<publishVars, stream, taken, calls, retried>>
BY DEF Sync, SyncLocks, SyncHoldsLock, SyncRemoves, RemovesEnd, LoopEnds, SyncAdds,
       SyncFails, AddsEnd, apply_changes, SyncEnds, SyncReturns

(* What all others leave alone.                                              *)
LEMMA PublishFrame ==
  ASSUME Publish \/ PublishLocks \/ PublishHoldsLock \/ \E n \in Names : Take(n)
  PROVE  UNCHANGED <<publishers, change_queue, syncVars, failures, repeats>>
BY DEF Publish, PublishLocks, PublishHoldsLock, EnqueueAccepts, EnqueueRefuses,
       PublishReturns, Take

(* And the queues change only when one accepts a message or gives one.       *)
LEMMA QueueFrame ==
  ASSUME Publish \/ PublishLocks \/ EnqueueRefuses \/ PublishReturns
  PROVE  UNCHANGED <<stream, taken>>
BY DEF Publish, PublishLocks, EnqueueRefuses, PublishReturns

LEMMA TakeFrame ==
  ASSUME \E n \in Names : Take(n)
  PROVE  UNCHANGED <<publishVars, stream, calls>>
BY DEF Take

(* All steps keep the types.                                                 *)
LEMMA NextTypes == TypeInv /\ [Next]_vars => TypeInv'
<1> SUFFICES ASSUME TypeInv, [Next]_vars PROVE TypeInv'
  OBVIOUS
<1>1. UNCHANGED <<publishers, change_queue, syncVars, failures, repeats>> => SyncTypeInv'
  BY DEF TypeInv, SyncTypeInv, syncVars
<1>2. UNCHANGED <<publishVars, calls>> => PublishTypeInv'
  BY DEF TypeInv, PublishTypeInv, publishVars
<1>3. UNCHANGED <<stream, taken>> => QueueTypeInv'
  BY DEF TypeInv, QueueTypeInv, Held
<1>4. CASE UNCHANGED vars
  <2>1. FlagTypeInv'
    BY <1>4 DEF vars, publishVars, TypeInv, FlagTypeInv
  <2> QED
    BY <1>1, <1>2, <1>3, <1>4, <2>1 DEF vars, TypeInv
<1>5. CASE (\E cs \in ConfigLists : Sync(cs)) \/ SyncLocks \/ SyncHoldsLock \/ SyncReturns
  <2>1. FlagTypeInv'
    BY <1>5, FlagTypes DEF TypeInv, Next
  <2> QED
    BY <1>2, <1>3, <1>5, <2>1, SyncFrame, SyncTypes DEF TypeInv
<1>6. CASE Publish \/ PublishLocks \/ PublishHoldsLock
  <2>1. FlagTypeInv'
    BY <1>6, FlagTypes DEF TypeInv, Next
  <2> QED
    BY <1>1, <1>3, <1>6, <2>1, PublishFrame, QueueFrame, PublishTypes, QueueTypes
       DEF TypeInv, PublishHoldsLock
<1>7. CASE \E n \in Names : Take(n)
  <2>1. FlagTypeInv'
    BY <1>7, FlagTypes DEF TypeInv, Next
  <2> QED
    BY <1>1, <1>2, <1>7, <2>1, PublishFrame, TakeFrame, QueueTypes DEF TypeInv
<1> QED
  BY <1>4, <1>5, <1>6, <1>7 DEF Next

(* For any names, capacity, calls and failures: the members and locals of    *)
(* PubSub keep their types, and no queue holds more than its capacity.       *)
THEOREM TypesKept == Spec => []TypeOK
<1>1. TypeInv => TypeOK
  <2> SUFFICES ASSUME TypeInv PROVE TypeOK
    OBVIOUS
  <2>1. /\ message \in 0 .. MaxCalls /\ calls \in 0 .. MaxCalls
        /\ failures \in 0 .. MaxFaults /\ repeats \in 0 .. MaxFaults
    BY PubSubAssumption DEF TypeInv, PublishTypeInv, SyncTypeInv
  <2> QED
    BY <2>1, Zenon
       DEF TypeOK, TypeInv, SyncTypeInv, PublishTypeInv, QueueTypeInv, FlagTypeInv
<1> QED
  BY InitTypes, NextTypes, <1>1, PTL DEF Spec

----------------------------------------------------------------------------
(* The lock *)

(* The two threads keep apart at the start.                                  *)
LEMMA InitLock == Init => LockInv
BY DEF Init, LockInv, Syncing

(* SpinLock excludes: no step of either thread, or of a subscriber, has both *)
(* threads between lock and unlock.                                          *)
LEMMA NextLock == LockInv /\ [Next]_vars => LockInv'
<1> SUFFICES ASSUME LockInv, [Next]_vars PROVE LockInv'
  OBVIOUS
<1> USE DEF LockInv, Syncing, syncVars, publishVars, Lock, Unlock
<1>1. CASE \E cs \in ConfigLists : Sync(cs)
  BY <1>1 DEF Sync
<1>2. CASE SyncLocks \/ SyncReturns
  BY <1>2 DEF SyncLocks, SyncReturns
<1>3. CASE SyncHoldsLock
  BY <1>3 DEF SyncHoldsLock, SyncRemoves, RemovesEnd, LoopEnds, SyncAdds, SyncFails,
              AddsEnd, apply_changes, SyncEnds
<1>4. CASE Publish \/ PublishLocks
  BY <1>4 DEF Publish, PublishLocks
<1>5. CASE PublishHoldsLock
  BY <1>5 DEF PublishHoldsLock, EnqueueAccepts, EnqueueRefuses, PublishReturns
<1>6. CASE \E n \in Names : Take(n)
  BY <1>6 DEF Take
<1>7. CASE UNCHANGED vars
  BY <1>7 DEF vars
<1> QED
  BY <1>1, <1>2, <1>3, <1>4, <1>5, <1>6, <1>7 DEF Next

(* The only steps that change the vector are those of apply_changes, which   *)
(* runs under the lock.                                                      *)
LEMMA VectorStable == LockInv /\ [Next]_vars => (ppc = "loop" => publishers' = publishers)
<1> SUFFICES ASSUME LockInv, [Next]_vars, ppc = "loop" PROVE publishers' = publishers
  OBVIOUS
<1>1. CASE (\E cs \in ConfigLists : Sync(cs)) \/ SyncLocks \/ SyncReturns
  BY <1>1 DEF Sync, SyncLocks, SyncReturns
<1>2. CASE SyncHoldsLock
  <2>1. Syncing
    BY <1>2, Zenon DEF Syncing, SyncHoldsLock, SyncRemoves, RemovesEnd, LoopEnds, SyncAdds,
                  SyncFails, AddsEnd, apply_changes, SyncEnds
  <2> QED
    BY <2>1 DEF LockInv
<1>3. CASE Publish \/ PublishLocks \/ PublishHoldsLock \/ \E n \in Names : Take(n)
  BY <1>3, PublishFrame
<1>4. CASE UNCHANGED vars
  BY <1>4 DEF vars
<1> QED
  BY <1>1, <1>2, <1>3, <1>4 DEF Next

(* For any configurations, failures and number of calls: while publish is in *)
(* its loop over the vector of Publishers, sync_configs does not change it.  *)
THEOREM LoopUndisturbed == Spec => StableDuringPublish
BY InitLock, NextLock, VectorStable, PTL DEF Spec, StableDuringPublish

(* The lock is held by somebody who is going to release it. *)
LockHasHolder == locked => ppc = "loop" \/ Syncing

(* The loops that sync_configs has before it until it unlocks. *)
LoopsLeft == IF spc = "remove" THEN 3 ELSE IF spc = "add" THEN 2
             ELSE IF spc = "apply" THEN 1 ELSE 0

(* The passes that are left of the loop that the holder of the lock is in. *)
PassesLeft ==
  IF ppc = "loop" THEN Len(publishers) + 1 - ppos
  ELSE IF spc = "remove" THEN Len(publishers) + 1 - spos
  ELSE IF spc = "add" THEN Len(configs) + 1 - spos
  ELSE IF spc = "apply" THEN Len(change_queue) + 1 - spos
  ELSE 0

HolderStep == SyncHoldsLock \/ PublishHoldsLock

Nearer ==
  \/ LoopsLeft' < LoopsLeft
  \/ LoopsLeft' = LoopsLeft /\ PassesLeft' < PassesLeft /\ PassesLeft' >= 0

(* Each step of the holder releases the lock or brings it nearer to that,    *)
(* and no step of anybody else sets it back.                                 *)
HolderAdvances ==
  [][/\ HolderStep => ~ locked' \/ Nearer
     /\ ~ HolderStep /\ locked => UNCHANGED <<locked, LoopsLeft, PassesLeft>>]_vars

(* Nobody holds the lock at the start.                                       *)
LEMMA InitHolder == Init => LockHasHolder
BY DEF Init, LockHasHolder

(* Every way out of sync_configs and publish unlocks.                        *)
LEMMA NextHolder == LockHasHolder /\ [Next]_vars => LockHasHolder'
<1> SUFFICES ASSUME LockHasHolder, [Next]_vars PROVE LockHasHolder'
  OBVIOUS
<1> USE DEF LockHasHolder, Syncing, syncVars, publishVars, Lock, Unlock
<1>1. CASE \E cs \in ConfigLists : Sync(cs)
  BY <1>1 DEF Sync
<1>2. CASE SyncLocks \/ SyncReturns
  BY <1>2, Zenon DEF SyncLocks, SyncReturns
<1>3. CASE SyncHoldsLock
  BY <1>3, Zenon DEF SyncHoldsLock, SyncRemoves, RemovesEnd, LoopEnds, SyncAdds, SyncFails,
              AddsEnd, apply_changes, SyncEnds
<1>4. CASE Publish \/ PublishLocks
  BY <1>4, Zenon DEF Publish, PublishLocks
<1>5. CASE PublishHoldsLock
  BY <1>5, Zenon DEF PublishHoldsLock, EnqueueAccepts, EnqueueRefuses, PublishReturns
<1>6. CASE \E n \in Names : Take(n)
  BY <1>6 DEF Take
<1>7. CASE UNCHANGED vars
  BY <1>7, Zenon DEF vars
<1> QED
  BY <1>1, <1>2, <1>3, <1>4, <1>5, <1>6, <1>7 DEF Next

(* The loops of sync_configs come to their ends one after the other.         *)
LEMMA SyncNearer ==
  ASSUME SyncTypeInv, LockInv, SyncHoldsLock
  PROVE  locked' = FALSE \/ Nearer
<1>1. /\ Len(publishers) \in Nat /\ Len(configs) \in Nat /\ Len(change_queue) \in Nat
      /\ spos \in Nat
  BY DEF SyncTypeInv
<1>2. ppc # "loop" /\ ppc' = ppc
  <2>1. Syncing
    BY Zenon DEF Syncing, SyncHoldsLock, SyncRemoves, RemovesEnd, LoopEnds, SyncAdds,
                 SyncFails, AddsEnd, apply_changes, SyncEnds
  <2>2. ppc' = ppc
    BY SyncFrame DEF publishVars
  <2> QED
    BY <2>1, <2>2 DEF LockInv
<1> USE DEF Nearer, LoopsLeft, PassesLeft
<1>3. CASE SyncRemoves
  BY <1>1, <1>2, <1>3 DEF SyncRemoves
<1>4. CASE RemovesEnd
  BY <1>4 DEF RemovesEnd, LoopEnds
<1>5. CASE SyncAdds
  BY <1>1, <1>2, <1>5 DEF SyncAdds
<1>6. CASE SyncFails \/ SyncEnds
  BY <1>6 DEF SyncFails, SyncEnds, Unlock
<1>7. CASE AddsEnd
  BY <1>7 DEF AddsEnd, LoopEnds
<1>8. CASE apply_changes
  BY <1>1, <1>2, <1>8 DEF apply_changes
<1> QED
  BY <1>3, <1>4, <1>5, <1>6, <1>7, <1>8, Zenon DEF SyncHoldsLock

(* So does the loop of publish.                                              *)
LEMMA PublishNearer ==
  ASSUME SyncTypeInv, PublishTypeInv, PublishHoldsLock
  PROVE  locked' = FALSE \/ Nearer
<1>1. Len(publishers) \in Nat /\ ppos \in Nat
  BY DEF SyncTypeInv, PublishTypeInv
<1>2. CASE EnqueueAccepts \/ EnqueueRefuses
  <2>1. /\ ppc = "loop" /\ ppc' = "loop" /\ publishers' = publishers /\ spc' = spc
        /\ ppos <= Len(publishers) /\ ppos' = ppos + 1
    BY <1>2 DEF EnqueueAccepts, EnqueueRefuses, syncVars
  <2> QED
    BY <1>1, <2>1 DEF Nearer, LoopsLeft, PassesLeft
<1>3. CASE PublishReturns
  BY <1>3 DEF PublishReturns, Unlock
<1> QED
  BY <1>2, <1>3, Zenon DEF PublishHoldsLock

(* While the lock is held, the other thread can only come to wait for it,    *)
(* or return.                                                                *)
LEMMA OthersLeave ==
  ASSUME LockHasHolder, LockInv, [Next]_vars, ~ HolderStep, locked
  PROVE  UNCHANGED <<locked, LoopsLeft, PassesLeft>>
<1> USE DEF LoopsLeft, PassesLeft, syncVars, publishVars
<1>1. CASE \E cs \in ConfigLists : Sync(cs)
  BY <1>1 DEF Sync
<1>2. CASE SyncLocks \/ PublishLocks
  BY <1>2 DEF SyncLocks, PublishLocks, Lock
<1>3. CASE SyncReturns
  BY <1>3 DEF SyncReturns
<1>4. CASE Publish
  BY <1>4 DEF Publish
<1>5. CASE \E n \in Names : Take(n)
  BY <1>5 DEF Take
<1>6. CASE UNCHANGED vars
  BY <1>6 DEF vars
<1> QED
  BY <1>1, <1>2, <1>3, <1>4, <1>5, <1>6, Zenon DEF Next, HolderStep

(* For any configurations, failures and number of calls: whenever SpinLock   *)
(* is locked, sync_configs or publish is between its lock and its unlock; no *)
(* way out of either, the early return after a failed from_config included,  *)
(* leaves it locked.                                                         *)
THEOREM LockNeverAbandoned == Spec => []LockHasHolder
BY InitHolder, NextHolder, PTL DEF Spec

(* And for vectors of any length, whatever the other thread and the          *)
(* subscribers do in between: each step of the thread that holds the lock    *)
(* unlocks it, or brings it to the next pass or the next loop, of which      *)
(* there are finitely many.                                                  *)
THEOREM LockHeldShortly == Spec => HolderAdvances
<1>1. TypeInv /\ LockInv /\ LockHasHolder /\ [Next]_vars =>
        [/\ HolderStep => ~ locked' \/ Nearer
         /\ ~ HolderStep /\ locked => UNCHANGED <<locked, LoopsLeft, PassesLeft>>]_vars
  <2> SUFFICES ASSUME TypeInv, LockInv, LockHasHolder, [Next]_vars
               PROVE  /\ HolderStep => ~ locked' \/ Nearer
                      /\ ~ HolderStep /\ locked => UNCHANGED <<locked, LoopsLeft, PassesLeft>>
    OBVIOUS
  <2>1. HolderStep => locked' = FALSE \/ Nearer
    BY SyncNearer, PublishNearer, Zenon DEF HolderStep, TypeInv
  <2>2. ~ HolderStep /\ locked => UNCHANGED <<locked, LoopsLeft, PassesLeft>>
    BY OthersLeave, Zenon
  <2> QED
    BY <2>1, <2>2, Zenon
<1> QED
  BY InitTypes, NextTypes, InitLock, NextLock, InitHolder, NextHolder, <1>1, PTL
  DEF Spec, HolderAdvances

----------------------------------------------------------------------------
(* sync_configs *)

(* There is nothing to do at the start.                                      *)
LEMMA InitQueue == Init => QueueInv /\ UniqueInv
BY DEF Init, QueueInv, UniqueInv, Syncing, IsInjective

(* The invariants, for one name while sync_configs has the lock.             *)
LEMMA QueueGives ==
  ASSUME QueueInv, Syncing, failures = 0, NEW n \in Names
  PROVE  RemovalsDue(n) /\ AdditionsDue(n)
BY DEF QueueInv

LEMMA QueueKept ==
  ASSUME Syncing', failures' = failures,
         failures = 0 => \A n \in Names : RemovalsDue(n)' /\ AdditionsDue(n)'
  PROVE  QueueInv'
<1>1. spc' # "synced"
  BY DEF Syncing
<1> QED
  BY <1>1, Zenon DEF QueueInv

LEMMA UniqueGives ==
  ASSUME UniqueInv, Syncing, failures = 0, repeats = 0
  PROVE  /\ IsInjective(configs) /\ IsInjective(publishers)
         /\ \A n \in Names : AddedOnce(n)
BY DEF UniqueInv

LEMMA UniqueKept ==
  ASSUME UNCHANGED <<configs, failures, repeats>>, Syncing, UniqueInv,
         failures = 0 /\ repeats = 0 =>
           IsInjective(publishers') /\ \A n \in Names : AddedOnce(n)'
  PROVE  UniqueInv'
BY Zenon DEF UniqueInv

(* The removals that are due stay so if neither they nor the Publishers seen *)
(* change.                                                                   *)
LEMMA RemovalsStay ==
  ASSUME NEW n, RemovalsDue(n), configs' = configs,
         Pending(Removal(n))' = Pending(Removal(n)),
         n \in Range(configs) \/ Seen(n)' = Seen(n)
  PROVE  RemovalsDue(n)'
BY DEF RemovalsDue, Removal

(* Or if they match the Publishers seen again.                               *)
LEMMA RemovalsMatch ==
  ASSUME NEW n, n \notin Range(configs), configs' = configs,
         ExistsBijection(Pending(Removal(n))', Seen(n)')
  PROVE  RemovalsDue(n)'
BY DEF RemovalsDue, Removal

(* The additions that are due after a step of apply_changes.                 *)
LEMMA AppliedDue ==
  ASSUME NEW n, spc' = "apply", configs' = configs,
         n \notin Range(configs) => Pending(Addition(n))' = {},
         n \in Range(configs) => n \in Range(publishers') \/ Pending(Addition(n))' # {}
  PROVE  AdditionsDue(n)'
BY DEF AdditionsDue, Addition

(* The first loop: one more Publisher has been seen, and noted if it is not  *)
(* in the configurations.                                                    *)
LEMMA RemovesQueue ==
  ASSUME SyncTypeInv, QueueInv, UniqueInv, SyncRemoves
  PROVE  QueueInv' /\ UniqueInv'
<1> DEFINE q == change_queue
<1>m. PICK m : m = publishers[spos]
  OBVIOUS
<1>1. /\ spc = "remove" /\ spc' = "remove"
      /\ spos \in Nat \ {0} /\ spos <= Len(publishers) /\ spos' = spos + 1
      /\ publishers \in Seq(Names) /\ q \in Seq(Changes)
      /\ q' = IF m \in Range(configs) THEN q ELSE Append(q, Removal(m))
  BY <1>m DEF SyncRemoves, SyncTypeInv
<1>u. UNCHANGED <<publishers, configs, failures, repeats>>
  BY DEF SyncRemoves
<1>2. m \in Names /\ Removal(m) \in Changes
  BY <1>m, <1>1, ChangeFacts
<1>3. Syncing /\ Syncing'
  BY <1>1 DEF Syncing
<1>4. \A x : Pending(x) = Places(q, 1, Len(q), x) /\ Pending(x)' = Places(q', 1, Len(q'), x)
  BY <1>1 DEF Pending
<1>5. \A n : /\ Seen(n) = Places(publishers, 1, spos - 1, n)
             /\ Seen(n)' = Places(publishers, 1, spos, n)
  BY <1>1, <1>u DEF Seen
<1> HIDE DEF q
<1>6. ASSUME NEW n
      PROVE  /\ m # n => Seen(n)' = Seen(n)
             /\ m = n => spos \notin Seen(n) /\ Seen(n)' = Seen(n) \cup {spos}
  <2> DEFINE hi == spos - 1
  <2>1. hi \in Nat /\ 1 <= hi + 1 /\ hi + 1 = spos
    BY <1>1
  <2> HIDE DEF hi
  <2>2. Seen(n) = Places(publishers, 1, hi, n) /\ Seen(n)' = Places(publishers, 1, hi + 1, n)
    BY <1>5, <2>1 DEF hi
  <2>3. publishers[hi + 1] = m
    BY <1>m, <2>1
  <2>4. /\ m # n => Places(publishers, 1, hi + 1, n) = Places(publishers, 1, hi, n)
        /\ m = n => Places(publishers, 1, hi + 1, n) = Places(publishers, 1, hi, n) \cup {hi + 1}
        /\ hi + 1 \notin Places(publishers, 1, hi, n)
    BY <2>1, <2>3 DEF Places
  <2> QED
    BY <2>1, <2>2, <2>4, Zenon
<1>7. ASSUME NEW x, m \in Range(configs) \/ x # Removal(m)
      PROVE  Pending(x)' = Pending(x)
  <2>1. CASE m \in Range(configs)
    BY <1>1, <1>4, <2>1
  <2>2. CASE m \notin Range(configs)
    <3>1. q' = Append(q, Removal(m)) /\ 1 <= Len(q) + 1 /\ q \in Seq(Changes)
      BY <1>1, <2>2
    <3> QED
      BY <1>2, <1>4, <1>7, <2>2, <3>1, PlacesAppend
  <2> QED
    BY <2>1, <2>2
<1>8. ASSUME m \notin Range(configs)
      PROVE  /\ Len(q) + 1 \notin Pending(Removal(m))
             /\ Pending(Removal(m))' = Pending(Removal(m)) \cup {Len(q) + 1}
  <2>1. q' = Append(q, Removal(m)) /\ 1 <= Len(q) + 1 /\ q \in Seq(Changes)
    BY <1>1, <1>8
  <2> QED
    BY <1>2, <1>4, <2>1, PlacesAppend DEF Removal
<1>9. ASSUME failures = 0, NEW n \in Names PROVE RemovalsDue(n)' /\ AdditionsDue(n)'
  <2>1. RemovalsDue(n) /\ AdditionsDue(n)
    BY <1>3, <1>9, QueueGives
  <2>2. Addition(n) # Removal(m) /\ (Removal(n) = Removal(m) <=> n = m)
    BY <1>2, ChangeFacts
  <2>3. AdditionsDue(n)'
    <3>1. Pending(Addition(n))' = Pending(Addition(n)) /\ Pending(Addition(n)) = {}
      BY <1>1, <1>7, <2>1, <2>2 DEF AdditionsDue
    <3> QED
      BY <1>1, <3>1 DEF AdditionsDue, Addition
  <2>4. CASE n \in Range(configs)
    <3>1. Pending(Removal(n))' = Pending(Removal(n)) /\ Pending(Removal(n)) = {}
      BY <1>7, <2>1, <2>2, <2>4 DEF RemovalsDue
    <3> QED
      BY <1>u, <2>3, <2>4, <3>1 DEF RemovalsDue, Removal
  <2>5. CASE n \notin Range(configs)
    <3>1. ExistsBijection(Pending(Removal(n)), Seen(n))
      BY <2>1, <2>5 DEF RemovalsDue
    <3>2. ExistsBijection(Pending(Removal(n))', Seen(n)')
      <4>1. CASE n = m
        BY <1>6, <1>8, <2>5, <3>1, <4>1, SameAdd
      <4>2. CASE n # m
        BY <1>6, <1>7, <2>2, <3>1, <4>2
      <4> QED
        BY <4>1, <4>2
    <3> QED
      BY <1>u, <2>3, <2>5, <3>2 DEF RemovalsDue, Removal
  <2> QED
    BY <2>3, <2>4, <2>5
<1>10. ASSUME failures = 0, repeats = 0, NEW n \in Names PROVE AddedOnce(n)'
  <2>1. Pending(Addition(n))' = Pending(Addition(n))
    BY <1>2, <1>7, ChangeFacts
  <2>2. AddedOnce(n)
    BY <1>3, <1>10, UniqueGives
  <2> QED
    BY <1>u, <2>1, <2>2 DEF AddedOnce, Addition
<1>11. QueueInv'
  BY <1>3, <1>u, <1>9, QueueKept
<1>12. UniqueInv'
  BY <1>3, <1>u, <1>10, UniqueGives, UniqueKept
<1> QED
  BY <1>11, <1>12

(* The second loop: one more configuration has been looked up, and is added  *)
(* if it has no Publisher.                                                   *)
LEMMA AddsQueue ==
  ASSUME SyncTypeInv, QueueInv, UniqueInv, SyncAdds
  PROVE  QueueInv' /\ UniqueInv'
<1> DEFINE q == change_queue
           Done(n) == Places(configs, 1, spos - 1, n)
<1>m. PICK m : m = configs[spos]
  OBVIOUS
<1>1. /\ spc = "add" /\ spc' = "add"
      /\ spos \in Nat \ {0} /\ spos <= Len(configs) /\ spos' = spos + 1
      /\ configs \in Seq(Names) /\ q \in Seq(Changes)
      /\ q' = IF m \in Range(publishers) THEN q ELSE Append(q, Addition(m))
  BY <1>m DEF SyncAdds, SyncTypeInv
<1>u. UNCHANGED <<publishers, configs, failures, repeats>>
  BY DEF SyncAdds
<1>2. m \in Names /\ Addition(m) \in Changes /\ m \in Range(configs)
  BY <1>m, <1>1, ChangeFacts DEF Range
<1>3. Syncing /\ Syncing'
  BY <1>1 DEF Syncing
<1>4. \A x : Pending(x) = Places(q, 1, Len(q), x) /\ Pending(x)' = Places(q', 1, Len(q'), x)
  BY <1>1 DEF Pending
<1>5. \A n : Seen(n)' = Seen(n)
  BY <1>1, <1>u DEF Seen
<1>6. \A n : Done(n)' = IF n = m THEN Done(n) \cup {spos} ELSE Done(n)
  BY <1>m, <1>1, <1>u DEF Places
<1> HIDE DEF q, Done
<1>7. ASSUME NEW x, m \in Range(publishers) \/ x # Addition(m)
      PROVE  Pending(x)' = Pending(x)
  <2>1. CASE m \in Range(publishers)
    BY <1>1, <1>4, <2>1
  <2>2. CASE m \notin Range(publishers)
    <3>1. q' = Append(q, Addition(m)) /\ 1 <= Len(q) + 1 /\ q \in Seq(Changes)
      BY <1>1, <2>2
    <3> QED
      BY <1>2, <1>4, <1>7, <2>2, <3>1, PlacesAppend
  <2> QED
    BY <2>1, <2>2
<1>8. ASSUME m \notin Range(publishers)
      PROVE  Pending(Addition(m))' = Pending(Addition(m)) \cup {Len(q) + 1}
  <2>1. q' = Append(q, Addition(m)) /\ 1 <= Len(q) + 1 /\ q \in Seq(Changes)
    BY <1>1, <1>8
  <2> QED
    BY <1>2, <1>4, <2>1, PlacesAppend DEF Addition
<1>9. ASSUME failures = 0, NEW n \in Names PROVE RemovalsDue(n)' /\ AdditionsDue(n)'
  <2>1. RemovalsDue(n) /\ AdditionsDue(n)
    BY <1>3, <1>9, QueueGives
  <2>2. Removal(n) # Addition(m) /\ (Addition(n) = Addition(m) <=> n = m)
    BY <1>2, ChangeFacts
  <2>3. RemovalsDue(n)'
    <3>1. Pending(Removal(n))' = Pending(Removal(n)) /\ Seen(n)' = Seen(n)
      BY <1>5, <1>7, <2>2
    <3> QED
      BY <1>u, <2>1, <3>1, RemovalsStay
  <2>4. /\ n \notin Range(configs) => Pending(Addition(n)) = {}
        /\ Pending(Addition(n)) # {} <=> n \notin Range(publishers) /\ Done(n) # {}
    BY <1>1, <2>1 DEF AdditionsDue, Done
  <2>5. /\ n \notin Range(configs) => Pending(Addition(n))' = {}
        /\ Pending(Addition(n))' # {} <=> n \notin Range(publishers) /\ Done(n)' # {}
    <3>1. CASE n # m
      BY <1>6, <1>7, <2>2, <2>4, <3>1
    <3>2. CASE n = m /\ n \in Range(publishers)
      BY <1>2, <1>7, <2>4, <3>2, Zenon
    <3>3. CASE n = m /\ n \notin Range(publishers)
      BY <1>2, <1>6, <1>8, <3>3, Zenon
    <3> QED
      BY <3>1, <3>2, <3>3
  <2>6. AdditionsDue(n)'
    BY <1>1, <1>u, <2>5 DEF AdditionsDue, Addition, Done
  <2> QED
    BY <2>3, <2>6
<1>10. ASSUME failures = 0, repeats = 0, NEW n \in Names PROVE AddedOnce(n)'
  <2>1. AddedOnce(n)
    BY <1>3, <1>10, UniqueGives
  <2>2. Addition(n) = Addition(m) <=> n = m
    BY <1>2, ChangeFacts
  <2>3. CASE m \in Range(publishers) \/ n # m
    BY <1>7, <1>u, <2>1, <2>2, <2>3 DEF AddedOnce, Addition
  <2>4. CASE m \notin Range(publishers) /\ n = m
    <3>1. Done(m) = {}
      <4>1. IsInjective(configs)
        BY <1>3, <1>10, UniqueGives
      <4> QED
        BY <1>m, <1>1, <4>1 DEF IsInjective, Done, Places
    <3>2. AdditionsDue(m)
      BY <1>2, <1>3, <1>10, QueueGives
    <3>3. Pending(Addition(m)) = {}
      BY <1>1, <3>1, <3>2 DEF AdditionsDue, Done
    <3>4. Pending(Addition(m))' = {Len(q) + 1}
      BY <1>8, <2>4, <3>3
    <3> QED
      BY <1>u, <2>4, <3>4 DEF AddedOnce, Addition
  <2> QED
    BY <2>3, <2>4
<1>11. QueueInv'
  BY <1>3, <1>u, <1>9, QueueKept
<1>12. UniqueInv'
  BY <1>3, <1>u, <1>10, UniqueGives, UniqueKept
<1> QED
  BY <1>11, <1>12

(* Between the loops: the next one starts with what the last one has done.   *)
LEMMA EndsQueue ==
  ASSUME SyncTypeInv, QueueInv, UniqueInv, RemovesEnd \/ AddsEnd
  PROVE  QueueInv' /\ UniqueInv'
<1>1. /\ spos \in Nat \ {0} /\ spos' = 1
      /\ publishers \in Seq(Names) /\ configs \in Seq(Names)
      /\ Len(publishers) \in Nat /\ Len(configs) \in Nat
  BY DEF RemovesEnd, AddsEnd, LoopEnds, SyncTypeInv
<1>u. UNCHANGED <<publishers, change_queue, configs, failures, repeats>>
  BY DEF RemovesEnd, AddsEnd, LoopEnds
<1>2. \/ spc = "remove" /\ spc' = "add" /\ spos = Len(publishers) + 1
      \/ spc = "add" /\ spc' = "apply" /\ spos = Len(configs) + 1
  BY DEF RemovesEnd, AddsEnd, LoopEnds, SyncTypeInv
<1>3. Syncing /\ Syncing'
  BY <1>2 DEF Syncing
<1>4. \A x : Pending(x)' = Pending(x)
  BY <1>1, <1>u, <1>2 DEF Pending
<1>5. \A n : Seen(n)' = Seen(n)
  BY <1>1, <1>u, <1>2 DEF Seen
<1>6. \A n : Places(configs', 1, spos' - 1, n) = {}
  BY <1>1 DEF Places
<1>7. ASSUME spc = "add", NEW n
      PROVE  n \in Range(configs) <=> Places(configs, 1, spos - 1, n) # {}
  <2>1. spos - 1 = Len(configs)
    BY <1>1, <1>2, <1>7
  <2> QED
    BY <1>1, <2>1, RangeFacts
<1>8. ASSUME failures = 0, NEW n \in Names PROVE RemovalsDue(n)' /\ AdditionsDue(n)'
  <2>1. RemovalsDue(n) /\ AdditionsDue(n)
    BY <1>3, <1>8, QueueGives
  <2>2. RemovalsDue(n)'
    BY <1>u, <1>4, <1>5, <2>1 DEF RemovalsDue, Removal
  <2>3. Pending(Addition(n))' = Pending(Addition(n))
    BY <1>4
  <2>4. CASE spc = "remove"
    <3>1. Pending(Addition(n))' = {} /\ spc' = "add"
      BY <1>2, <2>1, <2>3, <2>4 DEF AdditionsDue
    <3> QED
      BY <1>6, <2>2, <3>1 DEF AdditionsDue, Addition
  <2>5. CASE spc = "add"
    <3>1. spc' = "apply"
      BY <1>2, <2>5
    <3>2. n \in Range(configs) => n \in Range(publishers) \/ Pending(Addition(n)) # {}
      BY <1>7, <2>1, <2>5 DEF AdditionsDue
    <3>3. n \notin Range(configs) => Pending(Addition(n)) = {}
      BY <2>1 DEF AdditionsDue
    <3> QED
      BY <1>u, <2>2, <2>3, <3>1, <3>2, <3>3 DEF AdditionsDue, Addition
  <2> QED
    BY <1>2, <2>4, <2>5
<1>9. ASSUME failures = 0, repeats = 0, NEW n \in Names PROVE AddedOnce(n)'
  <2>1. AddedOnce(n)
    BY <1>3, <1>9, UniqueGives
  <2> QED
    BY <1>u, <1>4, <2>1 DEF AddedOnce, Addition
<1>10. QueueInv'
  BY <1>3, <1>u, <1>8, QueueKept
<1>11. UniqueInv'
  BY <1>3, <1>u, <1>9, UniqueGives, UniqueKept
<1> QED
  BY <1>10, <1>11

(* A step of apply_changes, whatever the change: one fewer is pending.       *)
LEMMA ApplyFacts ==
  ASSUME SyncTypeInv, apply_changes
  PROVE  /\ spc = "apply" /\ spc' = "apply" /\ Syncing /\ Syncing'
         /\ spos \in 1 .. Len(change_queue) /\ change_queue[spos] \in Changes
         /\ publishers \in Seq(Names) /\ configs \in Seq(Names)
         /\ UNCHANGED <<configs, failures, repeats>>
         /\ \A n : /\ Seen(n) = Places(publishers, 1, Len(publishers), n)
                   /\ Seen(n)' = Places(publishers', 1, Len(publishers'), n)
         /\ \A x : /\ x # change_queue[spos] => Pending(x)' = Pending(x)
                   /\ x = change_queue[spos] =>
                        spos \in Pending(x) /\ Pending(x)' = Pending(x) \ {spos}
<1>1. /\ spc = "apply" /\ spc' = "apply"
      /\ spos \in Nat \ {0} /\ spos <= Len(change_queue) /\ spos' = spos + 1
      /\ change_queue \in Seq(Changes)
  BY DEF apply_changes, SyncTypeInv
<1>2. /\ UNCHANGED <<change_queue, configs, failures, repeats>>
      /\ publishers \in Seq(Names) /\ configs \in Seq(Names)
  BY DEF apply_changes, SyncTypeInv
<1>3. Syncing /\ Syncing'
  BY <1>1 DEF Syncing
<1>4. spos \in Nat /\ Len(change_queue) \in Nat /\ change_queue[spos] \in Changes
  BY <1>1
<1>5. \A n : /\ Seen(n) = Places(publishers, 1, Len(publishers), n)
             /\ Seen(n)' = Places(publishers', 1, Len(publishers'), n)
  BY <1>1 DEF Seen
<1>6. ASSUME NEW x
      PROVE  /\ x # change_queue[spos] => Pending(x)' = Pending(x)
             /\ x = change_queue[spos] =>
                  spos \in Pending(x) /\ Pending(x)' = Pending(x) \ {spos}
  <2>1. /\ Pending(x) = Places(change_queue, spos, Len(change_queue), x)
        /\ Pending(x)' = Places(change_queue, spos + 1, Len(change_queue), x)
    BY <1>1, <1>2 DEF Pending
  <2> QED
    BY <1>1, <1>4, <2>1, PlacesRest
<1> QED
  BY <1>1, <1>2, <1>3, <1>4, <1>5, <1>6

(* push_back of a name that is not there leaves no name twice.               *)
LEMMA AppendInjective ==
  ASSUME NEW S, NEW q \in Seq(S), NEW x \in S, IsInjective(q), x \notin Range(q)
  PROVE  IsInjective(Append(q, x))
<1> DEFINE r == Append(q, x)
<1>1. \A i \in 1 .. Len(q) : q[i] # x
  BY RangeFacts
<1>2. /\ Len(q) \in Nat
      /\ DOMAIN r = 1 .. Len(q) + 1 /\ r[Len(q) + 1] = x
      /\ \A i \in 1 .. Len(q) : r[i] = q[i]
  BY AppendFacts
<1>3. \A i, j \in 1 .. Len(q) : q[i] = q[j] => i = j
  BY DEF IsInjective
<1> HIDE DEF r
<1>4. \A i, j \in 1 .. Len(q) + 1 : r[i] = r[j] => i = j
  BY <1>1, <1>2, <1>3
<1>5. IsInjective(r)
  BY <1>2, <1>4 DEF IsInjective
<1> QED
  BY <1>5 DEF r

(* apply_change of an addition: a configuration that had no Publisher gets   *)
(* one, at the end of the vector.                                            *)
LEMMA AdditionQueue ==
  ASSUME SyncTypeInv, QueueInv, UniqueInv, apply_changes,
         change_queue[spos].kind = "addition"
  PROVE  QueueInv' /\ UniqueInv'
<1> DEFINE c == change_queue[spos]
<1>1. /\ spc = "apply" /\ spc' = "apply" /\ Syncing /\ Syncing'
      /\ publishers \in Seq(Names) /\ Len(publishers) \in Nat
      /\ UNCHANGED <<configs, failures, repeats>>
  <2>1. /\ spc = "apply" /\ spc' = "apply" /\ Syncing /\ Syncing'
        /\ publishers \in Seq(Names)
        /\ UNCHANGED <<configs, failures, repeats>>
    BY ApplyFacts, Zenon
  <2>2. Len(publishers) \in Nat
    BY ONLY <2>1
  <2> QED
    BY <2>1, <2>2, Zenon
<1>2. PICK m \in Names : c = Addition(m) /\ m = c.name
  BY ApplyFacts, ChangeIs
<1>3. publishers' = Append(publishers, m)
  BY <1>2 DEF apply_changes, apply_change
<1>4. \A x : /\ x # c => Pending(x)' = Pending(x)
             /\ x = c => spos \in Pending(x) /\ Pending(x)' = Pending(x) \ {spos}
  BY ApplyFacts
<1>5. \A n : /\ Seen(n) = Places(publishers, 1, Len(publishers), n)
             /\ Seen(n)' = Places(publishers', 1, Len(publishers'), n)
  BY ApplyFacts
<1> HIDE DEF c
<1>6. ASSUME NEW n, n # m PROVE Seen(n)' = Seen(n)
  <2>1. 1 <= Len(publishers) + 1
    BY <1>1
  <2>2. Seen(n)' = Seen(n)
    <3>1. Places(Append(publishers, m), 1, Len(Append(publishers, m)), n)
            = Places(publishers, 1, Len(publishers), n)
      BY <1>1, <1>2, <1>6, <2>1, PlacesAppend
    <3> QED
      BY <1>3, <1>5, <3>1, Zenon
  <2> QED
    BY <2>2
<1>7. \A n : n \in Range(publishers') <=> n \in Range(publishers) \/ n = m
  BY <1>1, <1>2, <1>3, AppendSet
<1>8. ASSUME NEW n \in Names
      PROVE  /\ Pending(Removal(n))' = Pending(Removal(n))
             /\ n # m => Pending(Addition(n))' = Pending(Addition(n))
  <2>1. Removal(n) # c /\ (n # m => Addition(n) # c)
    BY <1>2, ChangeFacts
  <2> QED
    BY <1>4, <2>1
<1>9. spos \in Pending(Addition(m)) /\ Pending(Addition(m))' = Pending(Addition(m)) \ {spos}
  BY <1>2, <1>4 DEF Addition
<1>10. ASSUME failures = 0, NEW n \in Names PROVE RemovalsDue(n)' /\ AdditionsDue(n)'
  <2>1. RemovalsDue(n) /\ AdditionsDue(n)
    BY <1>1, <1>10, QueueGives
  <2>2. n = m => n \in Range(configs)
    BY <1>9, <2>1 DEF AdditionsDue
  <2>3. RemovalsDue(n)'
    <3>1. n \in Range(configs) \/ Seen(n)' = Seen(n)
      BY <1>6, <2>2, Zenon
    <3> QED
      BY <1>1, <1>8, <2>1, <3>1, RemovalsStay
  <2>4. n \notin Range(configs) => Pending(Addition(n))' = {}
    BY <1>8, <2>1, <2>2 DEF AdditionsDue
  <2>5. n \in Range(configs) => n \in Range(publishers') \/ Pending(Addition(n))' # {}
    BY <1>1, <1>7, <1>8, <2>1 DEF AdditionsDue
  <2>6. AdditionsDue(n)'
    BY <1>1, <2>4, <2>5, AppliedDue
  <2> QED
    BY <2>3, <2>6
<1>11. ASSUME failures = 0, repeats = 0
       PROVE  IsInjective(publishers') /\ \A n \in Names : AddedOnce(n)'
  <2>1. IsInjective(publishers) /\ \A n \in Names : AddedOnce(n)
    BY <1>1, <1>11, UniqueGives
  <2>2. m \notin Range(publishers) /\ Pending(Addition(m))' = {}
    BY <1>9, <2>1 DEF AddedOnce
  <2>3. ASSUME NEW n \in Names PROVE AddedOnce(n)'
    <3>1. CASE n = m
      BY <2>2, <3>1 DEF AddedOnce, Addition
    <3>2. CASE n # m
      <4>1. AddedOnce(n) /\ Pending(Addition(n))' = Pending(Addition(n))
        BY <1>8, <2>1, <3>2
      <4> QED
        BY <1>7, <3>2, <4>1 DEF AddedOnce, Addition
    <3> QED
      BY <3>1, <3>2
  <2>4. IsInjective(publishers')
    BY <1>1, <1>2, <1>3, <2>1, <2>2, AppendInjective
  <2> QED
    BY <2>3, <2>4
<1>12. QueueInv'
  BY <1>1, <1>10, QueueKept
<1>13. UniqueInv'
  BY <1>1, <1>11, UniqueKept
<1> QED
  BY <1>12, <1>13

(* erase keeps all other names, and leaves no name twice that was not.       *)
LEMMA EraseSet ==
  ASSUME NEW S, NEW q \in Seq(S), NEW i \in 1 .. Len(q)
  PROVE  /\ \A x : x # q[i] => (x \in Range(erase(q, i)) <=> x \in Range(q))
         /\ IsInjective(q) => IsInjective(erase(q, i))
<1> DEFINE r == erase(q, i)
           At(k) == IF k < i THEN k ELSE k + 1
<1>1. r \in Seq(S) /\ Len(q) \in Nat /\ Len(r) = Len(q) - 1
  BY EraseFacts
<1>2. /\ \A k \in 1 .. i - 1 : r[k] = q[k]
      /\ \A k \in i .. Len(q) - 1 : r[k] = q[k + 1]
  BY EraseFacts
<1> HIDE DEF r
<1>3. \A k \in 1 .. Len(r) : At(k) \in 1 .. Len(q) /\ r[k] = q[At(k)]
  BY <1>1, <1>2
<1>4. \A k, l \in 1 .. Len(r) : At(k) = At(l) => k = l
  OBVIOUS
<1>5. ASSUME NEW l \in 1 .. Len(q), l # i PROVE \E k \in 1 .. Len(r) : l = At(k)
  <2>1. CASE l < i
    <3>1. l \in 1 .. Len(r) /\ l = At(l)
      BY <1>1, <2>1
    <3> QED
      BY <3>1
  <2>2. CASE l > i
    <3>1. l - 1 \in 1 .. Len(r) /\ l = At(l - 1)
      BY <1>1, <2>2
    <3> QED
      BY <3>1
  <2> QED
    BY <1>5, <2>1, <2>2
<1> HIDE DEF At
<1>6. ASSUME NEW x, x # q[i] PROVE x \in Range(r) <=> x \in Range(q)
  <2>1. (\E k \in 1 .. Len(r) : r[k] = x) <=> (\E l \in 1 .. Len(q) : q[l] = x)
    <3>1. ASSUME NEW k \in 1 .. Len(r), r[k] = x PROVE \E l \in 1 .. Len(q) : q[l] = x
      BY <1>3, <3>1, Zenon
    <3>2. ASSUME NEW l \in 1 .. Len(q), q[l] = x PROVE \E k \in 1 .. Len(r) : r[k] = x
      <4>1. PICK k \in 1 .. Len(r) : l = At(k)
        BY <1>5, <1>6, <3>2, Zenon
      <4> QED
        BY <1>3, <3>2, <4>1, Zenon
    <3> QED
      BY <3>1, <3>2, Zenon
  <2> QED
    BY <1>1, <2>1, RangeFacts
<1>7. ASSUME IsInjective(q) PROVE IsInjective(r)
  <2>1. \A k, l \in 1 .. Len(q) : q[k] = q[l] => k = l
    BY <1>7 DEF IsInjective
  <2>2. \A k, l \in 1 .. Len(r) : r[k] = r[l] => k = l
    BY <1>3, <1>4, <2>1
  <2> QED
    BY <1>1, <2>2 DEF IsInjective
<1> QED
  BY <1>6, <1>7 DEF r

(* apply_change of a removal: there is a Publisher of that name, which is    *)
(* not in the configurations, and the first one is erased.                   *)
LEMMA RemovalQueue ==
  ASSUME SyncTypeInv, QueueInv, UniqueInv, apply_changes, failures = 0,
         change_queue[spos].kind = "removal"
  PROVE  QueueInv' /\ UniqueInv'
<1> DEFINE c == change_queue[spos]
<1>m. PICK m : m = c.name
  OBVIOUS
<1>1. /\ spc = "apply" /\ spc' = "apply" /\ Syncing /\ Syncing'
      /\ publishers \in Seq(Names)
      /\ UNCHANGED <<configs, failures, repeats>>
  BY ApplyFacts
<1>2. \/ \E i \in 1 .. Len(publishers) :
           publishers[i] = m /\ publishers' = erase(publishers, i)
      \/ m \notin Range(publishers)
  BY <1>m DEF apply_changes, apply_change, IsFirst
<1>3. c = Removal(m) /\ m \in Names
  BY <1>m, ApplyFacts, ChangeIs
<1>4. \A x : /\ x # c => Pending(x)' = Pending(x)
             /\ x = c => spos \in Pending(x) /\ Pending(x)' = Pending(x) \ {spos}
  BY ApplyFacts
<1>5. \A n : /\ Seen(n) = Places(publishers, 1, Len(publishers), n)
             /\ Seen(n)' = Places(publishers', 1, Len(publishers'), n)
  BY ApplyFacts
<1> HIDE DEF c
<1>6. /\ spos \in Pending(Removal(m))
      /\ Pending(Removal(m))' = Pending(Removal(m)) \ {spos}
  BY <1>3, <1>4 DEF Removal
<1>7. m \notin Range(configs) /\ ExistsBijection(Pending(Removal(m)), Seen(m))
  <2>1. RemovalsDue(m)
    BY <1>1, <1>3, QueueGives
  <2> QED
    BY <1>6, <2>1 DEF RemovalsDue
<1>8. Seen(m) # {}
  <2>1. PICK f \in [Pending(Removal(m)) -> Seen(m)] : TRUE
    BY <1>7, BijectionIs
  <2> QED
    BY <1>6, <2>1
<1>9. m \in Range(publishers)
  BY <1>1, <1>5, <1>8, RangeFacts
<1>10. PICK i \in 1 .. Len(publishers) :
         publishers[i] = m /\ publishers' = erase(publishers, i)
  BY <1>2, <1>9
<1>11. ASSUME NEW n PROVE ExistsBijection(Seen(n) \ {i}, Seen(n)')
  BY <1>1, <1>5, <1>10, PlacesErase
<1>12. i \in Seen(m) /\ \A n : n # m => Seen(n) \ {i} = Seen(n)
  BY <1>5, <1>10 DEF Places
<1>13. /\ \A n : n # m => (n \in Range(publishers') <=> n \in Range(publishers))
       /\ IsInjective(publishers) => IsInjective(publishers')
  BY <1>1, <1>10, EraseSet
<1>14. ASSUME NEW n \in Names
       PROVE  /\ n # m => Pending(Removal(n))' = Pending(Removal(n))
              /\ Pending(Addition(n))' = Pending(Addition(n))
  <2>1. Addition(n) # c /\ (n # m => Removal(n) # c)
    BY <1>3, ChangeFacts
  <2> QED
    BY <1>4, <2>1
<1>15. ASSUME NEW n \in Names PROVE RemovalsDue(n)' /\ AdditionsDue(n)'
  <2>1. RemovalsDue(n) /\ AdditionsDue(n)
    BY <1>1, QueueGives
  <2>2. RemovalsDue(n)'
    <3>1. CASE n = m
      <4>1. ExistsBijection(Pending(Removal(m)) \ {spos}, Seen(m) \ {i})
        BY <1>6, <1>7, <1>12, SameRemove, Zenon
      <4>2. ExistsBijection(Pending(Removal(m)) \ {spos}, Seen(m)')
        BY <1>11, <4>1, SameAsSame, Zenon
      <4> QED
        BY <1>1, <1>6, <1>7, <3>1, <4>2, RemovalsMatch, Zenon
    <3>2. CASE n # m /\ n \in Range(configs)
      BY <1>1, <1>14, <2>1, <3>2, RemovalsStay, Zenon
    <3>3. CASE n # m /\ n \notin Range(configs)
      <4>1. ExistsBijection(Pending(Removal(n)), Seen(n)) /\ ExistsBijection(Seen(n), Seen(n)')
        BY <1>11, <1>12, <2>1, <3>3 DEF RemovalsDue
      <4>2. ExistsBijection(Pending(Removal(n)), Seen(n)')
        BY <4>1, SameAsSame
      <4> QED
        BY <1>1, <1>14, <3>3, <4>2, RemovalsMatch, Zenon
    <3> QED
      BY <3>1, <3>2, <3>3
  <2>3. n \notin Range(configs) => Pending(Addition(n))' = {}
    BY <1>14, <2>1 DEF AdditionsDue
  <2>4. n \in Range(configs) => n \in Range(publishers') \/ Pending(Addition(n))' # {}
    BY <1>1, <1>7, <1>13, <1>14, <2>1 DEF AdditionsDue
  <2>5. AdditionsDue(n)'
    BY <1>1, <2>3, <2>4, AppliedDue
  <2> QED
    BY <2>2, <2>5
<1>16. ASSUME repeats = 0
       PROVE  IsInjective(publishers') /\ \A n \in Names : AddedOnce(n)'
  <2>1. IsInjective(publishers) /\ \A n \in Names : AddedOnce(n)
    BY <1>1, <1>16, UniqueGives
  <2>2. ASSUME NEW n \in Names PROVE AddedOnce(n)'
    <3>1. CASE n = m
      <4>1. AdditionsDue(m)
        BY <1>1, <1>3, QueueGives
      <4>2. Pending(Addition(m))' = {}
        BY <1>3, <1>7, <1>14, <4>1 DEF AdditionsDue
      <4> QED
        BY <3>1, <4>2 DEF AddedOnce, Addition
    <3>2. CASE n # m
      <4>1. AddedOnce(n)
        BY <2>1
      <4> QED
        BY <1>13, <1>14, <3>2, <4>1 DEF AddedOnce, Addition
    <3> QED
      BY <3>1, <3>2
  <2> QED
    BY <1>13, <2>1, <2>2
<1>17. QueueInv'
  BY <1>1, <1>15, QueueKept
<1>18. UniqueInv'
  BY <1>1, <1>16, UniqueKept
<1> QED
  BY <1>17, <1>18

(* When all changes are applied, the Publishers are those of the             *)
(* configurations.                                                           *)
LEMMA EndQueue ==
  ASSUME SyncTypeInv, QueueInv, UniqueInv, SyncEnds
  PROVE  QueueInv' /\ UniqueInv'
<1>1. /\ spc = "apply" /\ spc' = "synced" /\ change_queue' = <<>>
      /\ spos \in Nat /\ spos > Len(change_queue) /\ Len(change_queue) \in Nat
      /\ publishers \in Seq(Names) /\ configs \in Seq(Names)
  BY DEF SyncEnds, SyncTypeInv
<1>u. UNCHANGED <<publishers, configs, failures, repeats>>
  BY DEF SyncEnds
<1>2. Syncing /\ ~ Syncing'
  BY <1>1 DEF Syncing
<1>3. \A x : Pending(x) = {}
  BY <1>1 DEF Pending, Places
<1>4. ASSUME failures = 0, NEW n \in Names
      PROVE  n \in Range(publishers) <=> n \in Range(configs)
  <2>1. RemovalsDue(n) /\ AdditionsDue(n)
    BY <1>2, <1>4, QueueGives
  <2>2. CASE n \in Range(configs)
    BY <1>1, <1>3, <2>1, <2>2 DEF AdditionsDue
  <2>3. CASE n \notin Range(configs)
    <3>1. Seen(n) = {}
      BY <1>3, <2>1, <2>3, SameEmpty DEF RemovalsDue
    <3>2. Seen(n) = Places(publishers, 1, Len(publishers), n)
      BY <1>1 DEF Seen
    <3> QED
      BY <1>1, <2>3, <3>1, <3>2, RangeFacts
  <2> QED
    BY <2>2, <2>3
<1>5. Range(publishers) \subseteq Names /\ Range(configs) \subseteq Names
  BY <1>1 DEF Range
<1>6. failures = 0 => Range(publishers) = Range(configs)
  BY <1>4, <1>5
<1>7. QueueInv'
  BY <1>1, <1>u, <1>2, <1>6, Zenon DEF QueueInv
<1>8. UniqueInv'
  BY <1>u, <1>2, Zenon DEF UniqueInv
<1> QED
  BY <1>7, <1>8

(* Every step keeps the changes in the queue right.                          *)
LEMMA NextQueue == TypeInv /\ QueueInv /\ UniqueInv /\ [Next]_vars => QueueInv' /\ UniqueInv'
<1> SUFFICES ASSUME TypeInv, QueueInv, UniqueInv, [Next]_vars
             PROVE  QueueInv' /\ UniqueInv'
  OBVIOUS
<1>0. SyncTypeInv
  BY DEF TypeInv
<1>1. ASSUME UNCHANGED <<publishers, change_queue, syncVars, failures, repeats>>
      PROVE  QueueInv' /\ UniqueInv'
  <2>1. /\ UNCHANGED <<publishers, change_queue, spc, configs, spos, failures, repeats>>
        /\ Syncing' = Syncing
        /\ \A x : Pending(x)' = Pending(x) /\ Seen(x)' = Seen(x)
    BY <1>1 DEF syncVars, Syncing, Pending, Seen
  <2>2. \A n \in Names : /\ RemovalsDue(n)' = RemovalsDue(n)
                         /\ AdditionsDue(n)' = AdditionsDue(n)
                         /\ AddedOnce(n)' = AddedOnce(n)
    BY <2>1 DEF RemovalsDue, AdditionsDue, AddedOnce, Removal, Addition
  <2>3. QueueInv'
    BY <2>1, <2>2, Zenon DEF QueueInv
  <2>4. UniqueInv'
    BY <2>1, <2>2, Zenon DEF UniqueInv
  <2> QED
    BY <2>3, <2>4
<1>2. ASSUME NEW cs \in ConfigLists, Sync(cs)
      PROVE  QueueInv' /\ UniqueInv'
  <2>1. /\ spc = "idle" /\ spc' = "lock" /\ configs' = cs
        /\ UNCHANGED <<publishers, change_queue, failures>>
        /\ repeats' = IF IsInjective(cs) THEN repeats ELSE repeats + 1
        /\ repeats \in Nat
    BY <1>0, <1>2 DEF Sync, SyncTypeInv
  <2>2. ~ Syncing /\ ~ Syncing'
    BY <2>1 DEF Syncing
  <2>3. QueueInv'
    BY <2>1, <2>2 DEF QueueInv
  <2>4. repeats' = 0 => repeats = 0 /\ IsInjective(cs)
    BY <2>1
  <2>5. UniqueInv'
    BY <2>1, <2>2, <2>4 DEF UniqueInv
  <2> QED
    BY <2>3, <2>5
<1>3. CASE SyncLocks
  <2>1. /\ spc = "lock" /\ spc' = "remove" /\ spos = 1
        /\ UNCHANGED <<publishers, change_queue, configs, spos, failures, repeats>>
    BY <1>0, <1>3 DEF SyncLocks, SyncTypeInv
  <2>2. ~ Syncing /\ Syncing'
    BY <2>1 DEF Syncing
  <2>3. ASSUME failures = 0, NEW x PROVE Pending(x)' = {} /\ Seen(x)' = {}
    BY <2>1, <2>2, <2>3 DEF QueueInv, Pending, Seen, Places
  <2>4. ASSUME failures = 0, NEW n \in Names PROVE RemovalsDue(n)' /\ AdditionsDue(n)'
    <3>1. RemovalsDue(n)'
      BY <2>3, <2>4, SameEmpty DEF RemovalsDue, Removal
    <3>2. AdditionsDue(n)'
      BY <2>1, <2>3, <2>4 DEF AdditionsDue, Addition
    <3> QED
      BY <3>1, <3>2
  <2>5. QueueInv'
    BY <2>1, <2>2, <2>4, QueueKept
  <2>6. ASSUME failures = 0, NEW n \in Names PROVE AddedOnce(n)'
    BY <2>3, <2>6 DEF AddedOnce, Addition
  <2>7. UniqueInv'
    BY <2>1, <2>6, Zenon DEF UniqueInv
  <2> QED
    BY <2>5, <2>7
<1>4. CASE apply_changes
  <2>1. change_queue[spos].kind \in {"addition", "removal"}
    BY <1>0, <1>4, ChangeIs DEF SyncTypeInv, apply_changes
  <2>2. failures' = failures /\ failures \in Nat
    BY <1>0, <1>4 DEF SyncTypeInv, apply_changes
  <2>3. CASE failures # 0
    BY <2>2, <2>3 DEF QueueInv, UniqueInv
  <2> QED
    BY <1>0, <1>4, <2>1, <2>3, AdditionQueue, RemovalQueue
<1>5. CASE SyncFails
  <2>1. failures' # 0
    BY <1>0, <1>5 DEF SyncFails, SyncTypeInv
  <2> QED
    BY <2>1 DEF QueueInv, UniqueInv
<1>6. CASE SyncReturns
  <2>1. /\ spc \in {"failed", "synced"} /\ spc' = "idle" /\ configs' = <<>>
        /\ UNCHANGED <<publishers, change_queue, failures, repeats>>
    BY <1>6 DEF SyncReturns
  <2>2. ~ Syncing /\ ~ Syncing'
    BY <2>1 DEF Syncing
  <2>3. QueueInv'
    BY <2>1, <2>2 DEF QueueInv
  <2>4. UniqueInv'
    BY <2>1, <2>2 DEF UniqueInv, IsInjective
  <2> QED
    BY <2>3, <2>4
<1>7. CASE Publish \/ PublishLocks \/ PublishHoldsLock \/ \E n \in Names : Take(n)
  BY <1>1, <1>7, PublishFrame
<1>8. CASE UNCHANGED vars
  BY <1>1, <1>8 DEF vars
<1> QED
  BY <1>0, <1>2, <1>3, <1>4, <1>5, <1>6, <1>7, <1>8,
     RemovesQueue, EndsQueue, AddsQueue, EndQueue DEF Next, SyncHoldsLock

(* For any names, any sequence of configurations and whatever is published   *)
(* in between: after a sync_configs that succeeds, the Publishers are those  *)
(* of the configurations, each once unless a vector has named one twice, as  *)
(* long as no earlier call has failed halfway.                               *)
THEOREM SyncLeavesConfigs == Spec => []SyncMatchesUnlessFailed
<1>1. QueueInv /\ UniqueInv /\ TypeInv => SyncMatchesUnlessFailed
  BY DEF QueueInv, UniqueInv, TypeInv, SyncTypeInv, SyncMatchesUnlessFailed, SyncMatches
<1> QED
  BY InitTypes, NextTypes, InitQueue, NextQueue, <1>1, PTL DEF Spec

----------------------------------------------------------------------------
(* publish *)

(* What enqueue does to the queues.                                          *)
LEMMA AcceptFacts ==
  ASSUME TypeInv, EnqueueAccepts
  PROVE  /\ ppc = "loop" /\ ppos \in 1 .. Len(publishers) /\ ppos' = ppos + 1
         /\ publishers[ppos] \in Names
         /\ UNCHANGED <<publishers, ppc, message, published>>
BY DEF EnqueueAccepts, TypeInv, SyncTypeInv, PublishTypeInv

(* The message is at the end of that queue, and of no other.                 *)
LEMMA AcceptQueue ==
  ASSUME TypeInv, EnqueueAccepts
  PROVE  /\ \A n \in Names : n # publishers[ppos] => stream'[n] = stream[n]
         /\ LET q == stream[publishers[ppos]]
                r == stream'[publishers[ppos]]
            IN  /\ Len(q) \in Nat /\ Len(r) = Len(q) + 1
                /\ r[Len(q) + 1] = message
                /\ \A k \in 1 .. Len(q) : r[k] = q[k]
<1> DEFINE name == publishers[ppos]
           q == stream[name]
<1>1. /\ ppc = "loop"
      /\ stream' = [stream EXCEPT ![name] = Append(q, message)]
  BY DEF EnqueueAccepts
<1>2. name \in Names
  BY AcceptFacts
<1>3. message \in 1 .. MaxCalls
  BY <1>1, PubSubAssumption DEF TypeInv, PublishTypeInv
<1>4. stream \in [Names -> Seq(1 .. MaxCalls)]
  BY DEF TypeInv, QueueTypeInv
<1> HIDE DEF name, q
<1>5. /\ stream'[name] = Append(q, message)
      /\ \A n \in Names : n # name => stream'[n] = stream[n]
      /\ q \in Seq(1 .. MaxCalls)
  BY <1>1, <1>2, <1>4 DEF q
<1>6. /\ Len(q) \in Nat /\ Len(stream'[name]) = Len(q) + 1
      /\ stream'[name][Len(q) + 1] = message
      /\ \A k \in 1 .. Len(q) : stream'[name][k] = q[k]
  BY <1>3, <1>5, AppendFacts
<1> QED
  BY <1>5, <1>6, Zenon DEF name, q

(* The first call of publish is yet to come.                                 *)
LEMMA InitReach == Init => ReachInv
BY DEF Init, ReachInv

(* publish counts a Publisher as passed only with the message in its queue,  *)
(* or with published false; nothing else touches the vector or takes the     *)
(* message back.                                                             *)
LEMMA NextReach == TypeInv /\ LockInv /\ ReachInv /\ [Next]_vars => ReachInv'
<1> SUFFICES ASSUME TypeInv, LockInv, ReachInv, [Next]_vars
             PROVE  ReachInv'
  OBVIOUS
<1>1. CASE UNCHANGED <<publishers, publishVars, stream>>
  BY <1>1, Zenon DEF ReachInv, Has, publishVars
<1>2. CASE (\E cs \in ConfigLists : Sync(cs)) \/ SyncLocks \/ SyncHoldsLock \/ SyncReturns
  <2>1. UNCHANGED <<publishVars, stream>>
    BY <1>2, SyncFrame
  <2>2. ppc = "loop" => publishers' = publishers
    BY <1>2, VectorStable DEF Next
  <2>3. UNCHANGED <<ppc, ppos, message, published, stream>>
    BY <2>1, Zenon DEF publishVars
  <2> QED
    BY <2>2, <2>3 DEF ReachInv
<1>3. CASE Publish \/ PublishLocks
  <2>1. CASE Publish
    BY <2>1 DEF ReachInv, Publish
  <2>2. CASE PublishLocks
    BY <2>2 DEF ReachInv, PublishLocks
  <2> QED
    BY <1>3, <2>1, <2>2, Zenon
<1>4. CASE EnqueueAccepts
  <2> DEFINE name == publishers[ppos]
  <2>1. ASSUME published, NEW i \in 1 .. Len(publishers), i < ppos + 1
        PROVE  Has(stream'[publishers[i]], message)
    <3>1. publishers[i] \in Names
      BY DEF TypeInv, SyncTypeInv
    <3>2. CASE publishers[i] = name
      <4>1. /\ Len(stream'[name]) \in Nat /\ Len(stream'[name]) >= 1
            /\ stream'[name][Len(stream'[name])] = message
        BY <1>4, AcceptQueue
      <4> QED
        BY <3>2, <4>1 DEF Has
    <3>3. CASE publishers[i] # name
      <4>1. stream'[publishers[i]] = stream[publishers[i]]
        BY <1>4, <3>1, <3>3, AcceptQueue
      <4>2. i < ppos
        BY <1>4, <2>1, <3>3, AcceptFacts
      <4>3. Has(stream[publishers[i]], message)
        BY <1>4, <2>1, <4>2, AcceptFacts DEF ReachInv
      <4> QED
        BY <4>1, <4>3
    <3> QED
      BY <3>2, <3>3
  <2>2. /\ ppc' = "loop" /\ ppos' = ppos + 1
        /\ UNCHANGED <<publishers, message, published>>
    BY <1>4, AcceptFacts
  <2> QED
    BY <2>1, <2>2 DEF ReachInv
<1>5. CASE EnqueueRefuses \/ PublishReturns
  BY <1>5 DEF ReachInv, EnqueueRefuses, PublishReturns
<1>6. CASE \E n \in Names : Take(n)
  BY <1>1, <1>6, PublishFrame, TakeFrame
<1>7. CASE UNCHANGED vars
  BY <1>1, <1>7 DEF vars
<1> QED
  BY <1>2, <1>3, <1>4, <1>5, <1>6, <1>7 DEF Next, PublishHoldsLock

(* When publish is about to return true, each Publisher's queue has accepted *)
(* the message: for any names, capacity, failures and number of calls.       *)
THEOREM TrueMeansAll == Spec => []PublishedReachesAll
<1>1. TypeInv /\ ReachInv => PublishedReachesAll
  <2> SUFFICES ASSUME TypeInv, ReachInv, ppc = "loop",
                      ppos > Len(publishers), published, NEW n \in Range(publishers)
               PROVE  message \in Range(stream[n])
    BY DEF PublishedReachesAll
  <2>1. publishers \in Seq(Names) /\ stream \in [Names -> Seq(1 .. MaxCalls)]
    BY DEF TypeInv, SyncTypeInv, QueueTypeInv
  <2>2. PICK i \in 1 .. Len(publishers) : publishers[i] = n
    BY <2>1 DEF Range
  <2>3. ppos \in Nat
    BY DEF TypeInv, PublishTypeInv
  <2>4. n \in Names /\ stream[n] \in Seq(1 .. MaxCalls)
    BY <2>1, <2>2
  <2>5. Has(stream[n], message)
    BY <2>1, <2>2, <2>3 DEF ReachInv
  <2> QED
    BY <2>4, <2>5 DEF Has, Range
<1> QED
  BY InitTypes, NextTypes, InitLock, NextLock, InitReach, NextReach, <1>1, PTL DEF Spec

(* No queue has a message yet.                                               *)
LEMMA InitOrder == Init => OrderInv
BY DEF Init, OrderInv, Ordered, Increasing, Below

(* The histories of retries, failures and repeated names only grow.          *)
LEMMA HistoryGrows ==
  ASSUME TypeInv, [Next]_vars
  PROVE  /\ failures' = 0 => failures = 0
         /\ repeats' = 0 => repeats = 0
         /\ ~ retried' => ~ retried
<1>1. failures \in Nat /\ repeats \in Nat
  BY DEF TypeInv, SyncTypeInv
<1>2. CASE \E cs \in ConfigLists : Sync(cs)
  BY <1>1, <1>2, SMT DEF Sync
<1>3. CASE SyncLocks \/ SyncHoldsLock \/ SyncReturns
  <2>1. failures' = failures \/ failures' = failures + 1
    BY <1>3, Zenon DEF SyncLocks, SyncHoldsLock, SyncRemoves, RemovesEnd, LoopEnds, SyncAdds,
                SyncFails, AddsEnd, apply_changes, SyncEnds, SyncReturns
  <2>2. UNCHANGED <<repeats, retried>>
    BY <1>3, Zenon DEF SyncLocks, SyncHoldsLock, SyncRemoves, RemovesEnd, LoopEnds, SyncAdds,
                SyncFails, AddsEnd, apply_changes, SyncEnds, SyncReturns
  <2> QED
    BY <1>1, <2>1, <2>2
<1>4. CASE Publish
  <2>1. UNCHANGED <<failures, repeats>> /\ (retried' = retried \/ retried' = TRUE)
    BY <1>4, Zenon DEF Publish
  <2> QED
    BY <2>1
<1>5. CASE PublishLocks \/ PublishHoldsLock \/ (\E n \in Names : Take(n))
  BY <1>5 DEF PublishLocks, PublishHoldsLock, EnqueueAccepts, EnqueueRefuses,
              PublishReturns, Take
<1>6. CASE UNCHANGED vars
  BY <1>6 DEF vars
<1> QED
  BY <1>2, <1>3, <1>4, <1>5, <1>6 DEF Next

(* A new message is larger than all before it, and a queue accepts it once:  *)
(* its Publisher is only once in the vector, which does not change under the *)
(* loop.                                                                     *)
LEMMA NextOrder == TypeInv /\ LockInv /\ UniqueInv /\ OrderInv /\ [Next]_vars => OrderInv'
<1> SUFFICES ASSUME TypeInv, LockInv, UniqueInv, OrderInv, [Next]_vars,
                    failures' = 0, ~ retried', repeats' = 0, NEW n \in Names
             PROVE  Ordered(n)'
  BY DEF OrderInv
<1>1. failures = 0 /\ repeats = 0 /\ ~ retried
  BY HistoryGrows, Zenon
<1>2. Ordered(n)
  BY <1>1 DEF OrderInv
<1>o. ASSUME Increasing(stream'[n]), Below(stream'[n], message' + 1),
             Fresh(n)' => Below(stream'[n], message')
      PROVE  Ordered(n)'
  BY <1>o, Zenon DEF Ordered, Increasing, Below
<1>3. /\ stream[n] \in Seq(1 .. MaxCalls) /\ message \in Nat
      /\ ppos \in Nat \ {0} /\ publishers \in Seq(Names)
      /\ \A k \in 1 .. Len(stream[n]) : stream[n][k] \in Nat
  <2>1. /\ stream[n] \in Seq(1 .. MaxCalls) /\ message \in Nat
        /\ ppos \in Nat \ {0} /\ publishers \in Seq(Names)
    BY Zenon DEF TypeInv, QueueTypeInv, PublishTypeInv, SyncTypeInv
  <2>2. \A k \in 1 .. Len(stream[n]) : stream[n][k] \in 1 .. MaxCalls
    BY <2>1, ElementOf, Zenon
  <2>3. \A k \in 1 .. MaxCalls : k \in Nat
    BY PubSubAssumption
  <2> QED
    BY <2>1, <2>2, <2>3, Zenon
<1>4. CASE stream'[n] = stream[n] /\ message' = message /\ (Fresh(n)' => Fresh(n))
  <2>1. /\ Increasing(stream[n]) /\ Below(stream[n], message + 1)
        /\ Fresh(n) => Below(stream[n], message)
    BY <1>2, Zenon DEF Ordered
  <2> QED
    BY <1>4, <1>o, <2>1, Zenon
<1>5. CASE (\E cs \in ConfigLists : Sync(cs)) \/ SyncLocks \/ SyncHoldsLock \/ SyncReturns
  <2>1. UNCHANGED <<publishVars, stream>>
    BY <1>5, SyncFrame
  <2>2. ppc = "loop" => publishers' = publishers
    BY <1>5, VectorStable DEF Next
  <2>3. Fresh(n)' => Fresh(n)
    BY <2>1, <2>2 DEF Fresh, publishVars
  <2> QED
    BY <1>4, <2>1, <2>3 DEF publishVars
<1>6. CASE Publish
  <2>1. stream' = stream /\ message' = message + 1
    BY <1>6, Zenon DEF Publish
  <2>2. Below(stream[n], message + 1) => Below(stream[n], (message + 1) + 1)
    BY <1>3 DEF Below
  <2> QED
    BY <1>2, <1>o, <2>1, <2>2 DEF Ordered
<1>7. CASE PublishLocks
  <2>1. stream' = stream /\ message' = message /\ Fresh(n)
    BY <1>7 DEF PublishLocks, Fresh
  <2> QED
    BY <1>4, <2>1
<1>8. CASE EnqueueRefuses
  <2>1. stream' = stream /\ message' = message /\ publishers' = publishers
        /\ ppc = "loop" /\ ppc' = "loop" /\ ppos' = ppos + 1
    BY <1>8 DEF EnqueueRefuses
  <2>2. Fresh(n)' => Fresh(n)
    BY <1>3, <2>1 DEF Fresh, Places
  <2> QED
    BY <1>4, <2>1, <2>2
<1>9. CASE EnqueueAccepts
  <2> DEFINE name == publishers[ppos]
  <2>1. /\ message' = message /\ publishers' = publishers /\ ppc = "loop" /\ ppc' = "loop"
        /\ ppos' = ppos + 1 /\ ppos \in 1 .. Len(publishers)
        /\ n # name => stream'[n] = stream[n]
    BY <1>9, AcceptFacts, AcceptQueue
  <2>2. CASE n # name
    <3>1. Fresh(n)' => Fresh(n)
      BY <1>3, <2>1 DEF Fresh, Places
    <3> QED
      BY <1>4, <2>1, <2>2, <3>1
  <2>3. CASE n = name
    <3> DEFINE q == stream[n]
               r == stream'[n]
    <3>1. /\ Len(q) \in Nat /\ Len(r) = Len(q) + 1 /\ r[Len(q) + 1] = message
          /\ \A k \in 1 .. Len(q) : r[k] = q[k] /\ q[k] \in Nat
      <4>1. /\ Len(q) \in Nat /\ Len(r) = Len(q) + 1 /\ r[Len(q) + 1] = message
            /\ \A k \in 1 .. Len(q) : r[k] = q[k]
        BY <1>9, <2>3, AcceptQueue
      <4> QED
        BY <1>3, <4>1, SMTT(30)
    <3>2. Fresh(n)
      BY <1>1, <1>3, <2>1, <2>3 DEF UniqueInv, IsInjective, Fresh, Places
    <3>3. Increasing(q) /\ Below(q, message)
      BY <1>2, <3>2 DEF Ordered
    <3>4. ~ Fresh(n)'
      <4>1. ppos' - 1 = ppos
        BY <2>1
      <4>2. ppos \in Places(publishers', 1, ppos' - 1, n)
        BY <2>1, <2>3, <4>1 DEF Places
      <4> QED
        BY <2>1, <4>2 DEF Fresh
    <3> HIDE DEF q, r
    <3>5. \A k \in 1 .. Len(q) : q[k] < message /\ r[k] < message /\ r[k] \in Nat
      BY <3>1, <3>3 DEF Below
    <3>6. Below(r, message + 1)
      BY <1>3, <3>1, <3>5 DEF Below
    <3>7. Increasing(r)
      <4> SUFFICES ASSUME NEW i \in 1 .. Len(q) + 1, NEW j \in 1 .. Len(q) + 1, i < j
                   PROVE  r[i] < r[j]
        BY <3>1 DEF Increasing
      <4>1. CASE j = Len(q) + 1
        BY <3>1, <3>5, <4>1
      <4>2. CASE j \in 1 .. Len(q)
        <5>1. i \in 1 .. Len(q) /\ q[i] < q[j]
          BY <3>1, <3>3, <4>2 DEF Increasing
        <5> QED
          BY <3>1, <4>2, <5>1
      <4> QED
        BY <3>1, <4>1, <4>2
    <3> QED
      BY <1>o, <2>1, <3>4, <3>6, <3>7 DEF r
  <2> QED
    BY <2>2, <2>3
<1>10. CASE PublishReturns
  <2>1. stream' = stream /\ message' = message /\ ~ Fresh(n)'
    BY <1>10 DEF PublishReturns, Fresh
  <2> QED
    BY <1>4, <2>1
<1>11. CASE (\E m \in Names : Take(m)) \/ UNCHANGED vars
  <2>1. UNCHANGED <<publishers, publishVars, stream>>
    BY <1>11, PublishFrame, TakeFrame DEF vars
  <2> QED
    BY <1>4, <2>1 DEF Fresh, publishVars
<1> QED
  BY <1>5, <1>6, <1>7, <1>8, <1>9, <1>10, <1>11, Zenon DEF Next, PublishHoldsLock

(* For any names, capacity and number of calls: through all removals and     *)
(* additions of its Publisher, a queue gets the messages in the order of     *)
(* their publication and none twice, if no message is published again, no    *)
(* sync_configs has failed and no name was configured twice.                 *)
THEOREM OnceInOrder == Spec => []OnceUnlessRetried
<1>1. TypeInv /\ OrderInv => OnceUnlessRetried
  <2> SUFFICES ASSUME TypeInv, OrderInv, failures = 0, ~ retried, repeats = 0, NEW n \in Names
               PROVE  \A i, j \in DOMAIN stream[n] : i < j => stream[n][i] < stream[n][j]
    BY DEF OnceUnlessRetried
  <2>1. stream[n] \in Seq(1 .. MaxCalls)
    BY DEF TypeInv, QueueTypeInv
  <2>2. Increasing(stream[n])
    BY DEF OrderInv, Ordered
  <2> QED
    BY <2>1, <2>2 DEF Increasing
<1> QED
  BY InitTypes, NextTypes, InitLock, NextLock, InitQueue, NextQueue, InitOrder, NextOrder,
     <1>1, PTL DEF Spec
==============================================================================
