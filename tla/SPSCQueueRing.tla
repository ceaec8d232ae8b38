---------------------------- MODULE SPSCQueueRing ----------------------------
(****************************************************************************)
(* Of SPSCQueue, for every buffer size, every set of payload sizes, any     *)
(* number of messages and of crashes: type correctness, with the arithmetic *)
(* of next_index it rests on; the message counter; and the invariant of the *)
(* ring, with the steps of enqueue that keep it.  Positions in the ring are *)
(* ordered by lap and then by index; a message belongs to the lap in which  *)
(* it ends.                                                                 *)
(****************************************************************************)
EXTENDS SPSCQueue, TLAPS

(* An element of a sequence of things in S is in S.                          *)
LEMMA ElementOf ==
  ASSUME NEW S, NEW q \in Seq(S), NEW k \in 1 .. Len(q)
  PROVE  q[k] \in S
OBVIOUS

(* What Append and Tail leave where.                                         *)
LEMMA AppendFacts ==
  ASSUME NEW S, NEW q \in Seq(S), NEW e \in S
  PROVE  /\ Append(q, e) \in Seq(S)
         /\ Len(Append(q, e)) = Len(q) + 1
         /\ \A k \in 1 .. Len(q) : Append(q, e)[k] = q[k]
         /\ Append(q, e)[Len(q) + 1] = e
OBVIOUS

LEMMA TailFacts ==
  ASSUME NEW S, NEW q \in Seq(S), q # <<>>
  PROVE  /\ Tail(q) \in Seq(S)
         /\ Len(Tail(q)) = Len(q) - 1
         /\ \A k \in 1 .. Len(Tail(q)) : Tail(q)[k] = q[k + 1]
OBVIOUS

(* next_index rounds up to the next multiple of 8, from wherever it starts.  *)
LEMMA NextIndexFacts ==
  ASSUME NEW i \in Nat, i % 8 = 0, NEW n \in Nat
  PROVE  /\ next_index(i, n) \in Nat
         /\ next_index(i, n) % 8 = 0
         /\ next_index(i, n) = i + next_index(0, n)
         /\ next_index(i, n) >= i + n
         /\ next_index(i, n) <= i + n + 7
BY DEF next_index, Align

(* A message that passes the assertions of enqueue takes a whole number of   *)
(* words, holds its header and payload, and is smaller than the buffer.      *)
LEMMA SlotFacts ==
  ASSUME NEW s \in PayloadSizes
  PROVE  /\ s \in Nat
         /\ s >= 1
         /\ Slot(s) \in Nat
         /\ Slot(s) % 8 = 0
         /\ Slot(s) >= 8 + s
         /\ Slot(s) < BufferSize
BY PayloadAssumption, BufferAssumption
   DEF create, enqueue_asserts, Slot, total_size, next_index,
       max_payload_size, max_message_size, Align, HeaderSize

(* enqueue places a message at write_ix or at 0, on a word, and leaves       *)
(* write_ix_ on a word of the buffer.                                        *)
LEMMA PlaceFacts ==
  ASSUME NEW s \in PayloadSizes, NEW w \in Words
  PROVE  /\ next_index(w, total_size(s)) = w + Slot(s)
         /\ Crosses(w, s) <=> w + Slot(s) >= BufferSize
         /\ MsgStart(w, s) \in Words
         /\ next_index(MsgStart(w, s), total_size(s)) \in Words
         /\ next_index(MsgStart(w, s), total_size(s)) = MsgStart(w, s) + Slot(s)
<1>1. /\ w \in Nat /\ w % 8 = 0 /\ w < BufferSize
      /\ BufferSize \in Nat
  BY BufferAssumption DEF create, Words, Align
<1>2. total_size(s) \in Nat
  BY SlotFacts DEF total_size, HeaderSize
<1>3. next_index(w, total_size(s)) = w + Slot(s)
  BY <1>1, <1>2, NextIndexFacts, Zenon DEF Slot
<1>4. next_index(0, total_size(s)) = Slot(s)
  BY DEF Slot
<1>5. 0 \in Words
  BY <1>1 DEF Words, Align
<1>6. ASSUME NEW x \in Nat, x % 8 = 0, x < BufferSize
      PROVE  x \in Words
  BY <1>6, <1>1 DEF Words, Align
<1>7. CASE Crosses(w, s)
  BY <1>1, <1>3, <1>4, <1>5, <1>6, <1>7, SlotFacts DEF Crosses, MsgStart
<1>8. CASE ~ Crosses(w, s)
  <2>1. w + Slot(s) < BufferSize
    BY <1>1, <1>3, <1>8, SlotFacts DEF Crosses
  <2>2. (w + Slot(s)) % 8 = 0
    BY <1>1, SlotFacts
  <2> QED
    BY <1>1, <1>3, <1>6, <1>8, <2>1, <2>2, SlotFacts DEF Crosses, MsgStart
<1> QED
  BY <1>7, <1>8

----------------------------------------------------------------------------
(* Type correctness. *)

(* The newest stores, and the store of read_ix_ the producer last loaded. *)
LastWrite == wmo[Len(wmo)]
LastRead == rmo[Len(rmo)]
SeenRead == rmo[pseen]


(* The words of the buffer: multiples of 8 below its size.                   *)
LEMMA WordFacts ==
  /\ BufferSize \in Nat
  /\ 0 \in Words
  /\ \A a \in Words : a \in Nat /\ a % 8 = 0 /\ a < BufferSize
BY BufferAssumption DEF create, Words, Align, next_index, HeaderSize

(* The storage as constructed has the types of TypeOK.                       *)
LEMMA TypeInit == Init => TypeOK
<1> SUFFICES ASSUME Init PROVE TypeOK
  OBVIOUS
<1>1. buffer \in [Words -> Cell]
  BY DEF Init, Cell, DataCell
<1>2. wmo \in Seq([ix : Words, lap : Nat]) /\ Len(wmo) = 1
  BY WordFacts DEF Init
<1>3. rmo \in Seq([ix : Nat, lap : Nat, done : Nat]) /\ Len(rmo) = 1
  BY DEF Init
<1>4. sent \in Seq(PayloadSizes) /\ Len(sent) = 0
  BY DEF Init
<1> QED
  BY <1>1, <1>2, <1>3, <1>4, BoundAssumption DEF Init, TypeOK, NoView

(* The types of what a step reads, in the form the proofs use. *)
Typed ==
  /\ Len(sent) \in Nat /\ Len(rmo) \in Nat
  /\ Len(wmo) = Len(sent) + 1 /\ Len(rmo) >= 1
  /\ \A k \in 1 .. Len(wmo) : wmo[k].ix \in Words /\ wmo[k].lap \in Nat
  /\ \A n \in 1 .. Len(rmo) : /\ rmo[n].ix \in Nat
                             /\ rmo[n].lap \in Nat
                             /\ rmo[n].done \in Nat
  /\ \A k \in 1 .. Len(sent) : sent[k] \in PayloadSizes
  /\ LastWrite.ix \in Words /\ LastWrite.lap \in Nat
  /\ LastRead.ix \in Nat /\ LastRead.lap \in Nat /\ LastRead.done \in Nat
  /\ SeenRead.ix \in Nat /\ SeenRead.lap \in Nat /\ SeenRead.done \in Nat
  /\ write_ix \in Words /\ read_ix \in Nat
  /\ ppc # "idle" => psize \in PayloadSizes
  /\ pseen \in 1 .. Len(rmo) /\ cseen \in 1 .. Len(wmo)
  /\ overruns \in Nat

(* TypeOK gives the types of the elements.                                   *)
LEMMA TypeFacts ==
  ASSUME TypeOK
  PROVE  Typed
<1>1. /\ Len(sent) \in Nat /\ Len(rmo) \in Nat
      /\ Len(wmo) = Len(sent) + 1 /\ Len(rmo) >= 1
  <2>1. /\ sent \in Seq(PayloadSizes)
        /\ rmo \in Seq([ix : Nat, lap : Nat, done : Nat])
        /\ Len(wmo) = Len(sent) + 1 /\ pseen \in 1 .. Len(rmo)
    BY Zenon DEF TypeOK
  <2>2. \A S : \A q \in Seq(S) : Len(q) \in Nat
    OBVIOUS
  <2>3. Len(sent) \in Nat /\ Len(rmo) \in Nat
    BY <2>1, <2>2, Zenon
  <2> QED
    BY ONLY <2>1, <2>3
<1>2. \A k \in 1 .. Len(wmo) : wmo[k] \in [ix : Words, lap : Nat]
  BY ElementOf, Zenon DEF TypeOK
<1>3. \A n \in 1 .. Len(rmo) : rmo[n] \in [ix : Nat, lap : Nat, done : Nat]
  BY ElementOf, Zenon DEF TypeOK
<1>4. \A k \in 1 .. Len(sent) : sent[k] \in PayloadSizes
  BY ElementOf DEF TypeOK
<1>5. pseen \in 1 .. Len(rmo) /\ cseen \in 1 .. Len(wmo) /\ overruns \in Nat
  BY Zenon DEF TypeOK
<1>6. /\ LastWrite.ix \in Words /\ LastWrite.lap \in Nat
      /\ LastRead.ix \in Nat /\ LastRead.lap \in Nat /\ LastRead.done \in Nat
      /\ SeenRead.ix \in Nat /\ SeenRead.lap \in Nat /\ SeenRead.done \in Nat
  BY <1>1, <1>2, <1>3, <1>5, SMTT(30) DEF LastRead, LastWrite, SeenRead
<1>7. write_ix \in Words /\ read_ix \in Nat
  BY <1>6 DEF write_ix, read_ix, LastRead, LastWrite
<1>8. ppc # "idle" => psize \in PayloadSizes
  BY DEF TypeOK
<1> QED
  BY <1>1, <1>2, <1>3, <1>4, <1>5, <1>6, <1>7, <1>8, Zenon DEF Typed

(* Every step of enqueue, dequeue_begin and dequeue_commit keeps the types.  *)
LEMMA TypeStep == TypeOK /\ [Next]_vars => TypeOK'
<1> SUFFICES ASSUME TypeOK, [Next]_vars PROVE TypeOK'
  OBVIOUS
<1>0. Typed
  BY TypeFacts
<1>1. ASSUME NEW s \in PayloadSizes, NEW n \in pseen .. Len(rmo),
             EnqueueRefuse(s, n) \/ EnqueueReserve(s, n)
      PROVE  TypeOK'
  <2>1. overruns' \in {overruns, overruns + 1}
    BY <1>1 DEF EnqueueRefuse, EnqueueReserve
  <2>4. overruns' \in Nat
    BY <1>0, <2>1 DEF Typed
  <2>5. psize' = s /\ pseen' = n /\ ppc' \in {"full", "payload"}
    BY <1>1 DEF EnqueueRefuse, EnqueueReserve, LoadReadIx
  <2>6. s # 0
    BY SlotFacts
  <2>7. n \in 1 .. Len(rmo)
    BY <1>0 DEF Typed
  <2>3. UNCHANGED <<buffer, wmo, rmo, msg_count, consumerVars, sent, crashes>>
    BY <1>1 DEF EnqueueRefuse, EnqueueReserve
  <2> QED
    BY <2>3, <2>4, <2>5, <2>6, <2>7, Zenon DEF TypeOK, consumerVars
<1>2. CASE CopyPayload
  <2>1. buffer' \in [Words -> Cell]
    BY <1>2 DEF CopyPayload, TypeOK, Cell, DataCell
  <2> QED
    BY <1>2, <2>1 DEF CopyPayload, TypeOK, consumerVars
<1>3. CASE CopyHeader
  <2>1. psize \in Nat
    BY <1>0, <1>3, SlotFacts DEF Typed, CopyHeader
  <2>2. buffer' \in [Words -> Cell]
    BY <1>3, <2>1, Zenon DEF CopyHeader, TypeOK, Cell, SizeCell
  <2> QED
    BY <1>3, <2>2 DEF CopyHeader, TypeOK, consumerVars
<1>4. CASE WriteSentinel
  <2>1. buffer' \in [Words -> Cell]
    BY <1>4, Zenon DEF WriteSentinel, TypeOK, Cell, SizeCell
  <2> QED
    BY <1>4, <2>1 DEF WriteSentinel, TypeOK, consumerVars
<1>5. CASE StoreWriteIx
  <2>1. psize \in PayloadSizes
    BY <1>0, <1>5 DEF Typed, StoreWriteIx
  <2>2. next_index(MsgStart(write_ix, psize), total_size(psize)) \in Words
    BY <1>0, <2>1, PlaceFacts DEF Typed
  <2> DEFINE e == [ix  |-> next_index(MsgStart(write_ix, psize), total_size(psize)),
                   lap |-> IF Crosses(write_ix, psize)
                           THEN LastWrite.lap + 1 ELSE LastWrite.lap]
  <2>3. wmo' = Append(wmo, e)
    BY <1>5 DEF StoreWriteIx, write_ix, LastWrite
  <2>5. e \in [ix : Words, lap : Nat]
    BY <1>0, <2>2 DEF Typed
  <2> HIDE DEF e
  <2>6. wmo' \in Seq([ix : Words, lap : Nat]) /\ Len(wmo') = Len(wmo) + 1
    BY <2>3, <2>5, AppendFacts, SMTT(30) DEF TypeOK
  <2>4. sent' \in Seq(PayloadSizes) /\ Len(sent') = Len(sent) + 1
    BY <1>5, <2>1, AppendFacts DEF StoreWriteIx, TypeOK
  <2>7. /\ ppc = "publish" /\ ppc' = "count"
        /\ UNCHANGED <<buffer, rmo, msg_count, psize, pseen, cpc, cview, cseen,
                       overruns, crashes>>
    BY <1>5 DEF StoreWriteIx, consumerVars
  <2>8. Len(wmo') = Len(sent') + 1 /\ cseen' \in 1 .. Len(wmo')
    BY <1>0, <2>4, <2>6, <2>7 DEF Typed
  <2> QED
    BY <2>4, <2>6, <2>7, <2>8 DEF TypeOK
<1>6. CASE AddMsgCount
  <2>1. msg_count' \in 0 .. CountModulus - 1
    BY <1>6, BoundAssumption DEF AddMsgCount, TypeOK
  <2> QED
    BY <1>6, <2>1 DEF AddMsgCount, TypeOK, consumerVars
<1>7. ASSUME NEW n \in cseen .. Len(wmo), LoadWriteIx(n)
      PROVE  TypeOK'
  BY <1>7 DEF LoadWriteIx, TypeOK, producerVars, NoView
<1>8. CASE ReadSentinel
  BY <1>8 DEF ReadSentinel, TypeOK, producerVars
<1>9. ASSUME NEW n \in SizesAt(read_ix), ReadHeader(n)
      PROVE  TypeOK'
  <2>1. n \in Nat
    <3>1. CASE read_ix \in Words /\ buffer[read_ix].kind = "size"
      <4>1. buffer[read_ix] \in Cell
        BY <3>1 DEF TypeOK
      <4> QED
        BY <3>1, <4>1 DEF SizesAt, Cell
    <3>2. CASE ~ (read_ix \in Words /\ buffer[read_ix].kind = "size")
      BY <3>2, WordFacts DEF SizesAt
    <3> QED
      BY <3>1, <3>2
  <2> QED
    BY <1>0, <1>9, <2>1, Zenon DEF Typed, ReadHeader, TypeOK, producerVars
<1>10. CASE StoreWrappedReadIx
  <2> DEFINE e == [ix |-> 0, lap |-> LastRead.lap + 1, done |-> LastRead.done]
  <2>1. rmo' = Append(rmo, e)
    BY <1>10 DEF StoreWrappedReadIx, LastRead
  <2>3. e \in [ix : Nat, lap : Nat, done : Nat]
    BY <1>0 DEF Typed
  <2> HIDE DEF e
  <2>2. /\ rmo' \in Seq([ix : Nat, lap : Nat, done : Nat])
        /\ Len(rmo') = Len(rmo) + 1
    BY <2>1, <2>3, AppendFacts DEF TypeOK
  <2>4. /\ cpc' = "recheck"
        /\ UNCHANGED <<buffer, wmo, msg_count, ppc, psize, pseen, cview, cseen,
                       sent, overruns, crashes>>
    BY <1>10 DEF StoreWrappedReadIx, producerVars
  <2>5. pseen' \in 1 .. Len(rmo')
    BY <1>0, <2>2, <2>4 DEF Typed
  <2> QED
    BY <2>2, <2>4, <2>5, Zenon DEF TypeOK
<1>11. CASE StoreReadIx
  <2>1. next_index(cview.index, total_size(cview.size)) \in Nat
    <3>1. cview.index \in Nat /\ cview.size \in Nat
      BY DEF TypeOK
    <3> QED
      BY <3>1 DEF next_index, total_size, Align, HeaderSize
  <2> DEFINE e == [ix   |-> next_index(cview.index, total_size(cview.size)),
                   lap  |-> LastRead.lap,
                   done |-> LastRead.done + 1]
  <2>2. rmo' = Append(rmo, e)
    BY <1>11 DEF StoreReadIx, LastRead
  <2>4. e \in [ix : Nat, lap : Nat, done : Nat]
    BY <1>0, <2>1, SMTT(30) DEF Typed
  <2> HIDE DEF e
  <2>3. /\ rmo' \in Seq([ix : Nat, lap : Nat, done : Nat])
        /\ Len(rmo') = Len(rmo) + 1
    BY <2>2, <2>4, AppendFacts DEF TypeOK
  <2>5. /\ cpc' = "count"
        /\ UNCHANGED <<buffer, wmo, msg_count, ppc, psize, pseen, cview, cseen,
                       sent, overruns, crashes>>
    BY <1>11 DEF StoreReadIx, producerVars
  <2>6. pseen' \in 1 .. Len(rmo')
    BY <1>0, <2>3, <2>5 DEF Typed
  <2> QED
    BY <2>3, <2>5, <2>6, Zenon DEF TypeOK
<1>12. CASE SubMsgCount
  <2>1. msg_count' \in 0 .. CountModulus - 1
    BY <1>12, BoundAssumption DEF SubMsgCount, TypeOK
  <2> QED
    BY <1>12, <2>1 DEF SubMsgCount, TypeOK, producerVars, NoView
<1>13. CASE ProducerCrash
  BY <1>13, BoundAssumption DEF ProducerCrash, TypeOK, consumerVars
<1>14. CASE ConsumerCrash
  BY <1>14, BoundAssumption DEF ConsumerCrash, TypeOK, producerVars, NoView
<1>15. CASE UNCHANGED vars
  BY <1>15 DEF vars, producerVars, consumerVars, TypeOK
<1> QED
  BY <1>1, <1>2, <1>3, <1>4, <1>5, <1>6, <1>7, <1>8, <1>9, <1>10, <1>11,
     <1>12, <1>13, <1>14, <1>15
     DEF Next, Enqueue, Dequeue

(* Whatever the sizes of the messages, however stale the loads and whoever   *)
(* crashes: write_ix_ stays a word of the buffer with room for a header, and *)
(* msg_count_ a size_t.                                                      *)
THEOREM TypeCorrect == Spec => []TypeOK
BY TypeInit, TypeStep, PTL DEF Spec

(* The same after a step.                                                    *)
LEMMA PrimedTypes == TypeOK' => Typed'
BY TypeFacts, PTL

----------------------------------------------------------------------------
(* The message counter. *)

(* The updates of msg_count_ that each thread still owes its index store. *)
AddOwed == IF ppc = "count" THEN 1 ELSE 0
SubOwed == IF cpc = "count" THEN 1 ELSE 0

(* The counter is right but for the updates owed, those lost to crashes and  *)
(* the laps it has gone around its modulus.                                  *)
CountsWith(lost, laps) ==
  msg_count + AddOwed - SubOwed + lost = (Len(sent) - Committed) + CountModulus * laps

CountInv ==
  \E lost, laps \in Int : -crashes <= lost /\ lost <= crashes /\ CountsWith(lost, laps)

(* An empty queue counts 0.                                                  *)
LEMMA CountInit == Init => CountInv
<1> SUFFICES ASSUME Init PROVE CountInv
  OBVIOUS
<1>1. Len(sent) = 0 /\ Committed = 0 /\ msg_count = 0 /\ crashes = 0
      /\ AddOwed = 0 /\ SubOwed = 0
  BY DEF Init, Committed, AddOwed, SubOwed
<1>2. CountsWith(0, 0)
  BY <1>1, BoundAssumption DEF CountsWith
<1> QED
  BY <1>1, <1>2 DEF CountInv

(* An index store and its update keep the counter right together, and a      *)
(* crash between them costs one.                                             *)
LEMMA CountStep == TypeOK /\ CountInv /\ [Next]_vars => CountInv'
<1> SUFFICES ASSUME TypeOK, CountInv, [Next]_vars PROVE CountInv'
  OBVIOUS
<1>1. PICK lost \in Int, laps \in Int :
        -crashes <= lost /\ lost <= crashes /\ CountsWith(lost, laps)
  BY DEF CountInv
<1>2. /\ Len(sent) \in Nat /\ Committed \in Nat /\ msg_count \in Nat /\ crashes \in Nat
      /\ AddOwed \in Nat /\ SubOwed \in Nat /\ msg_count < CountModulus
      /\ CountModulus \in Nat \ {0} /\ CountModulus * laps \in Int
  <2>1. Len(sent) \in Nat /\ Committed \in Nat
    BY TypeFacts DEF Typed, Committed, LastRead
  <2>2. msg_count \in Nat /\ msg_count < CountModulus /\ crashes \in Nat /\ CountModulus \in Nat \ {0}
    BY BoundAssumption DEF TypeOK
  <2> QED
    BY <2>1, <2>2 DEF AddOwed, SubOwed
<1>3. ASSUME NEW lost1 \in Int, NEW laps1 \in Int, -crashes' <= lost1, lost1 <= crashes',
             msg_count' + AddOwed' - SubOwed' + lost1
               = (Len(sent') - Committed') + CountModulus * laps1
      PROVE  CountInv'
  BY <1>3 DEF CountInv, CountsWith
<1>4. CASE UNCHANGED <<msg_count, sent, Committed, crashes, AddOwed, SubOwed>>
  BY <1>1, <1>3, <1>4 DEF CountsWith
<1>5. CASE \/ \E s \in PayloadSizes, n \in pseen .. Len(rmo) :
                EnqueueRefuse(s, n) \/ EnqueueReserve(s, n)
           \/ CopyPayload \/ CopyHeader \/ WriteSentinel
  <2>1. /\ UNCHANGED <<msg_count, sent, rmo, crashes, cpc>>
        /\ ppc # "count" /\ ppc' # "count"
    BY <1>5 DEF EnqueueRefuse, EnqueueReserve, LoadReadIx, CopyPayload, CopyHeader,
                WriteSentinel, consumerVars
  <2> QED
    BY <1>4, <2>1 DEF Committed, AddOwed, SubOwed
<1>6. CASE StoreWriteIx
  <2>1. /\ UNCHANGED <<msg_count, rmo, crashes, cpc>>
        /\ ppc = "publish" /\ ppc' = "count" /\ Len(sent') = Len(sent) + 1
    BY <1>6, AppendFacts DEF StoreWriteIx, consumerVars, TypeOK
  <2>2. /\ UNCHANGED <<Committed, SubOwed>> /\ AddOwed = 0 /\ AddOwed' = 1
    BY <2>1 DEF Committed, AddOwed, SubOwed
  <2>3. msg_count' + AddOwed' - SubOwed' + lost
          = (Len(sent') - Committed') + CountModulus * laps
    BY <1>1, <1>2, <2>1, <2>2 DEF CountsWith
  <2> QED
    BY <1>1, <1>3, <2>1, <2>3
<1>7. CASE AddMsgCount
  <2>1. /\ UNCHANGED <<sent, rmo, crashes, cpc>>
        /\ ppc = "count" /\ ppc' = "idle" /\ msg_count' = (msg_count + 1) % CountModulus
    BY <1>7 DEF AddMsgCount, consumerVars
  <2>2. /\ UNCHANGED <<Committed, SubOwed>> /\ AddOwed = 1 /\ AddOwed' = 0
    BY <2>1 DEF Committed, AddOwed, SubOwed
  <2>3. CASE msg_count + 1 < CountModulus
    <3>1. msg_count' = msg_count + 1
      BY <1>2, <2>1, <2>3
    <3>2. msg_count' + AddOwed' - SubOwed' + lost
            = (Len(sent') - Committed') + CountModulus * laps
      BY <1>1, <1>2, <2>1, <2>2, <3>1 DEF CountsWith
    <3> QED
      BY <1>1, <1>3, <2>1, <3>2
  <2>4. CASE msg_count + 1 = CountModulus
    <3>1. msg_count' = (msg_count + 1) - CountModulus
      BY <1>2, <2>1, <2>4
    <3>2. CountModulus * (laps - 1) = CountModulus * laps - CountModulus
      BY <1>2
    <3>3. msg_count' + AddOwed' - SubOwed' + lost
            = (Len(sent') - Committed') + CountModulus * (laps - 1)
      BY <1>1, <1>2, <2>1, <2>2, <3>1, <3>2 DEF CountsWith
    <3> QED
      BY <1>1, <1>3, <2>1, <3>3
  <2> QED
    BY <1>2, <2>3, <2>4
<1>8. CASE \/ \E n \in cseen .. Len(wmo) : LoadWriteIx(n)
           \/ ReadSentinel
           \/ \E n \in SizesAt(read_ix) : ReadHeader(n)
  <2>1. /\ UNCHANGED <<msg_count, sent, rmo, crashes, ppc>>
        /\ cpc # "count" /\ cpc' # "count"
    BY <1>8 DEF LoadWriteIx, ReadSentinel, ReadHeader, producerVars
  <2> QED
    BY <1>4, <2>1 DEF Committed, AddOwed, SubOwed
<1>9. CASE StoreWrappedReadIx
  <2> DEFINE e == [ix |-> 0, lap |-> LastRead.lap + 1, done |-> LastRead.done]
  <2>1. /\ rmo' = Append(rmo, e)
        /\ UNCHANGED <<msg_count, sent, crashes, ppc>>
        /\ cpc # "count" /\ cpc' # "count"
    BY <1>9 DEF StoreWrappedReadIx, LastRead, producerVars
  <2>2. Committed' = e.done
    <3>t. LastRead.lap \in Nat /\ LastRead.done \in Nat
      BY TypeFacts, Zenon DEF Typed
    <3>1. e \in [ix : Nat, lap : Nat, done : Nat]
      BY <3>t
    <3> HIDE DEF e
    <3>2. Len(rmo') = Len(rmo) + 1 /\ rmo'[Len(rmo) + 1] = e
      BY <2>1, <3>1, AppendFacts DEF TypeOK
    <3> QED
      BY <3>2 DEF Committed
  <2>3. Committed' = Committed
    BY <2>2 DEF Committed, LastRead
  <2> QED
    BY <1>4, <2>1, <2>3 DEF AddOwed, SubOwed
<1>10. CASE StoreReadIx
  <2> DEFINE e == [ix   |-> next_index(cview.index, total_size(cview.size)),
                   lap  |-> LastRead.lap,
                   done |-> LastRead.done + 1]
  <2>1. /\ rmo' = Append(rmo, e)
        /\ UNCHANGED <<msg_count, sent, crashes, ppc>>
        /\ cpc = "view" /\ cpc' = "count"
    BY <1>10 DEF StoreReadIx, LastRead, producerVars
  <2>2. Committed' = e.done
    <3> HIDE DEF e
    <3>2. Len(rmo') = Len(rmo) + 1 /\ rmo'[Len(rmo) + 1] = e
      BY <2>1 DEF TypeOK
    <3> QED
      BY <3>2 DEF Committed
  <2>3. Committed' = Committed + 1
    BY <2>2 DEF Committed, LastRead
  <2>4. UNCHANGED AddOwed /\ SubOwed = 0 /\ SubOwed' = 1
    BY <2>1 DEF AddOwed, SubOwed
  <2>5. msg_count' + AddOwed' - SubOwed' + lost
          = (Len(sent') - Committed') + CountModulus * laps
    BY <1>1, <1>2, <2>1, <2>3, <2>4 DEF CountsWith
  <2> QED
    BY <1>1, <1>3, <2>1, <2>5
<1>11. CASE SubMsgCount
  <2>1. /\ UNCHANGED <<sent, rmo, crashes, ppc>>
        /\ cpc = "count" /\ cpc' = "idle" /\ msg_count' = (msg_count - 1) % CountModulus
    BY <1>11 DEF SubMsgCount, producerVars
  <2>2. /\ UNCHANGED <<Committed, AddOwed>> /\ SubOwed = 1 /\ SubOwed' = 0
    BY <2>1 DEF Committed, AddOwed, SubOwed
  <2>3. CASE msg_count >= 1
    <3>1. msg_count' = msg_count - 1
      BY <1>2, <2>1, <2>3
    <3>2. msg_count' + AddOwed' - SubOwed' + lost
            = (Len(sent') - Committed') + CountModulus * laps
      BY <1>1, <1>2, <2>1, <2>2, <3>1 DEF CountsWith
    <3> QED
      BY <1>1, <1>3, <2>1, <3>2
  <2>4. CASE msg_count = 0
    <3>1. msg_count' = CountModulus - 1
      BY <1>2, <2>1, <2>4
    <3>2. CountModulus * (laps + 1) = CountModulus * laps + CountModulus
      BY <1>2
    <3>3. msg_count' + AddOwed' - SubOwed' + lost
            = (Len(sent') - Committed') + CountModulus * (laps + 1)
      BY <1>1, <1>2, <2>1, <2>2, <2>4, <3>1, <3>2 DEF CountsWith
    <3> QED
      BY <1>1, <1>3, <2>1, <3>3
  <2> QED
    BY <1>2, <2>3, <2>4
<1>12. CASE ProducerCrash
  <2>1. /\ UNCHANGED <<msg_count, sent, rmo, cpc>>
        /\ ppc' = "idle" /\ crashes' = crashes + 1
    BY <1>12 DEF ProducerCrash, consumerVars
  <2>2. UNCHANGED <<Committed, SubOwed>> /\ AddOwed' = 0 /\ AddOwed \in {0, 1}
    BY <2>1 DEF Committed, AddOwed, SubOwed
  <2>3. /\ msg_count' + AddOwed' - SubOwed' + (lost + AddOwed)
            = (Len(sent') - Committed') + CountModulus * laps
        /\ -crashes' <= lost + AddOwed /\ lost + AddOwed <= crashes' /\ lost + AddOwed \in Int
    BY <1>1, <1>2, <2>1, <2>2 DEF CountsWith
  <2> QED
    BY <1>3, <2>3
<1>13. CASE ConsumerCrash
  <2>1. /\ UNCHANGED <<msg_count, sent, rmo, ppc>>
        /\ cpc' = "idle" /\ crashes' = crashes + 1
    BY <1>13 DEF ConsumerCrash, producerVars
  <2>2. UNCHANGED <<Committed, AddOwed>> /\ SubOwed' = 0 /\ SubOwed \in {0, 1}
    BY <2>1 DEF Committed, AddOwed, SubOwed
  <2>3. /\ msg_count' + AddOwed' - SubOwed' + (lost - SubOwed)
            = (Len(sent') - Committed') + CountModulus * laps
        /\ -crashes' <= lost - SubOwed /\ lost - SubOwed <= crashes' /\ lost - SubOwed \in Int
    BY <1>1, <1>2, <2>1, <2>2 DEF CountsWith
  <2> QED
    BY <1>3, <2>3
<1>14. CASE UNCHANGED vars
  BY <1>4, <1>14 DEF vars, producerVars, consumerVars, Committed, AddOwed, SubOwed
<1> QED
  BY <1>5, <1>6, <1>7, <1>8, <1>9, <1>10, <1>11, <1>12, <1>13, <1>14
     DEF Next, Enqueue, Dequeue

----------------------------------------------------------------------------
(* The ring. *)

(* Each message follows the one before it, or starts the next lap. *)
WriteChain ==
  \A k \in 1 .. Len(sent) :
    /\ MsgBegin(k) \in Words
    /\ \/ wmo[k + 1].lap = wmo[k].lap /\ MsgBegin(k) = wmo[k].ix
       \/ wmo[k + 1].lap = wmo[k].lap + 1 /\ MsgBegin(k) = 0

(* Within a lap, later messages lie above earlier write indices. *)
WriteOrder ==
  \A j, k \in 1 .. Len(wmo) : j < k =>
    /\ wmo[j].lap <= wmo[k].lap
    /\ wmo[j].lap = wmo[k].lap => wmo[j].ix <= MsgBegin(k - 1)

(* A value of read_ix_ is where the next message was to be written, or 0 if  *)
(* the reader has followed the sentinel it found there.                      *)
ReadPosition ==
  \A n \in 1 .. Len(rmo) :
    /\ rmo[n].done \in 0 .. Len(sent)
    /\ \/ /\ rmo[n].ix = wmo[rmo[n].done + 1].ix
          /\ rmo[n].lap = wmo[rmo[n].done + 1].lap
       \/ /\ rmo[n].done < Len(sent)
          /\ Wrapped(rmo[n].done + 1)
          /\ rmo[n].ix = 0
          /\ rmo[n].lap = wmo[rmo[n].done + 2].lap

ReadOrder ==
  \A m, n \in 1 .. Len(rmo) : m < n =>
    /\ rmo[m].done <= rmo[n].done
    /\ rmo[m].lap <= rmo[n].lap
    /\ rmo[m].lap = rmo[n].lap => rmo[m].ix <= rmo[n].ix

(* The writer is less than a lap ahead of the reader as it has seen it. *)
WithinALap ==
  \/ LastWrite.lap = SeenRead.lap /\ SeenRead.ix <= LastWrite.ix
  \/ LastWrite.lap = SeenRead.lap + 1 /\ LastWrite.ix < SeenRead.ix

Writing == ppc \in {"payload", "header", "sentinel", "publish"}

(* What enqueue found out when it loaded read_ix_ still holds. *)
Reservation ==
  /\ Writing => /\ psize \in PayloadSizes
                /\ ~ Full(write_ix, SeenRead.ix, psize)
                /\ Crosses(write_ix, psize) => SeenRead.ix <= write_ix
  /\ ppc = "sentinel" => Crosses(write_ix, psize)

(* The messages the producer must believe unread, and the sentinels between  *)
(* them, are in the buffer.                                                  *)
Stored ==
  \A k \in SeenRead.done + 1 .. Len(sent) :
    /\ buffer[MsgBegin(k)] = SizeCell(sent[k])
    /\ \A a \in DataWords(MsgBegin(k), sent[k]) : buffer[a] = DataCell(k)
    /\ Wrapped(k) /\ wmo[k].lap >= SeenRead.lap => buffer[wmo[k].ix] = SizeCell(0)

(* So is what enqueue has written of the next one. *)
PartlyStored ==
  LET start == MsgStart(write_ix, psize)
  IN /\ ppc \in {"header", "sentinel", "publish"} =>
          \A a \in DataWords(start, psize) : buffer[a] = DataCell(Len(sent) + 1)
     /\ ppc \in {"sentinel", "publish"} => buffer[start] = SizeCell(psize)
     /\ ppc = "publish" /\ Crosses(write_ix, psize) =>
          buffer[write_ix] = SizeCell(0)

(* The consumer is at the oldest unread message, and has seen it. *)
ReaderState ==
  /\ Committed < cseen
  /\ cpc \in {"header", "wrap", "recheck", "view"} => Committed + 1 < cseen
  /\ LastRead.lap # wmo[Committed + 1].lap => Committed + 1 < cseen
  /\ cpc = "empty" => Committed = cseen - 1
  /\ cpc = "wrap" => /\ Wrapped(Committed + 1)
                     /\ LastRead.lap = wmo[Committed + 1].lap
  /\ cpc = "view" => /\ cview.size = sent[Committed + 1]
                     /\ cview.index = MsgBegin(Committed + 1)
                     /\ LastRead.ix = MsgBegin(Committed + 1)
                     /\ LastRead.lap = wmo[Committed + 2].lap

Layout == WriteChain /\ WriteOrder /\ ReadPosition /\ ReadOrder /\ WithinALap

Ring ==
  /\ Layout
  /\ Stored
  /\ Reservation /\ PartlyStored
  /\ ReaderState

(* The inductive invariant: the layout of the ring is as intended as long as *)
(* enqueue has accepted no wrap while write_ix < read_ix.                    *)
IndInv == TypeOK /\ (overruns = 0 => Ring)

----------------------------------------------------------------------------
(* What the invariant says of the messages the producer must take for        *)
(* unread, and of the reader's place among them.                             *)

(* A message fits between its two ends. *)
LEMMA MsgFacts ==
  ASSUME Typed, WriteChain, NEW k \in 1 .. Len(sent)
  PROVE  /\ sent[k] \in PayloadSizes /\ sent[k] \in Nat
         /\ MsgBegin(k) \in Words /\ MsgBegin(k) \in Nat
         /\ MsgEnd(k) \in Words /\ MsgEnd(k) \in Nat
         /\ MsgEnd(k) = wmo[k + 1].ix
         /\ MsgEnd(k) = MsgBegin(k) + Slot(sent[k])
         /\ MsgBegin(k) + 8 + sent[k] <= MsgEnd(k)
         /\ MsgBegin(k) + 8 < MsgEnd(k) /\ MsgBegin(k) < MsgEnd(k)
         /\ wmo[k].ix \in Nat /\ wmo[k].lap \in Nat /\ wmo[k + 1].lap \in Nat
<1>1. /\ k \in 1 .. Len(wmo) /\ k + 1 \in 1 .. Len(wmo)
      /\ sent[k] \in PayloadSizes
  BY DEF Typed
<1>2. /\ wmo[k].ix \in Words /\ wmo[k].lap \in Nat
      /\ wmo[k + 1].ix \in Words /\ wmo[k + 1].lap \in Nat
  BY <1>1, Zenon DEF Typed
<1>3. MsgBegin(k) \in Words
  BY DEF WriteChain
<1>4. wmo[k + 1].ix \in Nat /\ MsgBegin(k) \in Nat /\ wmo[k].ix \in Nat
  BY <1>2, <1>3, WordFacts
<1>5. /\ sent[k] \in Nat /\ sent[k] >= 1 /\ Slot(sent[k]) \in Nat
      /\ Slot(sent[k]) >= 8 + sent[k]
  BY <1>1, SlotFacts
<1>6. MsgBegin(k) = wmo[k + 1].ix - Slot(sent[k])
  BY DEF MsgBegin, MsgEnd
<1>7. MsgEnd(k) = wmo[k + 1].ix
  BY DEF MsgEnd
<1> DEFINE b == MsgBegin(k)
           e == wmo[k + 1].ix
           p == sent[k]
           s == Slot(sent[k])
<1>8. /\ b \in Nat /\ e \in Nat /\ p \in Nat /\ s \in Nat
      /\ p >= 1 /\ s >= 8 + p /\ b = e - s
  BY <1>4, <1>5, <1>6
<1> HIDE DEF b, e, p, s
<1>9. e = b + s /\ b + 8 + p <= e /\ b + 8 < e /\ b < e
  BY ONLY <1>8
<1> QED
  BY <1>1, <1>2, <1>3, <1>4, <1>5, <1>7, <1>9, Zenon DEF b, e, p, s

(* The words of a payload lie inside its message.                            *)
LEMMA DataWordsFacts ==
  ASSUME Typed, WriteChain, NEW k \in 1 .. Len(sent),
         NEW a \in DataWords(MsgBegin(k), sent[k])
  PROVE  /\ a \in Words /\ a \in Nat
         /\ MsgBegin(k) <= a /\ a < MsgEnd(k)
BY MsgFacts, WordFacts, SMTT(30) DEF DataWords, HeaderSize

(* Write indices never go back. *)
LEMMA WriteMonotonic ==
  ASSUME Typed, WriteChain, WriteOrder,
         NEW j \in 1 .. Len(wmo), NEW k \in 1 .. Len(wmo), j <= k
  PROVE  /\ wmo[j].ix \in Nat /\ wmo[k].ix \in Nat
         /\ wmo[j].lap \in Nat /\ wmo[k].lap \in Nat
         /\ wmo[j].lap <= wmo[k].lap
         /\ wmo[j].lap = wmo[k].lap => wmo[j].ix <= wmo[k].ix
         /\ wmo[j].lap = wmo[k].lap /\ j < k => wmo[j].ix < wmo[k].ix
<1>1. /\ wmo[j].ix \in Nat /\ wmo[k].ix \in Nat
      /\ wmo[j].lap \in Nat /\ wmo[k].lap \in Nat
  BY WordFacts, Zenon DEF Typed
<1>2. CASE j = k
  BY <1>1, <1>2
<1>3. CASE j < k
  <2>1. k - 1 \in 1 .. Len(sent) /\ (k - 1) + 1 = k
    BY <1>3, SMTT(30) DEF Typed
  <2>2. MsgBegin(k - 1) \in Nat /\ MsgBegin(k - 1) < wmo[k].ix
    BY <2>1, <1>1, MsgFacts
  <2> QED
    BY <1>1, <1>3, <2>2, SMTT(30) DEF WriteOrder
<1> QED
  BY <1>2, <1>3 DEF Typed

(* No value of read_ix_ is ahead of write_ix_. *)
LEMMA ReaderBehindWriter ==
  ASSUME Typed, WriteChain, WriteOrder, ReadPosition, NEW n \in 1 .. Len(rmo)
  PROVE  /\ rmo[n].lap <= LastWrite.lap
         /\ rmo[n].lap = LastWrite.lap => rmo[n].ix <= LastWrite.ix
<1> DEFINE d == rmo[n].done
<1>1. /\ d \in 0 .. Len(sent) /\ Len(wmo) = Len(sent) + 1 /\ Len(sent) \in Nat
      /\ LastWrite.ix \in Nat
  BY WordFacts, Zenon DEF Typed, ReadPosition
<1>2. CASE rmo[n].ix = wmo[d + 1].ix /\ rmo[n].lap = wmo[d + 1].lap
  <2>1. d + 1 \in 1 .. Len(wmo) /\ Len(wmo) \in 1 .. Len(wmo) /\ d + 1 <= Len(wmo)
    BY <1>1
  <2> QED
    BY <1>2, <2>1, WriteMonotonic DEF LastWrite
<1>3. CASE d < Len(sent) /\ rmo[n].ix = 0 /\ rmo[n].lap = wmo[d + 2].lap
  <2>1. d + 2 \in 1 .. Len(wmo) /\ Len(wmo) \in 1 .. Len(wmo) /\ d + 2 <= Len(wmo)
    BY <1>1, <1>3
  <2> QED
    BY <1>1, <1>3, <2>1, WriteMonotonic, SMTT(30) DEF LastWrite
<1> QED
  BY <1>2, <1>3 DEF ReadPosition

(* The messages after a reader position lie ahead of it, in its lap or in    *)
(* the next one, and so do the sentinels not behind it.                      *)
LEMMA AheadOfReader ==
  ASSUME Typed, WriteChain, WriteOrder, ReadPosition,
         NEW n \in 1 .. Len(rmo), NEW k \in rmo[n].done + 1 .. Len(sent)
  PROVE  /\ k \in 1 .. Len(sent)
         /\ rmo[n].lap <= wmo[k + 1].lap
         /\ wmo[k + 1].lap = rmo[n].lap => rmo[n].ix <= MsgBegin(k)
         /\ wmo[k].lap = rmo[n].lap => rmo[n].ix <= wmo[k].ix
<1> DEFINE d == rmo[n].done
<1>1. /\ d \in 0 .. Len(sent) /\ Len(wmo) = Len(sent) + 1 /\ Len(sent) \in Nat
      /\ rmo[n].ix \in Nat /\ rmo[n].lap \in Nat
  BY DEF Typed, ReadPosition
<1>2. /\ k \in 1 .. Len(sent) /\ d + 1 <= k
      /\ k \in 1 .. Len(wmo) /\ k + 1 \in 1 .. Len(wmo)
      /\ d + 1 \in 1 .. Len(wmo) /\ d + 2 \in 1 .. Len(wmo)
      /\ d + 1 < k + 1 /\ d + 2 <= k + 1 /\ (k + 1) - 1 = k
  BY <1>1, SMTT(30)
<1>3. MsgBegin(k) \in Nat /\ wmo[k].ix \in Nat
  BY <1>2, MsgFacts
<1>4. CASE rmo[n].ix = wmo[d + 1].ix /\ rmo[n].lap = wmo[d + 1].lap
  <2>1. /\ wmo[d + 1].lap <= wmo[k + 1].lap
        /\ wmo[d + 1].lap = wmo[k + 1].lap => wmo[d + 1].ix <= MsgBegin(k)
    BY <1>2, SMTT(30) DEF WriteOrder
  <2>2. wmo[d + 1].lap = wmo[k].lap => wmo[d + 1].ix <= wmo[k].ix
    BY <1>2, WriteMonotonic
  <2> QED
    BY <1>2, <1>4, <2>1, <2>2
<1>5. CASE rmo[n].ix = 0 /\ rmo[n].lap = wmo[d + 2].lap
  <2>1. wmo[d + 2].lap <= wmo[k + 1].lap
    BY <1>2, WriteMonotonic, Zenon
  <2> QED
    BY <1>2, <1>3, <1>5, <2>1
<1> QED
  BY <1>4, <1>5 DEF ReadPosition

(* Written messages lie below write_ix_ in its lap. *)
LEMMA BehindWriter ==
  ASSUME Typed, WriteChain, WriteOrder, NEW k \in 1 .. Len(sent)
  PROVE  /\ wmo[k + 1].lap <= LastWrite.lap
         /\ wmo[k + 1].lap = LastWrite.lap => MsgEnd(k) <= LastWrite.ix
         /\ wmo[k].lap <= LastWrite.lap
         /\ wmo[k].lap = LastWrite.lap => wmo[k + 1].lap = wmo[k].lap
<1>1. /\ k \in 1 .. Len(wmo) /\ k + 1 \in 1 .. Len(wmo)
      /\ Len(wmo) \in 1 .. Len(wmo) /\ k <= Len(wmo) /\ k + 1 <= Len(wmo)
      /\ k <= k + 1
  BY SMTT(30) DEF Typed
<1>2. /\ wmo[k + 1].lap <= LastWrite.lap
      /\ wmo[k + 1].lap = LastWrite.lap => wmo[k + 1].ix <= LastWrite.ix
  BY <1>1, WriteMonotonic DEF LastWrite
<1>3. wmo[k].lap <= LastWrite.lap /\ wmo[k].lap <= wmo[k + 1].lap
  BY <1>1, WriteMonotonic DEF LastWrite
<1>4. wmo[k].lap \in Nat /\ wmo[k + 1].lap \in Nat /\ LastWrite.lap \in Nat
  BY <1>1 DEF Typed
<1> QED
  BY <1>2, <1>3, <1>4 DEF MsgEnd

(* Where enqueue is about to write there is no message, and no sentinel,     *)
(* that the producer must take for unread.                                   *)
LEMMA PendingIsFree ==
  ASSUME Typed, WriteChain, WriteOrder, ReadPosition, WithinALap, Reservation,
         Writing, NEW k \in SeenRead.done + 1 .. Len(sent)
  PROVE  /\ k \in 1 .. Len(sent)
         /\ \/ MsgStart(write_ix, psize) + Slot(psize) <= MsgBegin(k)
            \/ MsgEnd(k) <= MsgStart(write_ix, psize)
         /\ Crosses(write_ix, psize) => MsgEnd(k) <= write_ix
         /\ Wrapped(k) /\ wmo[k].lap >= SeenRead.lap =>
              /\ ~ Crosses(write_ix, psize)
              /\ MsgStart(write_ix, psize) + Slot(psize) <= wmo[k].ix
<1> DEFINE W == LastWrite
           R == SeenRead
<1>1. /\ pseen \in 1 .. Len(rmo) /\ R = rmo[pseen]
      /\ k \in 1 .. Len(sent)
  BY AheadOfReader DEF Typed, SeenRead
<1>2. /\ R.lap <= wmo[k + 1].lap
      /\ wmo[k + 1].lap = R.lap => R.ix <= MsgBegin(k)
      /\ wmo[k].lap = R.lap => R.ix <= wmo[k].ix
  BY <1>1, AheadOfReader
<1>3. /\ wmo[k + 1].lap <= W.lap
      /\ wmo[k + 1].lap = W.lap => MsgEnd(k) <= W.ix
      /\ wmo[k].lap <= W.lap
      /\ wmo[k].lap = W.lap => wmo[k + 1].lap = wmo[k].lap
  BY <1>1, BehindWriter
<1>4. /\ R.ix \in Nat /\ R.lap \in Nat /\ W.ix \in Nat /\ W.lap \in Nat
      /\ W.ix = write_ix /\ write_ix \in Words
  BY WordFacts, Zenon DEF Typed, LastWrite, write_ix
<1>5. /\ psize \in PayloadSizes /\ Slot(psize) \in Nat
      /\ ~ Full(write_ix, R.ix, psize)
      /\ Crosses(write_ix, psize) => R.ix <= write_ix
  BY SlotFacts DEF Reservation
<1>6. /\ MsgBegin(k) \in Nat /\ MsgEnd(k) \in Nat
      /\ wmo[k].ix \in Nat /\ wmo[k].lap \in Nat /\ wmo[k + 1].lap \in Nat
      /\ MsgBegin(k) < MsgEnd(k)
  BY <1>1, MsgFacts
<1>7. \/ W.lap = R.lap /\ R.ix <= W.ix
      \/ W.lap = R.lap + 1 /\ W.ix < R.ix
  BY DEF WithinALap
<1>8. CASE Crosses(write_ix, psize)
  <2>1. MsgStart(write_ix, psize) = 0 /\ Slot(psize) < R.ix
    BY <1>4, <1>5, <1>8 DEF MsgStart, Full, FullAfterWrap, Slot
  <2>2. W.lap = R.lap
    BY <1>4, <1>5, <1>7, <1>8
  <2>3. wmo[k + 1].lap = W.lap
    BY <1>2, <1>3, <1>4, <1>6, <2>2
  <2>4. wmo[k].lap >= R.lap => wmo[k].lap = W.lap
    BY ONLY <1>3, <1>4, <1>6, <2>2
  <2>5. Slot(psize) <= MsgBegin(k)
    <3>1. R.ix <= MsgBegin(k)
      BY <1>2, <2>2, <2>3, Zenon
    <3> QED
      BY <1>4, <1>5, <1>6, <2>1, <3>1
  <2>6. MsgEnd(k) <= write_ix
    BY <1>3, <1>4, <2>3, Zenon
  <2>7. ~ (Wrapped(k) /\ wmo[k].lap >= R.lap)
    BY <2>3, <2>4, Zenon DEF Wrapped
  <2>8. 0 + Slot(psize) = Slot(psize)
    BY <1>5
  <2> QED
    BY <1>1, <2>1, <2>5, <2>6, <2>7, <2>8, Zenon
<1>9. CASE ~ Crosses(write_ix, psize)
  <2>1. MsgStart(write_ix, psize) = W.ix
    BY <1>4, <1>9 DEF MsgStart
  <2>2. W.ix < R.ix => W.ix + Slot(psize) < R.ix
    BY <1>4, <1>5, <1>9, PlaceFacts DEF Full, FullAhead
  <2>3. wmo[k + 1].lap \in {R.lap, W.lap}
    BY ONLY <1>2, <1>3, <1>4, <1>6, <1>7, SMTT(30)
  <2>s. Slot(psize) \in Nat
    BY <1>5, Zenon
  <2>4. wmo[k + 1].lap = W.lap \/ W.ix + Slot(psize) <= MsgBegin(k)
    BY ONLY <1>2, <1>4, <1>6, <1>7, <2>s, <2>2, <2>3, SMTT(30)
  <2>5. ASSUME Wrapped(k), wmo[k].lap >= R.lap
        PROVE  W.ix + Slot(psize) <= wmo[k].ix
    <3>1. wmo[k].lap < W.lap
      BY <1>3, <1>4, <1>6, <2>5, SMTT(30) DEF Wrapped
    <3>2. wmo[k].lap = R.lap /\ W.ix < R.ix
      BY ONLY <1>4, <1>6, <1>7, <2>5, <3>1, SMTT(30)
    <3> QED
      BY ONLY <1>2, <1>4, <1>6, <2>s, <2>2, <3>2, SMTT(30)
  <2> QED
    BY <1>1, <1>3, <1>9, <2>1, <2>4, <2>5
<1> QED
  BY <1>8, <1>9

(* A value of read_ix_ that the producer may still load differs from every   *)
(* value of write_ix_ stored after a message it has not consumed.            *)
LEMMA Unambiguous ==
  ASSUME Typed, Layout, NEW m \in pseen .. Len(rmo), NEW n \in 1 .. Len(wmo),
         rmo[m].done + 1 < n
  PROVE  rmo[m].ix # wmo[n].ix
<1> USE DEF Layout
<1> DEFINE W == LastWrite
           R == SeenRead
<1>1. /\ pseen \in 1 .. Len(rmo) /\ m \in 1 .. Len(rmo) /\ pseen <= m
      /\ Len(wmo) = Len(sent) + 1 /\ Len(sent) \in Nat
  BY DEF Typed
<1>2. /\ rmo[m].done \in Nat /\ rmo[m].ix \in Nat /\ rmo[m].lap \in Nat
      /\ R.ix \in Nat /\ R.lap \in Nat /\ W.ix \in Nat /\ W.lap \in Nat
  BY <1>1, WordFacts, Zenon DEF Typed
<1>3. n - 1 \in rmo[m].done + 1 .. Len(sent) /\ (n - 1) + 1 = n
  BY <1>1, <1>2, SMTT(30)
<1>4. /\ n - 1 \in 1 .. Len(sent)
      /\ rmo[m].lap <= wmo[n].lap
      /\ wmo[n].lap = rmo[m].lap => rmo[m].ix <= MsgBegin(n - 1)
  BY <1>1, <1>3, AheadOfReader
<1>5. /\ wmo[n].lap \in Nat /\ wmo[n].ix \in Nat /\ MsgBegin(n - 1) \in Nat
      /\ MsgBegin(n - 1) < wmo[n].ix
  BY <1>3, <1>4, MsgFacts
<1>6. /\ wmo[n].lap <= W.lap
      /\ wmo[n].lap = W.lap => wmo[n].ix <= W.ix
  BY <1>1, WriteMonotonic DEF LastWrite
<1>7. /\ R.lap <= rmo[m].lap
      /\ R.lap = rmo[m].lap => R.ix <= rmo[m].ix
  BY <1>1, <1>2, SMTT(30) DEF ReadOrder, SeenRead
<1>8. \/ W.lap = R.lap /\ R.ix <= W.ix
      \/ W.lap = R.lap + 1 /\ W.ix < R.ix
  BY DEF WithinALap
<1> DEFINE wl == W.lap
           wi == W.ix
           rl == R.lap
           ri == R.ix
           bl == rmo[m].lap
           bi == rmo[m].ix
           nl == wmo[n].lap
           ni == wmo[n].ix
           g == MsgBegin(n - 1)
<1>9. /\ wl \in Nat /\ wi \in Nat /\ rl \in Nat /\ ri \in Nat /\ bl \in Nat
      /\ bi \in Nat /\ nl \in Nat /\ ni \in Nat /\ g \in Nat
  BY <1>2, <1>5, Zenon
<1>10. /\ bl <= nl /\ (nl = bl => bi <= g) /\ g < ni
       /\ nl <= wl /\ (nl = wl => ni <= wi)
       /\ rl <= bl /\ (rl = bl => ri <= bi)
  BY <1>4, <1>5, <1>6, <1>7, Zenon
<1>11. \/ wl = rl /\ ri <= wi
       \/ wl = rl + 1 /\ wi < ri
  BY <1>8, Zenon
<1> HIDE DEF wl, wi, rl, ri, bl, bi, nl, ni, g
<1>12. bi # ni
  BY ONLY <1>9, <1>10, <1>11
<1> QED
  BY <1>12, Zenon DEF bi, ni

(* The oldest unread message starts at read_ix_, unless a sentinel does. *)
LEMMA NextMessage ==
  ASSUME Typed, Layout, ReaderState, Committed + 1 < cseen
  PROVE  /\ Committed \in Nat /\ Committed + 1 \in 1 .. Len(sent)
         /\ Committed + 1 \in SeenRead.done + 1 .. Len(sent)
         /\ \/ /\ LastRead.ix = MsgBegin(Committed + 1)
               /\ LastRead.lap = wmo[Committed + 2].lap
            \/ /\ Wrapped(Committed + 1)
               /\ LastRead.ix = wmo[Committed + 1].ix
               /\ LastRead.lap = wmo[Committed + 1].lap
               /\ LastRead.lap >= SeenRead.lap
<1> DEFINE d == Committed
<1>1. /\ d \in Nat /\ cseen \in 1 .. Len(wmo) /\ Len(wmo) = Len(sent) + 1
      /\ Len(sent) \in Nat /\ Len(rmo) \in 1 .. Len(rmo)
      /\ pseen \in 1 .. Len(rmo) /\ SeenRead.done \in Nat
      /\ d = rmo[Len(rmo)].done /\ LastRead = rmo[Len(rmo)]
      /\ SeenRead.lap \in Nat /\ LastRead.lap \in Nat
  BY DEF Typed, Committed, LastRead
<1>2. d + 1 \in 1 .. Len(sent) /\ (d + 1) + 1 = d + 2
  BY <1>1, SMTT(30)
<1>3. SeenRead.done <= d /\ SeenRead.lap <= LastRead.lap
  BY <1>1, SMTT(30) DEF Layout, ReadOrder, SeenRead
<1>4. \/ wmo[d + 2].lap = wmo[d + 1].lap /\ MsgBegin(d + 1) = wmo[d + 1].ix
      \/ wmo[d + 2].lap = wmo[d + 1].lap + 1 /\ MsgBegin(d + 1) = 0
  BY <1>2 DEF Layout, WriteChain
<1>5. wmo[d + 1].lap \in Nat
  BY <1>1, <1>2, MsgFacts, Zenon DEF Layout
<1>6. \/ LastRead.ix = wmo[d + 1].ix /\ LastRead.lap = wmo[d + 1].lap
      \/ Wrapped(d + 1) /\ LastRead.ix = 0 /\ LastRead.lap = wmo[d + 2].lap
  BY <1>1 DEF Layout, ReadPosition
<1>7. Wrapped(d + 1) <=> wmo[d + 2].lap # wmo[d + 1].lap
  BY <1>2 DEF Wrapped
<1>8. d + 1 \in SeenRead.done + 1 .. Len(sent)
  <2> DEFINE z == SeenRead.done
             e == Len(sent)
  <2>1. d \in Nat /\ z \in Nat /\ e \in Nat /\ d + 1 \in 1 .. e /\ z <= d
    BY <1>1, <1>2, <1>3
  <2> HIDE DEF d, z, e
  <2>2. d + 1 \in z + 1 .. e
    BY ONLY <2>1
  <2> QED
    BY <2>2 DEF d, z, e
<1>9. \/ /\ LastRead.ix = MsgBegin(d + 1)
         /\ LastRead.lap = wmo[d + 2].lap
      \/ /\ Wrapped(d + 1)
         /\ LastRead.ix = wmo[d + 1].ix
         /\ LastRead.lap = wmo[d + 1].lap
  BY <1>4, <1>5, <1>6, <1>7
<1> QED
  BY <1>1, <1>2, <1>3, <1>8, <1>9

----------------------------------------------------------------------------
(* The parts of the invariant that a step leaves alone. *)

(* A step that moves no index keeps the layout.                              *)
LEMMA LayoutFrame ==
  ASSUME Layout, UNCHANGED <<wmo, rmo, sent, pseen>>
  PROVE  Layout'
<1>1. WriteChain' /\ WriteOrder'
  BY DEF Layout, WriteChain, WriteOrder, MsgBegin, MsgEnd
<1>2. ReadPosition' /\ ReadOrder'
  BY DEF Layout, ReadPosition, ReadOrder, Wrapped
<1>3. WithinALap'
  BY DEF Layout, WithinALap, LastWrite, SeenRead
<1> QED
  BY <1>1, <1>2, <1>3 DEF Layout

(* A step that neither writes the buffer nor moves an index keeps what is    *)
(* stored.                                                                   *)
LEMMA StoredFrame ==
  ASSUME Stored, UNCHANGED <<buffer, wmo, rmo, sent, pseen>>
  PROVE  Stored'
BY DEF Stored, SeenRead, MsgBegin, MsgEnd, Wrapped

(* A step of the consumer leaves what enqueue has reserved.                  *)
LEMMA ReservationFrame ==
  ASSUME Reservation, UNCHANGED <<wmo, pseen, ppc, psize>>, SeenRead' = SeenRead
  PROVE  Reservation'
BY DEF Reservation, write_ix, Writing

(* A step of the consumer leaves what enqueue has written.                   *)
LEMMA PartlyStoredFrame ==
  ASSUME PartlyStored, UNCHANGED <<buffer, wmo, sent, ppc, psize>>
  PROVE  PartlyStored'
BY DEF PartlyStored, write_ix

(* A step of the producer that moves no index leaves the reader as it is.    *)
LEMMA ReaderFrame ==
  ASSUME ReaderState, UNCHANGED <<wmo, rmo, sent, cpc, cview, cseen>>
  PROVE  ReaderState'
BY Zenon DEF ReaderState, Committed, LastRead, Wrapped, MsgBegin, MsgEnd

(* A step that touches none of it keeps the whole invariant.                 *)
LEMMA RingFrame ==
  ASSUME Ring, UNCHANGED <<buffer, wmo, rmo, sent, ppc, psize, pseen,
                           cpc, cview, cseen>>
  PROVE  Ring'
<1>1. SeenRead' = SeenRead
  BY DEF SeenRead
<1> QED
  BY <1>1, LayoutFrame, StoredFrame, ReservationFrame, PartlyStoredFrame,
     ReaderFrame DEF Ring

(* A producer between two calls has nothing reserved. *)
LEMMA IdleFrame ==
  ASSUME ppc' \in {"idle", "count", "full"}
  PROVE  Reservation' /\ PartlyStored'
BY DEF Reservation, PartlyStored, Writing

----------------------------------------------------------------------------
(* The initial state and each step of enqueue. *)

(* The constructed storage is an empty ring.                                 *)
LEMMA RingInit == Init => Ring
<1> SUFFICES ASSUME Init PROVE Ring
  OBVIOUS
<1>1. /\ Len(sent) = 0 /\ Len(wmo) = 1 /\ Len(rmo) = 1
      /\ wmo[1] = [ix |-> 0, lap |-> 0]
      /\ rmo[1] = [ix |-> 0, lap |-> 0, done |-> 0]
      /\ ppc = "idle" /\ cpc = "idle" /\ pseen = 1 /\ cseen = 1
  BY DEF Init
<1>2. Layout
  <2>1. WriteChain
    BY ONLY <1>1 DEF WriteChain
  <2>2. WriteOrder
    BY ONLY <1>1 DEF WriteOrder
  <2>3. ReadPosition
    BY ONLY <1>1 DEF ReadPosition
  <2>4. ReadOrder
    BY ONLY <1>1 DEF ReadOrder
  <2>5. WithinALap
    BY ONLY <1>1 DEF WithinALap, LastWrite, SeenRead
  <2> QED
    BY <2>1, <2>2, <2>3, <2>4, <2>5, Zenon DEF Layout
<1>3. Stored /\ Reservation /\ PartlyStored
  <2>1. Stored
    BY ONLY <1>1 DEF Stored, SeenRead
  <2>2. Reservation /\ PartlyStored
    BY <1>1, Zenon DEF Reservation, PartlyStored, Writing
  <2> QED
    BY <2>1, <2>2
<1>4. ReaderState
  BY ONLY <1>1 DEF ReaderState, Committed, LastRead
<1> QED
  BY <1>2, <1>3, <1>4 DEF Ring

(* A newer value of read_ix_ keeps the writer within a lap of the reader and *)
(* leaves fewer messages to take for unread.                                 *)
LEMMA LoadReadIxStep ==
  ASSUME Typed, Layout, Stored, NEW n \in pseen .. Len(rmo), pseen' = n,
         UNCHANGED <<buffer, wmo, rmo, sent>>
  PROVE  Layout' /\ Stored'
<1>1. /\ n \in 1 .. Len(rmo) /\ pseen \in 1 .. Len(rmo) /\ pseen <= n
      /\ SeenRead' = rmo[n]
  BY DEF Typed, SeenRead
<1>2. /\ rmo[n].ix \in Nat /\ rmo[n].lap \in Nat /\ rmo[n].done \in Nat
      /\ SeenRead.ix \in Nat /\ SeenRead.lap \in Nat /\ SeenRead.done \in Nat
      /\ LastWrite.ix \in Nat /\ LastWrite.lap \in Nat
  BY <1>1, WordFacts, Zenon DEF Typed
<1>3. /\ SeenRead.done <= rmo[n].done
      /\ SeenRead.lap <= rmo[n].lap
      /\ SeenRead.lap = rmo[n].lap => SeenRead.ix <= rmo[n].ix
  BY <1>1, <1>2, SMTT(30) DEF Layout, ReadOrder, SeenRead
<1>4. /\ rmo[n].lap <= LastWrite.lap
      /\ rmo[n].lap = LastWrite.lap => rmo[n].ix <= LastWrite.ix
  BY <1>1, ReaderBehindWriter DEF Layout
<1>5. WithinALap'
  <2>1. LastWrite' = LastWrite
    BY DEF LastWrite
  <2>2. CASE LastWrite.lap = SeenRead.lap /\ SeenRead.ix <= LastWrite.ix
    <3>1. rmo[n].lap = LastWrite.lap
      BY <1>2, <1>3, <1>4, <2>2
    <3> QED
      BY <1>1, <1>4, <2>1, <3>1 DEF WithinALap
  <2>3. CASE LastWrite.lap = SeenRead.lap + 1 /\ LastWrite.ix < SeenRead.ix
    <3>1. CASE rmo[n].lap = SeenRead.lap
      <4>1. LastWrite.lap = rmo[n].lap + 1 /\ LastWrite.ix < rmo[n].ix
        BY <1>2, <1>3, <2>3, <3>1
      <4> QED
        BY <1>1, <2>1, <4>1 DEF WithinALap
    <3>2. CASE rmo[n].lap # SeenRead.lap
      <4>1. rmo[n].lap = LastWrite.lap
        BY <1>2, <1>3, <1>4, <2>3, <3>2
      <4> QED
        BY <1>1, <1>4, <2>1, <4>1 DEF WithinALap
    <3> QED
      BY <3>1, <3>2
  <2> QED
    BY <2>2, <2>3 DEF Layout, WithinALap
<1>6. WriteChain' /\ WriteOrder'
  BY DEF Layout, WriteChain, WriteOrder, MsgBegin, MsgEnd
<1>7. ReadPosition' /\ ReadOrder'
  BY Zenon DEF Layout, ReadPosition, ReadOrder, Wrapped
<1>8. Stored'
  <2> SUFFICES ASSUME NEW k \in rmo[n].done + 1 .. Len(sent)
               PROVE  /\ buffer[MsgBegin(k)] = SizeCell(sent[k])
                      /\ \A a \in DataWords(MsgBegin(k), sent[k]) :
                           buffer[a] = DataCell(k)
                      /\ Wrapped(k) /\ wmo[k].lap >= rmo[n].lap =>
                           buffer[wmo[k].ix] = SizeCell(0)
    BY <1>1 DEF Stored, MsgBegin, MsgEnd, Wrapped
  <2>4. Len(sent) \in Nat
    BY DEF Typed
  <2>1. k \in SeenRead.done + 1 .. Len(sent) /\ k \in 1 .. Len(sent)
    BY <1>2, <1>3, <2>4, SMTT(30)
  <2>2. wmo[k].lap \in Nat
    BY <2>1 DEF Typed
  <2>3. wmo[k].lap >= rmo[n].lap => wmo[k].lap >= SeenRead.lap
    BY <1>2, <1>3, <2>2, SMTT(30)
  <2> QED
    BY <2>1, <2>3, Zenon DEF Stored
<1> QED
  BY <1>5, <1>6, <1>7, <1>8 DEF Layout

(* enqueue returns false: the producer has only loaded read_ix_.             *)
LEMMA EnqueueRefuseStep ==
  ASSUME Typed, Ring, NEW s \in PayloadSizes, NEW n \in pseen .. Len(rmo),
         EnqueueRefuse(s, n)
  PROVE  Ring'
<1>1. Layout' /\ Stored'
  BY LoadReadIxStep DEF EnqueueRefuse, LoadReadIx, Ring
<1>2. Reservation' /\ PartlyStored'
  BY IdleFrame DEF EnqueueRefuse
<1>3. ReaderState'
  BY ReaderFrame DEF EnqueueRefuse, consumerVars, Ring
<1> QED
  BY <1>1, <1>2, <1>3 DEF Ring

(* enqueue passes its checks: what it loaded now justifies the writes.       *)
LEMMA EnqueueReserveStep ==
  ASSUME Typed, Ring, NEW s \in PayloadSizes, NEW n \in pseen .. Len(rmo),
         EnqueueReserve(s, n), overruns = 0, overruns' = 0
  PROVE  Ring'
<1>1. Layout' /\ Stored'
  BY LoadReadIxStep DEF EnqueueReserve, LoadReadIx, Ring
<1>2. PartlyStored'
  BY DEF EnqueueReserve, PartlyStored
<1>3. Reservation'
  <2>1. /\ SeenRead' = rmo[n] /\ write_ix' = write_ix /\ psize' = s
        /\ ppc' = "payload" /\ ~ Full(write_ix, rmo[n].ix, s)
    BY DEF EnqueueReserve, LoadReadIx, SeenRead, write_ix
  <2>2. ~ (Crosses(write_ix, s) /\ write_ix < rmo[n].ix)
    BY DEF EnqueueReserve
  <2>3. write_ix \in Nat /\ rmo[n].ix \in Nat
    BY WordFacts, SMTT(30) DEF Typed
  <2>4. Crosses(write_ix, s) => rmo[n].ix <= write_ix
    BY <2>2, <2>3
  <2> QED
    BY <2>1, <2>4 DEF Reservation
<1>4. ReaderState'
  BY ReaderFrame, Zenon DEF EnqueueReserve, consumerVars, Ring
<1> QED
  BY <1>1, <1>2, <1>3, <1>4 DEF Ring

(* A write that stays within what enqueue reserved leaves the unread         *)
(* messages alone.                                                           *)
LEMMA PendingWrite ==
  ASSUME Typed, Layout, Stored, Reservation, Writing,
         UNCHANGED <<wmo, rmo, sent, pseen>>,
         \A a \in Words :
           buffer'[a] # buffer[a] =>
             \/ /\ MsgStart(write_ix, psize) <= a
                /\ a < MsgStart(write_ix, psize) + Slot(psize)
             \/ Crosses(write_ix, psize) /\ a = write_ix
  PROVE  Layout' /\ Stored'
<1>1. Layout'
  BY LayoutFrame
<1>2. Stored'
  <2> SUFFICES ASSUME NEW k \in SeenRead.done + 1 .. Len(sent)
               PROVE  /\ buffer'[MsgBegin(k)] = SizeCell(sent[k])
                      /\ \A a \in DataWords(MsgBegin(k), sent[k]) :
                           buffer'[a] = DataCell(k)
                      /\ Wrapped(k) /\ wmo[k].lap >= SeenRead.lap =>
                           buffer'[wmo[k].ix] = SizeCell(0)
    BY Zenon DEF Stored, SeenRead, MsgBegin, MsgEnd, Wrapped
  <2> DEFINE start == MsgStart(write_ix, psize)
  <2>1. /\ k \in 1 .. Len(sent)
        /\ start + Slot(psize) <= MsgBegin(k) \/ MsgEnd(k) <= start
        /\ Crosses(write_ix, psize) => MsgEnd(k) <= write_ix
        /\ Wrapped(k) /\ wmo[k].lap >= SeenRead.lap =>
              ~ Crosses(write_ix, psize) /\ start + Slot(psize) <= wmo[k].ix
    BY PendingIsFree, Zenon DEF Layout
  <2>2. /\ psize \in PayloadSizes /\ write_ix \in Words
        /\ write_ix \in Nat /\ start \in Nat /\ Slot(psize) \in Nat
    BY PlaceFacts, SlotFacts, WordFacts, Zenon DEF Typed, Reservation
  <2>3. /\ MsgBegin(k) \in Words /\ MsgBegin(k) \in Nat /\ MsgEnd(k) \in Nat
        /\ MsgBegin(k) < MsgEnd(k)
    BY <2>1, MsgFacts, Zenon DEF Layout
  <2> HIDE DEF start
  <2>4. ASSUME NEW a \in Words, MsgBegin(k) <= a, a < MsgEnd(k)
        PROVE  buffer'[a] = buffer[a]
    <3>1. a \in Nat
      BY WordFacts
    <3>2. ~ (start <= a /\ a < start + Slot(psize))
      BY <2>1, <2>2, <2>3, <2>4, <3>1
    <3>3. ~ (Crosses(write_ix, psize) /\ a = write_ix)
      BY <2>1, <2>2, <2>3, <2>4, <3>1
    <3> QED
      BY <3>2, <3>3 DEF start
  <2>5. ASSUME Wrapped(k), wmo[k].lap >= SeenRead.lap
        PROVE  buffer'[wmo[k].ix] = buffer[wmo[k].ix]
    <3>4. k \in 1 .. Len(sent)
      BY <2>1
    <3>5. k \in 1 .. Len(wmo)
      BY <3>4 DEF Typed
    <3>1. wmo[k].ix \in Words /\ wmo[k].ix \in Nat
      BY <3>5, WordFacts, Zenon DEF Typed
    <3>2. ~ Crosses(write_ix, psize) /\ start + Slot(psize) <= wmo[k].ix
      BY <2>1, <2>5
    <3>3. ~ (wmo[k].ix < start + Slot(psize))
      BY ONLY <2>2, <3>1, <3>2
    <3> QED
      BY <3>1, <3>2, <3>3, Zenon DEF start
  <2>6. buffer'[MsgBegin(k)] = SizeCell(sent[k])
    BY <2>3, <2>4 DEF Stored
  <2>7. ASSUME NEW a \in DataWords(MsgBegin(k), sent[k])
        PROVE  buffer'[a] = DataCell(k)
    <3>1. a \in Words /\ MsgBegin(k) <= a /\ a < MsgEnd(k)
      BY <2>1, DataWordsFacts, Zenon DEF Layout
    <3> QED
      BY <2>4, <3>1 DEF Stored
  <2>8. Wrapped(k) /\ wmo[k].lap >= SeenRead.lap => buffer'[wmo[k].ix] = SizeCell(0)
    BY <2>5, Zenon DEF Stored
  <2> QED
    BY <2>6, <2>7, <2>8
<1> QED
  BY <1>1, <1>2

(* Between the load of read_ix_ and the store of write_ix_ only the place in *)
(* enqueue changes.                                                          *)
LEMMA WritingFrame ==
  ASSUME Reservation, Writing, UNCHANGED <<wmo, rmo, psize, pseen>>,
         ppc' \in {"payload", "header", "publish"} \/
           (ppc' = "sentinel" /\ Crosses(write_ix, psize))
  PROVE  Reservation'
<1>1. write_ix' = write_ix /\ SeenRead' = SeenRead
  BY DEF write_ix, SeenRead
<1> QED
  BY <1>1 DEF Reservation, Writing

(* Where the pending message and its parts lie. *)
LEMMA PendingFacts ==
  ASSUME Typed, Reservation, Writing
  PROVE  /\ psize \in PayloadSizes /\ psize \in Nat
         /\ write_ix \in Words /\ write_ix \in Nat
         /\ MsgStart(write_ix, psize) \in Words
         /\ MsgStart(write_ix, psize) \in Nat
         /\ Slot(psize) \in Nat /\ Slot(psize) >= 8 + psize
         /\ psize >= 1
         /\ Crosses(write_ix, psize) =>
              MsgStart(write_ix, psize) + Slot(psize) <= write_ix
         /\ \A a \in DataWords(MsgStart(write_ix, psize), psize) :
              /\ a \in Words /\ a \in Nat
              /\ MsgStart(write_ix, psize) < a
              /\ a < MsgStart(write_ix, psize) + Slot(psize)
<1>1. psize \in PayloadSizes /\ write_ix \in Words
  BY DEF Typed, Reservation
<1>2. /\ psize \in Nat /\ write_ix \in Nat /\ psize >= 1
      /\ MsgStart(write_ix, psize) \in Words
      /\ MsgStart(write_ix, psize) \in Nat
      /\ Slot(psize) \in Nat /\ Slot(psize) >= 8 + psize
  BY <1>1, PlaceFacts, SlotFacts, WordFacts
<1>3. ASSUME Crosses(write_ix, psize)
      PROVE  MsgStart(write_ix, psize) + Slot(psize) <= write_ix
  <2>1. Slot(psize) < SeenRead.ix /\ SeenRead.ix <= write_ix
    <3>1. SeenRead.ix \in Nat
      BY DEF Typed
    <3> QED
      BY <1>2, <1>3, <3>1 DEF Reservation, Full, FullAfterWrap, Slot
  <2>2. MsgStart(write_ix, psize) = 0 /\ SeenRead.ix \in Nat
    BY <1>3 DEF MsgStart, Typed
  <2> QED
    BY <1>2, <2>1, <2>2
<1>4. ASSUME NEW a \in DataWords(MsgStart(write_ix, psize), psize)
      PROVE  /\ a \in Words /\ a \in Nat
             /\ MsgStart(write_ix, psize) < a
             /\ a < MsgStart(write_ix, psize) + Slot(psize)
  BY <1>2, WordFacts DEF DataWords, HeaderSize
<1> QED
  BY <1>1, <1>2, <1>3, <1>4, Zenon

(* memcpy of the payload touches no stored message.                          *)
LEMMA CopyPayloadStep ==
  ASSUME Typed, Ring, CopyPayload
  PROVE  Ring'
<1> DEFINE start == MsgStart(write_ix, psize)
<1>1. /\ Writing /\ ppc' = "header"
      /\ UNCHANGED <<wmo, rmo, sent, psize, pseen, cpc, cview, cseen>>
      /\ \A a \in Words : buffer'[a] = IF a \in DataWords(start, psize)
                                     THEN DataCell(Len(sent) + 1) ELSE buffer[a]
  BY DEF CopyPayload, Writing, consumerVars
<1>2. \A a \in Words : buffer'[a] # buffer[a] => start <= a /\ a < start + Slot(psize)
  BY <1>1, PendingFacts DEF Ring
<1>3. Layout' /\ Stored'
  BY <1>1, <1>2, PendingWrite, Zenon DEF Ring
<1>4. Reservation'
  BY <1>1, WritingFrame DEF Ring
<1>5. PartlyStored'
  <2>1. write_ix' = write_ix
    BY <1>1 DEF write_ix
  <2>2. \A a \in DataWords(start, psize) : buffer'[a] = DataCell(Len(sent) + 1)
    BY <1>1 DEF DataWords
  <2> QED
    BY <1>1, <2>1, <2>2 DEF PartlyStored
<1>6. ReaderState'
  BY <1>1, ReaderFrame DEF Ring
<1> QED
  BY <1>3, <1>4, <1>5, <1>6 DEF Ring

(* memcpy of the header touches no stored message.                           *)
LEMMA CopyHeaderStep ==
  ASSUME Typed, buffer \in [Words -> Cell], Ring, CopyHeader
  PROVE  Ring'
<1> DEFINE start == MsgStart(write_ix, psize)
<1>1. /\ Writing /\ ppc = "header"
      /\ ppc' = IF Crosses(write_ix, psize) THEN "sentinel" ELSE "publish"
      /\ UNCHANGED <<wmo, rmo, sent, psize, pseen, cpc, cview, cseen>>
      /\ buffer' = [buffer EXCEPT ![start] = SizeCell(psize)]
  BY DEF CopyHeader, Writing, consumerVars
<1>2. /\ start \in Words /\ start \in Nat /\ Slot(psize) \in Nat /\ Slot(psize) > 0
      /\ \A a \in DataWords(start, psize) : a \in Words /\ a \in Nat /\ start < a
  <2>1. /\ start \in Words /\ start \in Nat /\ Slot(psize) \in Nat
        /\ Slot(psize) >= 8 + psize /\ psize >= 1 /\ psize \in Nat
        /\ \A a \in DataWords(start, psize) : a \in Words /\ a \in Nat /\ start < a
    BY <1>1, PendingFacts, Zenon DEF Ring
  <2>2. Slot(psize) > 0
    BY ONLY <2>1
  <2> QED
    BY <2>1, <2>2, Zenon
<1>3. /\ buffer'[start] = SizeCell(psize)
      /\ \A a \in Words : a # start => buffer'[a] = buffer[a]
  BY <1>1, <1>2, Zenon
<1>4. \A a \in Words : buffer'[a] # buffer[a] => start <= a /\ a < start + Slot(psize)
  <2>1. start <= start /\ start < start + Slot(psize)
    BY ONLY <1>2
  <2> QED
    BY <1>3, <2>1, Zenon
<1>5. Layout' /\ Stored'
  BY <1>1, <1>4, PendingWrite DEF Ring
<1>6. Reservation'
  BY <1>1, WritingFrame DEF Ring
<1>7. PartlyStored'
  <2>1. write_ix' = write_ix
    BY <1>1 DEF write_ix
  <2>2. \A a \in DataWords(start, psize) : buffer'[a] = DataCell(Len(sent) + 1)
    BY <1>1, <1>2, <1>3 DEF Ring, PartlyStored
  <2>3. ppc' = "publish" => ~ Crosses(write_ix, psize)
    BY <1>1
  <2> QED
    BY <1>1, <1>3, <2>1, <2>2, <2>3 DEF PartlyStored
<1>8. ReaderState'
  BY <1>1, ReaderFrame DEF Ring
<1> QED
  BY <1>5, <1>6, <1>7, <1>8 DEF Ring

(* The sentinel is written on no stored message.                             *)
LEMMA WriteSentinelStep ==
  ASSUME Typed, buffer \in [Words -> Cell], Ring, WriteSentinel
  PROVE  Ring'
<1> DEFINE start == MsgStart(write_ix, psize)
<1>1. /\ Writing /\ ppc = "sentinel" /\ ppc' = "publish"
      /\ UNCHANGED <<wmo, rmo, sent, psize, pseen, cpc, cview, cseen>>
      /\ buffer' = [buffer EXCEPT ![write_ix] = SizeCell(0)]
      /\ Crosses(write_ix, psize)
  BY DEF WriteSentinel, Writing, consumerVars, Ring, Reservation
<1>2. /\ start \in Words /\ start \in Nat /\ Slot(psize) \in Nat /\ Slot(psize) > 0
      /\ write_ix \in Words /\ write_ix \in Nat /\ start + Slot(psize) <= write_ix
      /\ \A a \in DataWords(start, psize) :
           a \in Words /\ a \in Nat /\ a < start + Slot(psize)
  BY <1>1, PendingFacts DEF Ring
<1>3. /\ buffer'[write_ix] = SizeCell(0)
      /\ \A a \in Words : a # write_ix => buffer'[a] = buffer[a]
  BY <1>1, <1>2
<1>4. \A a \in Words : buffer'[a] # buffer[a] =>
         Crosses(write_ix, psize) /\ a = write_ix
  BY <1>1, <1>3
<1>5. Layout' /\ Stored'
  BY <1>1, <1>4, PendingWrite DEF Ring
<1>6. Reservation'
  BY <1>1, WritingFrame DEF Ring
<1>7. PartlyStored'
  <2>1. write_ix' = write_ix
    BY <1>1 DEF write_ix
  <2>2. \A a \in DataWords(start, psize) : a # write_ix
    BY <1>2
  <2>3. start # write_ix
    BY <1>2
  <2>4. \A a \in DataWords(start, psize) : buffer'[a] = DataCell(Len(sent) + 1)
    BY <1>1, <1>2, <1>3, <2>2 DEF Ring, PartlyStored
  <2>5. buffer'[start] = SizeCell(psize)
    BY <1>1, <1>2, <1>3, <2>3 DEF Ring, PartlyStored
  <2> QED
    BY <1>1, <1>3, <2>1, <2>4, <2>5 DEF PartlyStored
<1>8. ReaderState'
  BY <1>1, ReaderFrame DEF Ring
<1> QED
  BY <1>5, <1>6, <1>7, <1>8 DEF Ring

(* The store of write_ix_ adds one message behind all others; the places of  *)
(* the others stay what they were.                                           *)
LEMMA StoreWriteIxFacts ==
  ASSUME TypeOK, Typed, StoreWriteIx
  PROVE  /\ Len(sent) \in Nat /\ Len(wmo) = Len(sent) + 1
         /\ Len(sent') = Len(sent) + 1 /\ Len(wmo') = Len(sent) + 2
         /\ \A k \in 1 .. Len(sent) :
              /\ sent'[k] = sent[k]
              /\ MsgBegin(k)' = MsgBegin(k) /\ MsgEnd(k)' = MsgEnd(k)
              /\ Wrapped(k)' <=> Wrapped(k)
         /\ \A k \in 1 .. Len(sent) + 1 : wmo'[k] = wmo[k]
         /\ wmo[Len(sent) + 1] = LastWrite /\ LastWrite.ix = write_ix
         /\ LastWrite' = wmo'[Len(sent) + 2]
         /\ sent'[Len(sent) + 1] = psize
         /\ LastWrite'.ix = MsgStart(write_ix, psize) + Slot(psize)
         /\ LastWrite'.lap = IF Crosses(write_ix, psize)
                             THEN LastWrite.lap + 1 ELSE LastWrite.lap
         /\ \A k \in {Len(sent) + 1} : MsgBegin(k)' = MsgStart(write_ix, psize)
<1> DEFINE e == Len(sent)
           new == [ix  |-> next_index(MsgStart(write_ix, psize), total_size(psize)),
                   lap |-> IF Crosses(write_ix, psize)
                           THEN LastWrite.lap + 1 ELSE LastWrite.lap]
<1>1. e \in Nat /\ Len(wmo) = e + 1
  BY Zenon DEF Typed
<1>2. /\ psize \in PayloadSizes /\ write_ix \in Words /\ Slot(psize) \in Nat
      /\ MsgStart(write_ix, psize) \in Nat
  <2>1. psize \in PayloadSizes /\ write_ix \in Words
    BY DEF Typed, StoreWriteIx
  <2> QED
    BY <2>1, SlotFacts, WordFacts DEF MsgStart
<1>3. /\ new.ix = MsgStart(write_ix, psize) + Slot(psize) /\ new.ix \in Words
  BY <1>2, PlaceFacts
<1>4. wmo' = Append(wmo, new) /\ sent' = Append(sent, psize)
  BY DEF StoreWriteIx, write_ix, LastWrite
<1>5. new \in [ix : Words, lap : Nat]
  <2>1. LastWrite.lap \in Nat
    BY Zenon DEF Typed
  <2> DEFINE i == new.ix
             lap == IF Crosses(write_ix, psize)
                    THEN LastWrite.lap + 1 ELSE LastWrite.lap
  <2>2. lap \in Nat /\ i \in Words
    BY <1>3, <2>1
  <2>3. new = [ix |-> i, lap |-> lap]
    OBVIOUS
  <2> HIDE DEF i, lap, new
  <2> QED
    BY ONLY <2>2, <2>3
<1>14. /\ new.lap = IF Crosses(write_ix, psize)
                    THEN LastWrite.lap + 1 ELSE LastWrite.lap
  OBVIOUS
<1> HIDE DEF new
<1>6. /\ Len(wmo') = e + 2 /\ wmo'[e + 2] = new
      /\ \A k \in 1 .. e + 1 : wmo'[k] = wmo[k]
  <2>1. /\ Len(wmo') = Len(wmo) + 1 /\ wmo'[Len(wmo) + 1] = new
        /\ \A k \in 1 .. Len(wmo) : wmo'[k] = wmo[k]
    <3> DEFINE S == [ix : Words, lap : Nat]
    <3>1. wmo \in Seq(S) /\ new \in S
      BY <1>5 DEF TypeOK
    <3> HIDE DEF S
    <3> QED
      BY <1>4, <3>1, AppendFacts
  <2> QED
    BY <1>1, <2>1
<1>7. /\ Len(sent') = e + 1 /\ sent'[e + 1] = psize
      /\ \A k \in 1 .. e : sent'[k] = sent[k]
  <2>1. sent \in Seq(PayloadSizes)
    BY Zenon DEF TypeOK
  <2>2. /\ Len(Append(sent, psize)) = Len(sent) + 1
        /\ \A k \in 1 .. Len(sent) : Append(sent, psize)[k] = sent[k]
        /\ Append(sent, psize)[Len(sent) + 1] = psize
    BY ONLY <1>2, <2>1
  <2> QED
    BY ONLY <1>4, <2>2, Zenon
<1>8. wmo[e + 1] = LastWrite /\ LastWrite.ix = write_ix
  BY <1>1 DEF LastWrite, write_ix
<1>9. LastWrite' = wmo'[e + 2] /\ LastWrite' = new
  BY <1>6 DEF LastWrite
<1>10. ASSUME NEW k \in 1 .. e
       PROVE  /\ MsgBegin(k)' = MsgBegin(k) /\ MsgEnd(k)' = MsgEnd(k)
              /\ Wrapped(k)' <=> Wrapped(k)
  <2>1. k \in 1 .. e + 1 /\ k + 1 \in 1 .. e + 1
    BY <1>1
  <2>2. wmo'[k] = wmo[k] /\ wmo'[k + 1] = wmo[k + 1] /\ sent'[k] = sent[k]
    BY <1>6, <1>7, <2>1, Zenon
  <2> QED
    BY <2>2, Zenon DEF MsgBegin, MsgEnd, Wrapped
<1>11. ASSUME NEW k, k = e + 1
       PROVE  MsgBegin(k)' = MsgStart(write_ix, psize)
  <2>1. wmo'[k + 1] = new /\ sent'[k] = psize
    BY <1>1, <1>6, <1>7, <1>11
  <2> QED
    BY <1>2, <1>3, <2>1 DEF MsgBegin, MsgEnd
<1> QED
  BY <1>1, <1>3, <1>6, <1>7, <1>8, <1>9, <1>10, <1>11, <1>14, Zenon

(* The store of write_ix_ turns the partly stored message into a stored one. *)
LEMMA StoreWriteIxStep ==
  ASSUME TypeOK, Typed, Ring, StoreWriteIx
  PROVE  Ring'
<1> DEFINE e == Len(sent)
           start == MsgStart(write_ix, psize)
           W == LastWrite
           V == LastWrite'
<1>1. /\ e \in Nat /\ Len(wmo) = e + 1 /\ Len(sent') = e + 1 /\ Len(wmo') = e + 2
      /\ \A k \in 1 .. e : /\ sent'[k] = sent[k]
                           /\ MsgBegin(k)' = MsgBegin(k) /\ MsgEnd(k)' = MsgEnd(k)
                           /\ Wrapped(k)' <=> Wrapped(k)
      /\ \A k \in 1 .. e + 1 : wmo'[k] = wmo[k]
      /\ wmo[e + 1] = W /\ V = wmo'[e + 2] /\ sent'[e + 1] = psize
      /\ \A k \in {e + 1} : MsgBegin(k)' = start
  BY StoreWriteIxFacts, Zenon DEF Ring
<1>2. /\ W.ix = write_ix
      /\ V.ix = start + Slot(psize)
      /\ V.lap = IF Crosses(write_ix, psize) THEN W.lap + 1 ELSE W.lap
  BY StoreWriteIxFacts DEF Ring
<1>3. /\ Writing /\ ppc = "publish" /\ ppc' = "count"
      /\ UNCHANGED <<buffer, rmo, psize, pseen, cpc, cview, cseen>>
  BY DEF StoreWriteIx, Writing, consumerVars
<1>4. /\ psize \in PayloadSizes /\ start \in Words /\ start \in Nat
      /\ W.ix \in Nat /\ W.lap \in Nat /\ Slot(psize) \in Nat /\ write_ix \in Nat
      /\ Crosses(write_ix, psize) => start = 0
      /\ ~ Crosses(write_ix, psize) => start = W.ix
  BY <1>2, <1>3, PendingFacts, WordFacts, Zenon DEF Ring, MsgStart, Typed
<1>5. WriteChain /\ WriteOrder /\ ReadPosition /\ ReadOrder /\ WithinALap
  BY DEF Ring, Layout
<1> HIDE DEF start, W, V
<1>6. WriteChain'
  <2> SUFFICES ASSUME NEW k \in 1 .. e + 1
               PROVE  /\ MsgBegin(k)' \in Words
                      /\ \/ /\ wmo'[k + 1].lap = wmo'[k].lap
                            /\ MsgBegin(k)' = wmo'[k].ix
                         \/ /\ wmo'[k + 1].lap = wmo'[k].lap + 1
                            /\ MsgBegin(k)' = 0
    BY <1>1, Zenon DEF WriteChain, Words
  <2>1. CASE k \in 1 .. e
    <3>1. k \in 1 .. e + 1 /\ k + 1 \in 1 .. e + 1
      BY <1>1, <2>1
    <3>2. wmo'[k] = wmo[k] /\ wmo'[k + 1] = wmo[k + 1] /\ MsgBegin(k)' = MsgBegin(k)
      BY <1>1, <2>1, <3>1
    <3> QED
      BY <1>5, <2>1, <3>2, Zenon DEF WriteChain
  <2>2. CASE k = e + 1
    <3>1. wmo'[k] = W /\ wmo'[k + 1] = V /\ MsgBegin(k)' = start
      BY <1>1, <2>2
    <3> QED
      BY <1>2, <1>4, <3>1
  <2>3. k \in 1 .. e \/ k = e + 1
    BY <1>1
  <2> QED
    BY <2>1, <2>2, <2>3, Zenon
<1>7. WriteOrder'
  <2> SUFFICES ASSUME NEW j \in 1 .. e + 2, NEW k \in 1 .. e + 2, j < k
               PROVE  /\ wmo'[j].lap <= wmo'[k].lap
                      /\ wmo'[j].lap = wmo'[k].lap =>
                           wmo'[j].ix <= MsgBegin(k - 1)'
    BY <1>1 DEF WriteOrder
  <2>1. CASE k \in 1 .. e + 1
    <3>1. j \in 1 .. e + 1 /\ k - 1 \in 1 .. e
      BY <1>1, <2>1
    <3>2. wmo'[j] = wmo[j] /\ wmo'[k] = wmo[k] /\ MsgBegin(k - 1)' = MsgBegin(k - 1)
      BY <1>1, <2>1, <3>1
    <3> QED
      BY <1>1, <1>5, <2>1, <3>1, <3>2, SMTT(30) DEF WriteOrder
  <2>2. CASE k = e + 2
    <3>1. j \in 1 .. e + 1 /\ j \in 1 .. Len(wmo) /\ Len(wmo) \in 1 .. Len(wmo)
          /\ j <= Len(wmo) /\ k - 1 = e + 1
      BY <1>1, <2>2
    <3>2. wmo'[j] = wmo[j] /\ wmo'[k] = V /\ MsgBegin(k - 1)' = start
      BY <1>1, <2>2, <3>1
    <3>3. /\ wmo[j].lap \in Nat /\ wmo[j].ix \in Nat /\ wmo[j].lap <= W.lap
          /\ wmo[j].lap = W.lap => wmo[j].ix <= W.ix
      BY <1>1, <1>5, <3>1, WriteMonotonic, Zenon
    <3>4. wmo[j].lap <= V.lap
      BY <1>2, <1>4, <3>3
    <3>5. ASSUME wmo[j].lap = V.lap
          PROVE  wmo[j].ix <= start
      <4>1. ~ Crosses(write_ix, psize)
        BY <1>2, <1>4, <3>3, <3>5
      <4> QED
        BY <1>2, <1>4, <3>3, <3>5, <4>1
    <3> QED
      BY <3>2, <3>4, <3>5
  <2> QED
    BY <1>1, <2>1, <2>2
<1>8. ReadPosition'
  <2> SUFFICES ASSUME NEW n \in 1 .. Len(rmo)
               PROVE  /\ rmo[n].done \in 0 .. e + 1
                      /\ \/ /\ rmo[n].ix = wmo'[rmo[n].done + 1].ix
                            /\ rmo[n].lap = wmo'[rmo[n].done + 1].lap
                         \/ /\ rmo[n].done < e + 1
                            /\ \A k \in {rmo[n].done + 1} : Wrapped(k)'
                            /\ rmo[n].ix = 0
                            /\ rmo[n].lap = wmo'[rmo[n].done + 2].lap
    <3>1. ASSUME NEW k PROVE Wrapped(k)' <=> wmo'[k + 1].lap # wmo'[k].lap
      BY Zenon DEF Wrapped
    <3> QED
      BY <1>1, <1>3, <3>1, Zenon DEF ReadPosition, Wrapped
  <2> DEFINE d == rmo[n].done
  <2>1. d \in 0 .. e /\ d + 1 \in 1 .. e + 1
    <3>1. d \in 0 .. e
      BY <1>5, Zenon DEF ReadPosition
    <3> HIDE DEF d, e
    <3> QED
      BY ONLY <1>1, <3>1
  <2>2. wmo'[d + 1] = wmo[d + 1]
    BY <1>1, <2>1
  <2>3. d < e => wmo'[d + 2] = wmo[d + 2] /\ d + 1 \in 1 .. e
    BY <1>1, <2>1, SMTT(30)
  <2>4. \/ rmo[n].ix = wmo[d + 1].ix /\ rmo[n].lap = wmo[d + 1].lap
        \/ /\ d < e /\ Wrapped(d + 1) /\ rmo[n].ix = 0
           /\ rmo[n].lap = wmo[d + 2].lap
    BY <1>5, Zenon DEF ReadPosition
  <2>5. ASSUME d < e, Wrapped(d + 1), NEW k \in {d + 1}
        PROVE  Wrapped(k)'
    BY <1>1, <2>3, <2>5
  <2>6. d \in 0 .. e + 1 /\ (d < e => d < e + 1)
    BY <1>1, <2>1
  <2> HIDE DEF d
  <2> QED
    BY <2>2, <2>3, <2>4, <2>5, <2>6, Zenon DEF d
<1>9. ReadOrder'
  BY <1>3, <1>5 DEF ReadOrder
<1>10. WithinALap'
  <2> DEFINE R == SeenRead
  <2>1. SeenRead' = R /\ R.ix \in Nat /\ R.lap \in Nat
    BY <1>3 DEF Typed, SeenRead
  <2>2. /\ ~ Full(write_ix, R.ix, psize)
        /\ Crosses(write_ix, psize) => R.ix <= write_ix
    BY <1>3 DEF Ring, Reservation
  <2>3. \/ W.lap = R.lap /\ R.ix <= W.ix
        \/ W.lap = R.lap + 1 /\ W.ix < R.ix
    BY <1>5 DEF WithinALap, W
  <2>4. /\ Crosses(write_ix, psize) => Slot(psize) < R.ix
        /\ ~ Crosses(write_ix, psize) /\ W.ix < R.ix => W.ix + Slot(psize) < R.ix
    <3>1. write_ix \in Words
      BY Zenon DEF Typed
    <3>2. next_index(write_ix, total_size(psize)) = write_ix + Slot(psize)
      BY <1>4, <3>1, PlaceFacts
    <3> QED
      BY <1>2, <1>4, <2>1, <2>2, <3>2 DEF Full, FullAfterWrap, FullAhead, Slot
  <2> HIDE DEF R
  <2>5. \/ V.lap = R.lap /\ R.ix <= V.ix
        \/ V.lap = R.lap + 1 /\ V.ix < R.ix
    BY <1>2, <1>4, <2>1, <2>2, <2>3, <2>4
  <2> QED
    BY <2>1, <2>5 DEF WithinALap, V
<1>13. Reservation' /\ PartlyStored'
  BY <1>3, IdleFrame
<1>11. Stored'
  <2> SUFFICES ASSUME NEW k \in SeenRead.done + 1 .. e + 1
               PROVE  /\ buffer[MsgBegin(k)'] = SizeCell(sent'[k])
                      /\ \A a \in DataWords(MsgBegin(k)', sent'[k]) :
                           buffer[a] = DataCell(k)
                      /\ wmo'[k + 1].lap # wmo'[k].lap /\ wmo'[k].lap >= SeenRead.lap
                           => buffer[wmo'[k].ix] = SizeCell(0)
    <3>1. SeenRead' = SeenRead
      BY <1>3, Zenon DEF SeenRead
    <3> QED
      BY <1>1, <1>3, <3>1, Zenon DEF Stored, Wrapped, DataWords
  <2>1. SeenRead.done \in Nat
    BY Zenon DEF Typed
  <2>2. CASE k \in SeenRead.done + 1 .. e
    <3>1. k \in 1 .. e /\ k \in 1 .. e + 1 /\ k + 1 \in 1 .. e + 1
      <4>1. e \in Nat
        BY <1>1
      <4> HIDE DEF e
      <4> QED
        BY ONLY <2>1, <2>2, <4>1
    <3>2. /\ MsgBegin(k)' = MsgBegin(k) /\ sent'[k] = sent[k]
          /\ wmo'[k] = wmo[k] /\ wmo'[k + 1] = wmo[k + 1]
      BY <1>1, <3>1, Zenon
    <3> QED
      BY <2>2, <3>2, Zenon DEF Ring, Stored, Wrapped
  <2>3. CASE k = e + 1
    <3>1. /\ MsgBegin(k)' = start /\ sent'[k] = psize
          /\ wmo'[k] = W /\ wmo'[k + 1] = V
      BY <1>1, <2>3
    <3>2. /\ \A a \in DataWords(start, psize) : buffer[a] = DataCell(e + 1)
          /\ buffer[start] = SizeCell(psize)
          /\ Crosses(write_ix, psize) => buffer[write_ix] = SizeCell(0)
      BY <1>3 DEF Ring, PartlyStored, start
    <3>3. V.lap # W.lap => Crosses(write_ix, psize)
      BY <1>2
    <3> QED
      BY <1>2, <2>3, <3>1, <3>2, <3>3, Zenon
  <2>4. k \in SeenRead.done + 1 .. e \/ k = e + 1
    BY <1>1, <2>1
  <2> QED
    BY <2>2, <2>3, <2>4, Zenon
<1>12. ReaderState'
  <2> DEFINE d == Committed
  <2>1. /\ d \in Nat /\ LastRead' = LastRead /\ Committed' = d
        /\ cseen \in 1 .. e + 1
    BY <1>1, <1>3, Zenon DEF Typed, Committed, LastRead
  <2>2. ReaderState
    BY DEF Ring
  <2>3. d < cseen /\ d + 1 \in 1 .. e + 1 /\ wmo'[d + 1] = wmo[d + 1]
    BY <1>1, <2>1, <2>2, SMTT(30) DEF ReaderState
  <2>4. ASSUME d + 1 < cseen
        PROVE  /\ d + 1 \in 1 .. e /\ d + 2 \in 1 .. e + 1
               /\ sent'[d + 1] = sent[d + 1] /\ wmo'[d + 2] = wmo[d + 2]
               /\ \A k \in {d + 1} : /\ MsgBegin(k)' = MsgBegin(k)
                                     /\ Wrapped(k)' <=> Wrapped(k)
    BY <1>1, <2>1, <2>4, SMTT(30)
  <2>5. cpc = "wrap" => d + 1 < cseen /\ (\A k \in {d + 1} : Wrapped(k)')
    BY <2>2, <2>4 DEF ReaderState
  <2>6. cpc = "view" => /\ cview.size = sent'[d + 1]
                        /\ \A k \in {d + 1} : /\ cview.index = MsgBegin(k)'
                                              /\ LastRead.ix = MsgBegin(k)'
                        /\ LastRead.lap = wmo'[d + 2].lap
    BY <2>2, <2>4 DEF ReaderState
  <2>7. ASSUME NEW k, k = d + 1
        PROVE  /\ MsgBegin(k)' = (MsgBegin(Committed + 1))'
               /\ Wrapped(k)' <=> (Wrapped(Committed + 1))'
    BY <2>1, <2>7 DEF MsgBegin, MsgEnd, Wrapped
  <2> QED
    BY <1>3, <2>1, <2>2, <2>3, <2>5, <2>6, <2>7, Zenon DEF ReaderState
<1> QED
  BY <1>6, <1>7, <1>8, <1>9, <1>10, <1>11, <1>12, <1>13 DEF Ring, Layout

=============================================================================
