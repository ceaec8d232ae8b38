--------------------------- MODULE SPSCQueueProofs ---------------------------
(****************************************************************************)
(* The steps of dequeue_begin and dequeue_commit keep the invariant of      *)
(* SPSCQueueRing, and what the invariant gives: the properties of SPSCQueue *)
(* for every buffer size, every set of payload sizes, any number of messages *)
(* and of crashes, and the refinement of MessageFIFO.                       *)
(*                                                                          *)
(* IndInv says where every message lies, which part of it is in the buffer, *)
(* and how far the reader and the writer can be apart.  It is inductive     *)
(* while `overruns' is 0; UniformIsSafe shows that messages of one size     *)
(* keep it 0.                                                               *)
(****************************************************************************)
EXTENDS SPSCQueueRing, SPSCQueueRefinement

----------------------------------------------------------------------------
(* Each step of dequeue_begin and dequeue_commit. *)

(* A consumer step that stores no index. *)
LEMMA ConsumerFrame ==
  ASSUME Ring, UNCHANGED <<buffer, wmo, rmo, sent, ppc, psize, pseen>>
  PROVE  Layout' /\ Stored' /\ Reservation' /\ PartlyStored'
<1>1. SeenRead' = SeenRead
  BY DEF SeenRead
<1> QED
  BY <1>1, LayoutFrame, StoredFrame, ReservationFrame, PartlyStoredFrame DEF Ring

(* dequeue_begin finds the queue empty only if it is, and a header otherwise. *)
LEMMA LoadWriteIxStep ==
  ASSUME Typed, Ring, NEW n \in cseen .. Len(wmo), LoadWriteIx(n)
  PROVE  Ring'
<1> DEFINE d == Committed
<1>1. /\ UNCHANGED <<buffer, wmo, rmo, sent, ppc, psize, pseen>>
      /\ cseen' = n
      /\ cpc' = IF read_ix = wmo[n].ix THEN "empty" ELSE "header"
  BY DEF LoadWriteIx, producerVars
<1>2. /\ Committed' = d /\ LastRead' = LastRead
      /\ d \in Nat /\ cseen \in Nat /\ n \in Nat /\ n \in 1 .. Len(wmo) /\ cseen <= n
      /\ d < cseen
      /\ LastRead.lap # wmo[d + 1].lap => d + 1 < cseen
      /\ Len(rmo) \in pseen .. Len(rmo) /\ Len(rmo) \in 1 .. Len(rmo)
      /\ read_ix = rmo[Len(rmo)].ix /\ d = rmo[Len(rmo)].done
  BY <1>1 DEF Typed, Committed, LastRead, read_ix, Ring, ReaderState
<1>3. d < n /\ (d + 1 < n \/ n = d + 1)
  BY <1>2
<1>4. read_ix = wmo[n].ix => n = d + 1
  BY <1>2, <1>3, Unambiguous, Zenon DEF Ring
<1>5. n = d + 1 => read_ix = wmo[n].ix
  <2> SUFFICES ASSUME n = d + 1 PROVE read_ix = wmo[d + 1].ix
    OBVIOUS
  <2>1. LastRead.lap = wmo[d + 1].lap
    BY <1>2
  <2>2. \/ LastRead.ix = wmo[d + 1].ix
        \/ /\ d < Len(sent) /\ Wrapped(d + 1)
           /\ LastRead.lap = wmo[d + 2].lap
    BY <1>2 DEF Ring, Layout, ReadPosition, LastRead
  <2>3. (d + 1) + 1 = d + 2
    BY <1>2
  <2> QED
    BY <2>1, <2>2, <2>3 DEF Wrapped, read_ix, LastRead
<1>6. ReaderState'
  <2>1. d < n /\ (LastRead.lap # wmo[d + 1].lap => d + 1 < n)
    BY <1>2
  <2>2. /\ cpc' = "empty" => d = n - 1
        /\ cpc' = "header" => d + 1 < n
        /\ cpc' \in {"empty", "header"}
    BY <1>1, <1>2, <1>3, <1>4, <1>5
  <2> QED
    BY <1>1, <1>2, <2>1, <2>2 DEF ReaderState
<1> QED
  BY <1>1, <1>6, ConsumerFrame DEF Ring

(* The word at read_ix_ is a header: of the oldest unread message, or a      *)
(* sentinel if that message starts the next lap.                             *)
LEMMA HeaderAtReadIx ==
  ASSUME Typed, Ring, Committed + 1 < cseen
  PROVE  \/ /\ LastRead.ix = MsgBegin(Committed + 1)
            /\ LastRead.lap = wmo[Committed + 2].lap
            /\ SizesAt(read_ix) = {sent[Committed + 1]}
            /\ sent[Committed + 1] # 0
         \/ /\ Wrapped(Committed + 1)
            /\ LastRead.lap = wmo[Committed + 1].lap
            /\ SizesAt(read_ix) = {0}
<1> DEFINE d == Committed
<1>1. /\ d \in Nat /\ d + 1 \in 1 .. Len(sent)
      /\ d + 1 \in SeenRead.done + 1 .. Len(sent)
      /\ \/ /\ LastRead.ix = MsgBegin(d + 1)
            /\ LastRead.lap = wmo[d + 2].lap
         \/ /\ Wrapped(d + 1)
            /\ LastRead.ix = wmo[d + 1].ix
            /\ LastRead.lap = wmo[d + 1].lap
            /\ LastRead.lap >= SeenRead.lap
  BY NextMessage DEF Ring
<1>2. /\ buffer[MsgBegin(d + 1)] = SizeCell(sent[d + 1])
      /\ Wrapped(d + 1) /\ wmo[d + 1].lap >= SeenRead.lap =>
           buffer[wmo[d + 1].ix] = SizeCell(0)
  BY <1>1 DEF Ring, Stored
<1>3. MsgBegin(d + 1) \in Words /\ sent[d + 1] # 0
  <2>1. MsgBegin(d + 1) \in Words /\ sent[d + 1] \in PayloadSizes
    BY <1>1, MsgFacts DEF Ring, Layout
  <2> QED
    BY <2>1, SlotFacts
<1>4. wmo[d + 1].ix \in Words
  <2>1. d + 1 \in 1 .. Len(wmo)
    BY <1>1 DEF Typed
  <2> QED
    BY <2>1 DEF Typed
<1>5. read_ix = LastRead.ix
  BY DEF read_ix, LastRead
<1>6. CASE LastRead.ix = MsgBegin(d + 1) /\ LastRead.lap = wmo[d + 2].lap
  <2>1. SizesAt(read_ix) = {sent[d + 1]}
    BY <1>2, <1>3, <1>5, <1>6 DEF SizesAt, SizeCell
  <2> QED
    BY <1>3, <1>6, <2>1
<1>7. CASE /\ Wrapped(d + 1) /\ LastRead.ix = wmo[d + 1].ix
           /\ LastRead.lap = wmo[d + 1].lap /\ LastRead.lap >= SeenRead.lap
  <2>1. SizesAt(read_ix) = {0}
    BY <1>2, <1>4, <1>5, <1>7 DEF SizesAt, SizeCell
  <2> QED
    BY <1>7, <2>1
<1> QED
  BY <1>1, <1>6, <1>7

(* dequeue_begin reads 0 only where the oldest unread message has wrapped.   *)
LEMMA ReadSentinelStep ==
  ASSUME Typed, Ring, ReadSentinel
  PROVE  Ring'
<1>1. /\ UNCHANGED <<buffer, wmo, rmo, sent, ppc, psize, pseen, cview, cseen>>
      /\ cpc = "header" /\ cpc' = "wrap" /\ 0 \in SizesAt(read_ix)
  BY DEF ReadSentinel, producerVars
<1>2. Committed + 1 < cseen /\ ReaderState
  BY <1>1 DEF Ring, ReaderState
<1>3. Wrapped(Committed + 1) /\ LastRead.lap = wmo[Committed + 1].lap
  BY <1>1, <1>2, HeaderAtReadIx
<1>4. ReaderState'
  BY <1>1, <1>2, <1>3 DEF ReaderState, Committed, LastRead, Wrapped
<1> QED
  BY <1>1, <1>4, ConsumerFrame DEF Ring

(* dequeue_begin reads the size of the oldest unread message.                *)
LEMMA ReadHeaderStep ==
  ASSUME Typed, Ring, NEW n \in SizesAt(read_ix), ReadHeader(n)
  PROVE  Ring'
<1>1. /\ UNCHANGED <<buffer, wmo, rmo, sent, ppc, psize, pseen, cseen>>
      /\ cpc = "header" /\ cpc' = "view" /\ n # 0
      /\ cview' = [index |-> read_ix, size |-> n]
  BY DEF ReadHeader, producerVars
<1>2. Committed + 1 < cseen /\ ReaderState
  BY <1>1 DEF Ring, ReaderState
<1>3. /\ LastRead.ix = MsgBegin(Committed + 1)
      /\ LastRead.lap = wmo[Committed + 2].lap
      /\ n = sent[Committed + 1]
  BY <1>1, <1>2, HeaderAtReadIx
<1>4. cview'.index = LastRead.ix /\ cview'.size = n
  BY <1>1 DEF read_ix, LastRead
<1>5. ReaderState'
  BY <1>1, <1>2, <1>3, <1>4, Zenon
     DEF ReaderState, Committed, LastRead, MsgBegin, MsgEnd
<1> QED
  BY <1>1, <1>5, ConsumerFrame DEF Ring

(* A store of read_ix_ that moves the reader on to x. *)
LEMMA ReadIxStored ==
  ASSUME TypeOK, Typed, Ring,
         NEW x \in [ix : Nat, lap : Nat, done : Nat], rmo' = Append(rmo, x),
         UNCHANGED <<buffer, wmo, sent, ppc, psize, pseen>>,
         x.done \in 0 .. Len(sent),
         \/ x.ix = wmo[x.done + 1].ix /\ x.lap = wmo[x.done + 1].lap
         \/ /\ x.done < Len(sent) /\ Wrapped(x.done + 1)
            /\ x.ix = 0 /\ x.lap = wmo[x.done + 2].lap,
         LastRead.done <= x.done, LastRead.lap <= x.lap,
         LastRead.lap = x.lap => LastRead.ix <= x.ix
  PROVE  /\ LastRead' = x
         /\ Layout' /\ Stored' /\ Reservation' /\ PartlyStored'
<1> DEFINE S == [ix : Nat, lap : Nat, done : Nat]
           l == Len(rmo)
<1>1. rmo \in Seq(S) /\ x \in S
  BY DEF TypeOK
<1> HIDE DEF S
<1>2. /\ l \in Nat /\ l >= 1 /\ pseen \in 1 .. l
      /\ Len(rmo') = l + 1 /\ rmo'[l + 1] = x
      /\ \A n \in 1 .. l : rmo'[n] = rmo[n]
  BY <1>1, AppendFacts DEF Typed
<1>3. LastRead' = x /\ SeenRead' = SeenRead /\ LastRead = rmo[l]
  BY <1>2 DEF LastRead, SeenRead
<1>4. WriteChain' /\ WriteOrder'
  BY DEF Ring, Layout, WriteChain, WriteOrder, MsgBegin, MsgEnd
<1>5. WithinALap'
  BY <1>3 DEF Ring, Layout, WithinALap, LastWrite
<1>6. ReadPosition'
  <2> SUFFICES ASSUME NEW n \in 1 .. l + 1
               PROVE  /\ rmo'[n].done \in 0 .. Len(sent)
                      /\ \/ /\ rmo'[n].ix = wmo[rmo'[n].done + 1].ix
                            /\ rmo'[n].lap = wmo[rmo'[n].done + 1].lap
                         \/ /\ rmo'[n].done < Len(sent)
                            /\ Wrapped(rmo'[n].done + 1)
                            /\ rmo'[n].ix = 0
                            /\ rmo'[n].lap = wmo[rmo'[n].done + 2].lap
    BY <1>2, Zenon DEF ReadPosition, Wrapped
  <2>1. CASE n \in 1 .. l
    BY <1>2, <2>1, Zenon DEF Ring, Layout, ReadPosition
  <2>2. CASE n = l + 1
    BY <1>2, <2>2
  <2>3. n \in 1 .. l \/ n = l + 1
    BY <1>2
  <2> QED
    BY <2>1, <2>2, <2>3, Zenon
<1>7. ReadOrder'
  <2> SUFFICES ASSUME NEW m \in 1 .. l + 1, NEW n \in 1 .. l + 1, m < n
               PROVE  /\ rmo'[m].done <= rmo'[n].done
                      /\ rmo'[m].lap <= rmo'[n].lap
                      /\ rmo'[m].lap = rmo'[n].lap => rmo'[m].ix <= rmo'[n].ix
    BY <1>2, Zenon DEF ReadOrder
  <2>1. CASE n \in 1 .. l
    <3>1. m \in 1 .. l
      BY <1>2, <2>1
    <3> QED
      BY <1>2, <2>1, <3>1 DEF Ring, Layout, ReadOrder
  <2>2. CASE n = l + 1
    <3>1. m \in 1 .. l /\ l \in 1 .. l /\ (m < l \/ m = l)
      BY <1>2, <2>2
    <3>2. /\ rmo[m].ix \in Nat /\ rmo[m].lap \in Nat /\ rmo[m].done \in Nat
          /\ LastRead.ix \in Nat /\ LastRead.lap \in Nat /\ LastRead.done \in Nat
          /\ x.ix \in Nat /\ x.lap \in Nat /\ x.done \in Nat
      BY <3>1, Zenon DEF Typed
    <3>3. /\ rmo[m].done <= LastRead.done
          /\ rmo[m].lap <= LastRead.lap
          /\ rmo[m].lap = LastRead.lap => rmo[m].ix <= LastRead.ix
      BY <1>3, <3>1, <3>2, SMTT(30) DEF Ring, Layout, ReadOrder
    <3>4. rmo'[m] = rmo[m] /\ rmo'[n] = x
      BY <1>2, <2>2, <3>1
    <3> DEFINE a == rmo[m].lap
               b == LastRead.lap
               c == x.lap
               i == rmo[m].done
               j == LastRead.done
               k == x.done
               p == rmo[m].ix
               q == LastRead.ix
               r == x.ix
    <3>5. /\ a \in Nat /\ b \in Nat /\ c \in Nat
          /\ i \in Nat /\ j \in Nat /\ k \in Nat
          /\ p \in Nat /\ q \in Nat /\ r \in Nat
      BY <3>2, Zenon
    <3>6. /\ a <= b /\ b <= c /\ i <= j /\ j <= k
          /\ a = b => p <= q
          /\ b = c => q <= r
      BY <3>3, Zenon
    <3> HIDE DEF a, b, c, i, j, k, p, q, r
    <3>7. a <= c /\ i <= k /\ (a = c => p <= r)
      BY ONLY <3>5, <3>6
    <3> QED
      BY <3>4, <3>7, Zenon DEF a, c, i, k, p, r
  <2>3. n \in 1 .. l \/ n = l + 1
    BY <1>2
  <2> QED
    BY <2>1, <2>2, <2>3, Zenon
<1>8. Stored'
  BY <1>3, Zenon DEF Ring, Stored, MsgBegin, MsgEnd, Wrapped
<1>9. Reservation' /\ PartlyStored'
  BY <1>3, ReservationFrame, PartlyStoredFrame DEF Ring
<1> QED
  BY <1>3, <1>4, <1>5, <1>6, <1>7, <1>8, <1>9 DEF Layout

(* dequeue_begin follows the sentinel to the start of the buffer.            *)
LEMMA StoreWrappedReadIxStep ==
  ASSUME TypeOK, Typed, Ring, StoreWrappedReadIx
  PROVE  Ring'
<1> DEFINE d == Committed
           x == [ix |-> 0, lap |-> LastRead.lap + 1, done |-> LastRead.done]
<1>1. /\ UNCHANGED <<buffer, wmo, sent, ppc, psize, pseen, cview, cseen>>
      /\ cpc = "wrap" /\ cpc' = "recheck" /\ rmo' = Append(rmo, x)
  BY DEF StoreWrappedReadIx, producerVars, LastRead
<1>2. /\ d + 1 < cseen /\ Wrapped(d + 1) /\ LastRead.lap = wmo[d + 1].lap
      /\ d = LastRead.done /\ d \in Nat /\ LastRead.lap \in Nat
      /\ ReaderState
  BY <1>1, Zenon DEF Ring, ReaderState, Committed, LastRead, Typed
<1>3. d + 1 \in 1 .. Len(sent) /\ d < Len(sent) /\ d \in 0 .. Len(sent)
      /\ (d + 1) + 1 = d + 2
  BY <1>2, NextMessage DEF Ring
<1>4. wmo[d + 2].lap = LastRead.lap + 1
  BY <1>2, <1>3, Zenon DEF Ring, Layout, WriteChain, Wrapped
<1>5. /\ x \in [ix : Nat, lap : Nat, done : Nat]
      /\ x.ix = 0 /\ x.lap = wmo[d + 2].lap /\ x.done = d
      /\ x.lap = LastRead.lap + 1
  BY <1>2, <1>4
<1> HIDE DEF x
<1>6. LastRead.done <= x.done /\ LastRead.lap <= x.lap /\ LastRead.lap # x.lap
  BY <1>2, <1>5
<1>7. LastRead' = x /\ Layout' /\ Stored' /\ Reservation' /\ PartlyStored'
  BY <1>1, <1>2, <1>3, <1>5, <1>6, ReadIxStored, Zenon
<1>8. ReaderState'
  <2>1. Committed' = d
    BY <1>5, <1>7 DEF Committed, LastRead
  <2> QED
    BY <1>1, <1>2, <2>1 DEF ReaderState
<1> QED
  BY <1>7, <1>8 DEF Ring

(* dequeue_commit moves read_ix_ to the message after the view.              *)
LEMMA StoreReadIxStep ==
  ASSUME TypeOK, Typed, Ring, StoreReadIx
  PROVE  Ring'
<1> DEFINE d == Committed
           x == [ix   |-> next_index(cview.index, total_size(cview.size)),
                 lap  |-> LastRead.lap,
                 done |-> LastRead.done + 1]
<1>1. /\ UNCHANGED <<buffer, wmo, sent, ppc, psize, pseen, cview, cseen>>
      /\ cpc = "view" /\ cpc' = "count" /\ rmo' = Append(rmo, x)
  BY DEF StoreReadIx, producerVars, LastRead
<1>2. /\ d + 1 < cseen
      /\ cview.size = sent[d + 1] /\ cview.index = MsgBegin(d + 1)
      /\ LastRead.ix = MsgBegin(d + 1) /\ LastRead.lap = wmo[d + 2].lap
      /\ d = LastRead.done /\ d \in Nat /\ LastRead.lap \in Nat
      /\ ReaderState
  BY <1>1, Zenon DEF Ring, ReaderState, Committed, LastRead, Typed
<1>3. d + 1 \in 1 .. Len(sent) /\ d + 1 \in 0 .. Len(sent) /\ (d + 1) + 1 = d + 2
  BY <1>2, NextMessage DEF Ring
<1>4. /\ MsgBegin(d + 1) \in Words /\ MsgBegin(d + 1) \in Nat
      /\ sent[d + 1] \in PayloadSizes
      /\ wmo[d + 2].ix = MsgBegin(d + 1) + Slot(sent[d + 1])
      /\ wmo[d + 2].ix \in Nat /\ MsgBegin(d + 1) <= wmo[d + 2].ix
  <2>1. /\ MsgBegin(d + 1) \in Words /\ MsgBegin(d + 1) \in Nat
        /\ sent[d + 1] \in PayloadSizes
        /\ MsgEnd(d + 1) = wmo[(d + 1) + 1].ix /\ MsgEnd(d + 1) \in Nat
        /\ MsgEnd(d + 1) = MsgBegin(d + 1) + Slot(sent[d + 1])
        /\ MsgBegin(d + 1) + 8 < MsgEnd(d + 1)
    BY <1>3, MsgFacts DEF Ring, Layout
  <2> QED
    BY <1>3, <2>1
<1>5. /\ x \in [ix : Nat, lap : Nat, done : Nat]
      /\ x.ix = wmo[d + 2].ix /\ x.lap = wmo[d + 2].lap /\ x.done = d + 1
      /\ x.lap = LastRead.lap
  <2>1. next_index(cview.index, total_size(cview.size)) = wmo[d + 2].ix
    BY <1>2, <1>4, PlaceFacts
  <2> QED
    BY <1>2, <1>4, <2>1
<1> HIDE DEF x
<1>6. LastRead.done <= x.done /\ LastRead.lap <= x.lap /\ LastRead.ix <= x.ix
  BY <1>2, <1>4, <1>5
<1>7. LastRead' = x /\ Layout' /\ Stored' /\ Reservation' /\ PartlyStored'
  BY <1>1, <1>2, <1>3, <1>5, <1>6, ReadIxStored, Zenon
<1>8. ReaderState'
  <2>1. Committed' = d + 1
    BY <1>5, <1>7 DEF Committed, LastRead
  <2> QED
    BY <1>1, <1>2, <1>3, <1>5, <1>7, <2>1, Zenon DEF ReaderState
<1> QED
  BY <1>7, <1>8 DEF Ring

----------------------------------------------------------------------------
(* The invariant, and the properties it gives. *)

(* The invariant holds initially.                                            *)
LEMMA IndInvInit == Init => IndInv
BY TypeInit, RingInit DEF IndInv

(* A crash, and the update of msg_count_, leave the ring as it is. *)
LEMMA OtherSteps ==
  ASSUME TypeOK, Typed, Ring,
         \/ AddMsgCount \/ SubMsgCount \/ ProducerCrash \/ ConsumerCrash
         \/ UNCHANGED vars
  PROVE  Ring'
<1>1. CASE AddMsgCount \/ ProducerCrash
  <2>1. /\ ppc' = "idle"
        /\ UNCHANGED <<buffer, wmo, rmo, sent, pseen, cpc, cview, cseen>>
    BY <1>1 DEF AddMsgCount, ProducerCrash, consumerVars
  <2> QED
    BY <2>1, LayoutFrame, StoredFrame, IdleFrame, ReaderFrame DEF Ring
<1>2. CASE SubMsgCount \/ ConsumerCrash
  <2>1. /\ cpc' = "idle"
        /\ UNCHANGED <<buffer, wmo, rmo, sent, ppc, psize, pseen, cseen>>
    BY <1>2 DEF SubMsgCount, ConsumerCrash, producerVars
  <2>2. ReaderState'
    BY <2>1, Zenon DEF Ring, ReaderState, Committed, LastRead
  <2>3. SeenRead' = SeenRead
    BY <2>1 DEF SeenRead
  <2> QED
    BY <2>1, <2>2, <2>3, LayoutFrame, StoredFrame, ReservationFrame,
       PartlyStoredFrame DEF Ring
<1>3. CASE UNCHANGED vars
  BY <1>3, RingFrame DEF vars, producerVars, consumerVars
<1> QED
  BY <1>1, <1>2, <1>3

(* Every step of the queue preserves the invariant; one that accepts a wrap  *)
(* with write_ix < read_ix does so by giving up the premise.                 *)
LEMMA IndInvStep == IndInv /\ [Next]_vars => IndInv'
<1> SUFFICES ASSUME IndInv, [Next]_vars PROVE IndInv'
  OBVIOUS
<1>1. TypeOK /\ Typed /\ TypeOK'
  BY TypeFacts, TypeStep DEF IndInv
<1> SUFFICES ASSUME overruns' = 0 PROVE Ring'
  BY <1>1 DEF IndInv
<1>2. overruns \in Nat /\ overruns' \in {overruns, overruns + 1}
  <2>1. overruns' \in {overruns, overruns + 1}
    BY Zenon DEF Next, Enqueue, Dequeue, EnqueueRefuse, EnqueueReserve, CopyPayload,
           CopyHeader, WriteSentinel, StoreWriteIx, AddMsgCount, LoadWriteIx,
           ReadSentinel, ReadHeader, StoreWrappedReadIx, StoreReadIx,
           SubMsgCount, ProducerCrash, ConsumerCrash, vars
  <2> QED
    BY <1>1, <2>1 DEF Typed
<1>3. overruns = 0 /\ Ring
  BY <1>2 DEF IndInv
<1>4. buffer \in [Words -> Cell]
  BY <1>1 DEF TypeOK
<1>5. CASE Enqueue
  <2>1. CASE \E s \in PayloadSizes, n \in pseen .. Len(rmo) :
               EnqueueRefuse(s, n) \/ EnqueueReserve(s, n)
    BY <1>1, <1>3, <2>1, EnqueueRefuseStep, EnqueueReserveStep
  <2>2. CASE CopyPayload
    BY <1>1, <1>3, <2>2, CopyPayloadStep
  <2>3. CASE CopyHeader
    BY <1>1, <1>3, <1>4, <2>3, CopyHeaderStep
  <2>4. CASE WriteSentinel
    BY <1>1, <1>3, <1>4, <2>4, WriteSentinelStep
  <2>5. CASE StoreWriteIx
    BY <1>1, <1>3, <2>5, StoreWriteIxStep
  <2>6. CASE AddMsgCount
    BY <1>1, <1>3, <2>6, OtherSteps
  <2> QED
    BY <1>5, <2>1, <2>2, <2>3, <2>4, <2>5, <2>6 DEF Enqueue
<1>6. CASE Dequeue
  <2>1. CASE \E n \in cseen .. Len(wmo) : LoadWriteIx(n)
    BY <1>1, <1>3, <2>1, LoadWriteIxStep
  <2>2. CASE ReadSentinel
    BY <1>1, <1>3, <2>2, ReadSentinelStep
  <2>3. CASE \E n \in SizesAt(read_ix) : ReadHeader(n)
    BY <1>1, <1>3, <2>3, ReadHeaderStep
  <2>4. CASE StoreWrappedReadIx
    BY <1>1, <1>3, <2>4, StoreWrappedReadIxStep
  <2>5. CASE StoreReadIx
    BY <1>1, <1>3, <2>5, StoreReadIxStep
  <2>6. CASE SubMsgCount
    BY <1>1, <1>3, <2>6, OtherSteps
  <2> QED
    BY <1>6, <2>1, <2>2, <2>3, <2>4, <2>5, <2>6 DEF Dequeue
<1>7. CASE ProducerCrash \/ ConsumerCrash \/ UNCHANGED vars
  BY <1>1, <1>3, <1>7, OtherSteps
<1> QED
  BY <1>5, <1>6, <1>7 DEF Next

(* The layout of the ring is as enqueue and dequeue_begin take it to be.     *)
THEOREM RingIntact == Spec => []IndInv
BY IndInvInit, IndInvStep, PTL DEF Spec

(* The view is the oldest unread message.                                    *)
LEMMA ViewCorrect ==
  ASSUME Typed, Ring, cpc = "view"
  PROVE  ViewMatches
<1> DEFINE d == Committed
<1>1. /\ d + 1 < cseen
      /\ cview.size = sent[d + 1] /\ cview.index = MsgBegin(d + 1)
  BY DEF Ring, ReaderState
<1>2. d \in Nat /\ d + 1 \in 1 .. Len(sent) /\ d + 1 \in SeenRead.done + 1 .. Len(sent)
  BY <1>1, NextMessage DEF Ring
<1>3. \A a \in DataWords(MsgBegin(d + 1), sent[d + 1]) : buffer[a] = DataCell(d + 1)
  BY <1>2 DEF Ring, Stored
<1>4. d < Len(sent)
  BY <1>2
<1> QED
  BY <1>1, <1>3, <1>4 DEF ViewMatches

(* A view handed out by dequeue_begin is the oldest uncommitted message, and *)
(* stays so until dequeue_commit, whatever the buffer size, the sizes of the *)
(* messages and the crashes, as long as enqueue accepts no wrap with         *)
(* write_ix < read_ix.                                                       *)
THEOREM DeliveryCorrect == Spec => []DeliversOldestUnread
<1>1. IndInv => DeliversOldestUnread
  <2> SUFFICES ASSUME IndInv, overruns = 0, cpc = "view" PROVE ViewMatches
    BY DEF DeliversOldestUnread, ViewMatches
  <2> QED
    BY TypeFacts, ViewCorrect DEF IndInv
<1> QED
  BY <1>1, RingIntact, PTL

(* What the consumer has still to read, the producer must take for unread.   *)
LEMMA UnreadIsUnseen ==
  ASSUME Typed, Layout, NEW k \in Unread
  PROVE  /\ k \in SeenRead.done + 1 .. Len(sent)
         /\ SeenRead.lap <= LastRead.lap
<1>1. /\ Len(sent) \in Nat /\ Len(rmo) \in 1 .. Len(rmo)
      /\ pseen \in 1 .. Len(rmo) /\ SeenRead.done \in Nat
      /\ Committed \in Nat /\ Committed = LastRead.done
      /\ SeenRead.lap \in Nat
  BY SMTT(30) DEF Typed, Committed, LastRead
<1>2. SeenRead.done <= Committed /\ SeenRead.lap <= LastRead.lap
  BY <1>1 DEF Layout, ReadOrder, SeenRead, LastRead
<1> QED
  BY <1>1, <1>2 DEF Unread

(* enqueue and the reads through the view never meet in a word, as long as   *)
(* enqueue accepts no wrap with write_ix < read_ix.                          *)
THEOREM RaceFree == Spec => []NoRace
<1>1. IndInv => NoRace
  <2> SUFFICES ASSUME IndInv, overruns = 0,
                      NEW a \in PendingWords, a \in UnreadWords
               PROVE  FALSE
    BY DEF NoRace, KeepsUnread
  <2> DEFINE start == MsgStart(write_ix, psize)
  <2>1. Typed /\ Ring /\ Layout
    BY TypeFacts DEF IndInv, Ring
  <2>2. /\ Writing /\ a \in Nat
        /\ \/ a \in DataWords(start, psize)
           \/ a = start
           \/ Crosses(write_ix, psize) /\ a = write_ix
    BY WordFacts DEF PendingWords, Writing
  <2>3. PICK k \in Unread :
          \/ MsgBegin(k) <= a /\ a < MsgEnd(k)
          \/ Wrapped(k) /\ a = wmo[k].ix /\ wmo[k].lap >= LastRead.lap
    BY DEF UnreadWords, LastRead
  <2>4. k \in SeenRead.done + 1 .. Len(sent) /\ SeenRead.lap <= LastRead.lap
    BY <2>1, UnreadIsUnseen
  <2>5. /\ k \in 1 .. Len(sent)
        /\ \/ start + Slot(psize) <= MsgBegin(k)
           \/ MsgEnd(k) <= start
        /\ Crosses(write_ix, psize) => MsgEnd(k) <= write_ix
        /\ Wrapped(k) /\ wmo[k].lap >= SeenRead.lap =>
             /\ ~ Crosses(write_ix, psize)
             /\ start + Slot(psize) <= wmo[k].ix
    BY <2>1, <2>2, <2>4, PendingIsFree, Zenon DEF Ring, Layout
  <2>6. /\ MsgBegin(k) \in Nat /\ MsgEnd(k) \in Nat
        /\ wmo[k].ix \in Nat /\ wmo[k].lap \in Nat
        /\ SeenRead.lap \in Nat /\ LastRead.lap \in Nat
    BY <2>1, <2>5, MsgFacts, Zenon DEF Layout, Typed
  <2>7. write_ix \in Words /\ psize \in PayloadSizes
    BY <2>1, <2>2, Zenon DEF Typed, Ring, Reservation
  <2>8. start \in Nat /\ write_ix \in Nat /\ Slot(psize) \in Nat
    BY <2>7, PlaceFacts, SlotFacts, WordFacts
  <2>9. \/ start <= a /\ a < start + Slot(psize)
        \/ Crosses(write_ix, psize) /\ a = write_ix
    BY <2>2, <2>7, <2>8, SlotFacts DEF DataWords, HeaderSize
  <2>10. CASE MsgBegin(k) <= a /\ a < MsgEnd(k)
    BY <2>2, <2>5, <2>6, <2>8, <2>9, <2>10
  <2>11. CASE Wrapped(k) /\ a = wmo[k].ix /\ wmo[k].lap >= LastRead.lap
    <3>1. wmo[k].lap >= SeenRead.lap
      BY <2>4, <2>6, <2>11
    <3> QED
      BY <2>2, <2>5, <2>6, <2>8, <2>9, <2>11, <3>1
  <2> QED
    BY <2>3, <2>10, <2>11
<1> QED
  BY <1>1, RingIntact, PTL

(* Equal indices mean an empty queue, to is_empty, can_dequeue and           *)
(* dequeue_begin, as long as enqueue accepts no wrap with write_ix < read_ix. *)
THEOREM EmptyIsEmpty == Spec => []EmptyMeansEmpty
<1>1. IndInv => EmptyMeansEmpty
  <2> SUFFICES ASSUME IndInv, overruns = 0
               PROVE  /\ \A n \in pseen .. Len(rmo) :
                           is_empty(n) => rmo[n].done = Len(sent)
                      /\ \A n \in cseen .. Len(wmo) :
                           ~ can_dequeue(n) => Committed = n - 1
                      /\ cpc = "empty" => Committed = cseen - 1
    BY DEF EmptyMeansEmpty
  <2>1. Typed /\ Layout /\ ReaderState
    BY TypeFacts DEF IndInv, Ring
  <2>2. /\ Len(sent) \in Nat /\ Len(wmo) = Len(sent) + 1
        /\ pseen \in 1 .. Len(rmo) /\ cseen \in 1 .. Len(wmo)
        /\ Len(wmo) \in 1 .. Len(wmo)
        /\ Committed \in Nat /\ Committed < cseen
        /\ Len(rmo) \in pseen .. Len(rmo)
    BY <2>1, SMTT(30) DEF Typed, Committed, LastRead, ReaderState
  <2>3. ASSUME NEW n \in pseen .. Len(rmo), is_empty(n)
        PROVE  rmo[n].done = Len(sent)
    <3>1. rmo[n].ix = wmo[Len(wmo)].ix
      BY <2>3 DEF is_empty, write_ix
    <3>2. ~ (rmo[n].done + 1 < Len(wmo))
      BY <2>1, <2>2, <3>1, Unambiguous
    <3>3. rmo[n].done \in 0 .. Len(sent)
      BY <2>1, <2>2 DEF Layout, ReadPosition
    <3> QED
      BY <2>2, <3>2, <3>3
  <2>4. ASSUME NEW n \in cseen .. Len(wmo), ~ can_dequeue(n)
        PROVE  Committed = n - 1
    <3>1. rmo[Len(rmo)].ix = wmo[n].ix
      BY <2>4 DEF can_dequeue, read_ix
    <3>2. n \in 1 .. Len(wmo)
      BY <2>2
    <3>3. ~ (rmo[Len(rmo)].done + 1 < n)
      BY <2>1, <2>2, <3>1, <3>2, Unambiguous
    <3> QED
      BY <2>2, <3>3 DEF Committed
  <2> QED
    BY <2>1, <2>3, <2>4, Zenon DEF ReaderState
<1> QED
  BY <1>1, RingIntact, PTL

----------------------------------------------------------------------------
(* Refusals. *)

(* Between a refusal and the next call, the indices the producer holds are   *)
(* still those for which enqueue returned false.                             *)
RefusalCause == ppc = "full" => Full(write_ix, rmo[pseen].ix, psize)

(* Only the consumer moves while the producer stands refused, and it never   *)
(* changes a value of read_ix_ that the producer has loaded.                 *)
LEMMA RefusalStep ==
  TypeOK /\ RefusalCause /\ [Next]_vars => RefusalCause'
<1> SUFFICES ASSUME TypeOK, RefusalCause, [Next]_vars, ppc' = "full"
             PROVE  Full(write_ix', rmo'[pseen'].ix, psize')
  BY DEF RefusalCause
<1>0. Typed
  BY TypeFacts
<1>1. ASSUME NEW s \in PayloadSizes, NEW n \in pseen .. Len(rmo),
             EnqueueRefuse(s, n)
      PROVE  Full(write_ix', rmo'[pseen'].ix, psize')
  BY <1>1 DEF EnqueueRefuse, LoadReadIx, write_ix
<1>2. CASE UNCHANGED <<wmo, rmo, ppc, psize, pseen>>
  BY <1>2 DEF RefusalCause, write_ix
<1>3. CASE StoreWrappedReadIx \/ StoreReadIx
  <2> DEFINE S == [ix : Nat, lap : Nat, done : Nat]
             x == IF StoreReadIx
                  THEN [ix   |-> next_index(cview.index, total_size(cview.size)),
                        lap  |-> LastRead.lap,
                        done |-> LastRead.done + 1]
                  ELSE [ix |-> 0, lap |-> LastRead.lap + 1, done |-> LastRead.done]
  <2>1. UNCHANGED <<wmo, ppc, psize, pseen>> /\ rmo' = Append(rmo, x)
    BY <1>3 DEF StoreWrappedReadIx, StoreReadIx, producerVars, LastRead
  <2>2. next_index(cview.index, total_size(cview.size)) \in Nat
    <3>1. cview.index \in Nat /\ cview.size \in Nat
      BY DEF TypeOK
    <3> QED
      BY <3>1 DEF next_index, total_size, Align, HeaderSize
  <2>3. x \in S
    <3>1. LastRead.lap \in Nat /\ LastRead.done \in Nat
      BY <1>0 DEF Typed
    <3>2. CASE StoreReadIx
      BY <2>2, <3>1, <3>2, SMTT(30)
    <3>3. CASE ~ StoreReadIx
      BY <3>1, <3>3, SMTT(30)
    <3> QED
      BY <3>2, <3>3, Zenon
  <2>4. rmo \in Seq(S) /\ pseen \in 1 .. Len(rmo)
    BY DEF TypeOK
  <2> HIDE DEF S, x
  <2>5. rmo'[pseen] = rmo[pseen]
    <3>1. \A i \in 1 .. Len(rmo) : Append(rmo, x)[i] = rmo[i]
      BY ONLY <2>3, <2>4, AppendFacts
    <3> QED
      BY <2>1, <2>4, <3>1, Zenon
  <2> QED
    BY <2>1, <2>5 DEF RefusalCause, write_ix
<1>4. ASSUME NEW s \in PayloadSizes, NEW n \in pseen .. Len(rmo),
             EnqueueReserve(s, n)
      PROVE  FALSE
  BY <1>4, Zenon DEF EnqueueReserve
<1>5. ~ (CopyPayload \/ CopyHeader \/ WriteSentinel \/ StoreWriteIx
         \/ AddMsgCount \/ ProducerCrash)
  BY Zenon DEF CopyPayload, CopyHeader, WriteSentinel, StoreWriteIx, AddMsgCount,
               ProducerCrash
<1>6. CASE \/ \E n \in cseen .. Len(wmo) : LoadWriteIx(n)
           \/ ReadSentinel \/ \E n \in SizesAt(read_ix) : ReadHeader(n)
           \/ SubMsgCount \/ ConsumerCrash \/ UNCHANGED vars
  BY <1>2, <1>6, Zenon DEF LoadWriteIx, ReadSentinel, ReadHeader, SubMsgCount,
                    ConsumerCrash, vars, producerVars
<1> QED
  BY <1>1, <1>3, <1>4, <1>5, <1>6 DEF Next, Enqueue, Dequeue

(* enqueue never refuses a message of less than half the buffer when the     *)
(* index it loaded says that the queue is empty.                             *)
THEOREM RefusalJustified == Spec => []RefusesOnlyWhenOccupied
<1>1. Init => RefusalCause
  BY DEF Init, RefusalCause
<1>2. IndInv /\ RefusalCause => RefusesOnlyWhenOccupied
  <2> SUFFICES ASSUME IndInv, RefusalCause, overruns = 0,
                      2 * Slot(psize) < BufferSize, ppc = "full",
                      rmo[pseen].done = Len(sent)
               PROVE  FALSE
    BY DEF RefusesOnlyWhenOccupied, RefusedWhenEmpty
  <2>1. Typed /\ ReadPosition
    BY TypeFacts DEF IndInv, Ring, Layout
  <2>2. /\ Len(sent) \in Nat /\ Len(wmo) = Len(sent) + 1
        /\ pseen \in 1 .. Len(rmo)
        /\ write_ix \in Words /\ psize \in PayloadSizes
    BY <2>1 DEF Typed
  <2>3. rmo[pseen].ix = write_ix
    BY <2>1, <2>2 DEF ReadPosition, write_ix
  <2>4. Full(write_ix, write_ix, psize)
    BY <2>3 DEF RefusalCause
  <2>5. write_ix \in Nat /\ Slot(psize) \in Nat /\ BufferSize \in Nat
    BY <2>2, WordFacts, SlotFacts
  <2>6. Crosses(write_ix, psize) /\ Slot(psize) >= write_ix
    BY <2>4, <2>5 DEF Full, FullAhead, FullAfterWrap, Slot
  <2>7. write_ix + Slot(psize) >= BufferSize
    BY <2>2, <2>6, PlaceFacts
  <2> QED
    BY <2>5, <2>6, <2>7
<1> QED
  BY <1>1, <1>2, RefusalStep, TypeCorrect, RingIntact, PTL DEF Spec

----------------------------------------------------------------------------
(* Messages that all take the same number of bytes. *)

(* Every message accepted so far takes as many bytes as one with payload s.  *)
OneSize(s) == \A k \in 1 .. Len(sent) : Slot(sent[k]) = Slot(s)

(* Every value of write_ix_ is then a whole number of messages. *)
Multiples ==
  \A s \in PayloadSizes :
    OneSize(s) => \A k \in 1 .. Len(wmo) : \E q \in Nat : wmo[k].ix = q * Slot(s)

(* Between two different multiples of T there is room for T. *)
LEMMA NextMultiple ==
  ASSUME NEW T \in Nat, NEW p \in Nat, NEW q \in Nat, p * T < q * T
  PROVE  p * T + T <= q * T
<1>1. p < q
  <2> SUFFICES ASSUME q <= p PROVE FALSE
    OBVIOUS
  <2>1. PICK r \in Nat : p = q + r
    <3>1. p - q \in Nat /\ p = q + (p - q)
      OBVIOUS
    <3> QED
      BY <3>1
  <2>2. p * T = q * T + r * T /\ r * T \in Nat
    BY <2>1
  <2> QED
    BY <2>2
<1>2. PICK r \in Nat : q = p + 1 + r
  <2>1. q - p - 1 \in Nat /\ q = p + 1 + (q - p - 1)
    BY <1>1
  <2> QED
    BY <2>1
<1>3. q * T = p * T + T + r * T /\ r * T \in Nat
  BY <1>2
<1> QED
  BY <1>3

(* A reader ahead of the writer is then at least one message ahead, so       *)
(* enqueue does not reach the end of the buffer before it.                   *)
LEMMA UniformReserve ==
  ASSUME Typed, ReadPosition, Multiples,
         NEW s \in PayloadSizes, OneSize(s), NEW n \in pseen .. Len(rmo),
         write_ix < rmo[n].ix
  PROVE  ~ Crosses(write_ix, s)
<1> DEFINE d == rmo[n].done
           T == Slot(s)
<1>1. /\ n \in 1 .. Len(rmo) /\ Len(sent) \in Nat /\ Len(wmo) = Len(sent) + 1
      /\ write_ix \in Words /\ Len(wmo) \in 1 .. Len(wmo)
      /\ write_ix = wmo[Len(wmo)].ix
  BY DEF Typed, write_ix
<1>2. write_ix \in Nat /\ T \in Nat
  BY <1>1, WordFacts, SlotFacts
<1>3. d + 1 \in 1 .. Len(wmo) /\ rmo[n].ix = wmo[d + 1].ix
  <2>1. d \in 0 .. Len(sent) /\ (rmo[n].ix = wmo[d + 1].ix \/ rmo[n].ix = 0)
    BY <1>1, Zenon DEF ReadPosition
  <2> HIDE DEF d
  <2> QED
    BY <1>1, <1>2, <2>1
<1>4. wmo[d + 1].ix \in Nat /\ wmo[d + 1].ix < BufferSize /\ BufferSize \in Nat
  BY <1>3, WordFacts, Zenon DEF Typed
<1>5. PICK p \in Nat : write_ix = p * T
  BY <1>1 DEF Multiples
<1>6. PICK q \in Nat : wmo[d + 1].ix = q * T
  BY <1>3 DEF Multiples
<1>7. write_ix + T <= wmo[d + 1].ix
  <2>1. p * T < q * T
    BY <1>3, <1>5, <1>6
  <2>2. p * T + T <= q * T
    BY <1>2, <2>1, NextMultiple
  <2> QED
    BY <1>5, <1>6, <2>2
<1>8. Crosses(write_ix, s) <=> write_ix + T >= BufferSize
  BY <1>1, PlaceFacts, Zenon
<1> HIDE DEF T
<1> QED
  BY <1>2, <1>4, <1>7, <1>8

(* A message is written at 0 or at write_ix_, and write_ix_ moves by one.    *)
LEMMA UniformStore ==
  ASSUME TypeOK, Typed, Multiples, StoreWriteIx
  PROVE  Multiples'
<1> DEFINE e == Len(sent)
<1>1. /\ e \in Nat /\ Len(wmo) = e + 1 /\ Len(wmo') = e + 2
      /\ \A k \in 1 .. e + 1 : wmo'[k] = wmo[k]
      /\ wmo[e + 1].ix = write_ix
      /\ wmo'[e + 2].ix = MsgStart(write_ix, psize) + Slot(psize)
  BY StoreWriteIxFacts
<1>2. /\ psize \in PayloadSizes
      /\ Len(sent') = e + 1 /\ sent'[e + 1] = psize
      /\ \A k \in 1 .. e : sent'[k] = sent[k]
  BY DEF Typed, TypeOK, StoreWriteIx
<1> SUFFICES ASSUME NEW s \in PayloadSizes, OneSize(s)', NEW k \in 1 .. e + 2
             PROVE  \E q \in Nat : wmo'[k].ix = q * Slot(s)
  BY <1>1 DEF Multiples
<1>3. Slot(s) = Slot(psize) /\ Slot(s) \in Nat /\ OneSize(s)
  <2>1. e + 1 \in 1 .. e + 1 /\ \A i \in 1 .. e : i \in 1 .. e + 1
    BY <1>1
  <2> HIDE DEF e
  <2>2. \A i \in 1 .. e + 1 : Slot(sent'[i]) = Slot(s)
    BY <1>2 DEF OneSize
  <2>3. OneSize(s)
    BY <1>2, <2>1, <2>2 DEF OneSize, e
  <2> QED
    BY <1>2, <2>1, <2>2, <2>3, SlotFacts
<1>4. \A i \in 1 .. e + 1 : \E q \in Nat : wmo[i].ix = q * Slot(s)
  BY <1>1, <1>3 DEF Multiples
<1>5. CASE k \in 1 .. e + 1
  BY <1>1, <1>4, <1>5
<1>6. CASE k = e + 2
  <2>1. PICK p \in Nat : write_ix = p * Slot(s)
    BY <1>1, <1>4
  <2>2. PICK q \in Nat : MsgStart(write_ix, psize) = q * Slot(s)
    <3>1. 0 = 0 * Slot(s)
      BY <1>3
    <3> QED
      BY <2>1, <3>1 DEF MsgStart
  <2>3. wmo'[k].ix = q * Slot(s) + Slot(s)
    BY <1>1, <1>3, <1>6, <2>2
  <2>4. q * Slot(s) + Slot(s) = (q + 1) * Slot(s)
    BY <1>3
  <2>5. wmo'[k].ix = (q + 1) * Slot(s)
    BY <2>3, <2>4
  <2> QED
    BY <2>5
<1> QED
  BY <1>1, <1>5, <1>6

LEMMA MultiplesKept == Spec => []Multiples
<1>1. Init => Multiples
  <2>1. \A s \in PayloadSizes : 0 = 0 * Slot(s)
    BY SlotFacts
  <2> QED
    BY <2>1 DEF Init, Multiples
<1>2. TypeOK /\ Multiples /\ [Next]_vars => Multiples'
  <2> SUFFICES ASSUME TypeOK, Multiples, [Next]_vars PROVE Multiples'
    OBVIOUS
  <2>1. CASE StoreWriteIx
    BY <2>1, TypeFacts, UniformStore
  <2>2. CASE UNCHANGED <<wmo, sent>>
    BY <2>2 DEF Multiples, OneSize
  <2> QED
    BY <2>1, <2>2, Zenon
       DEF Next, Enqueue, Dequeue, EnqueueRefuse, EnqueueReserve, CopyPayload,
           CopyHeader, WriteSentinel, AddMsgCount, LoadWriteIx, ReadSentinel,
           ReadHeader, StoreWrappedReadIx, StoreReadIx, SubMsgCount,
           ProducerCrash, ConsumerCrash, vars
<1> QED
  BY <1>1, <1>2, TypeCorrect, PTL DEF Spec

(* Only EnqueueReserve counts a wrap, and it does not cross the end of the   *)
(* buffer before the reader with a message of the size of all the others.    *)
LEMMA FirstOverrun ==
  ASSUME IndInv, Multiples, [Next]_vars, overruns = 0, overruns' # 0
  PROVE  /\ psize' \in PayloadSizes
         /\ \E k \in 1 .. Len(sent) : Slot(sent[k]) # Slot(psize')
<1>1. Typed /\ ReadPosition
  BY TypeFacts DEF IndInv, Ring, Layout
<1>2. PICK s \in PayloadSizes, n \in pseen .. Len(rmo) : EnqueueReserve(s, n)
  BY Zenon
     DEF Next, Enqueue, Dequeue, EnqueueRefuse, CopyPayload, CopyHeader,
         WriteSentinel, StoreWriteIx, AddMsgCount, LoadWriteIx, ReadSentinel,
         ReadHeader, StoreWrappedReadIx, StoreReadIx, SubMsgCount,
         ProducerCrash, ConsumerCrash, vars
<1>3. psize' = s /\ Crosses(write_ix, s) /\ write_ix < rmo[n].ix
  BY <1>2 DEF EnqueueReserve, LoadReadIx
<1>4. ~ OneSize(s)
  BY <1>1, <1>3, UniformReserve
<1> QED
  BY <1>3, <1>4 DEF OneSize

(* For every buffer and every set of payload sizes: it takes a message of    *)
(* another size for enqueue to wrap behind the reader.                       *)
THEOREM UniformIsSafe == Spec => OverrunNeedsTwoSizes
<1>1. IndInv /\ Multiples /\ [Next]_vars
      => (overruns = 0 /\ overruns' # 0 =>
            \E k \in 1 .. Len(sent) : Slot(sent[k]) # Slot(psize'))
  BY FirstOverrun
<1> QED
  BY <1>1, RingIntact, MultiplesKept, PTL DEF Spec, OverrunNeedsTwoSizes

(* All payload sizes take the same number of bytes in the ring. *)
Uniform == \A s, t \in PayloadSizes : Slot(s) = Slot(t)

(* The premise of the theorems above then always holds.                      *)
LEMMA UniformNeverOverruns ==
  ASSUME Uniform
  PROVE  Spec => [](overruns = 0)
<1>1. Init => overruns = 0
  BY DEF Init
<1>2. IndInv /\ Multiples /\ overruns = 0 /\ [Next]_vars => (overruns = 0)'
  <2> SUFFICES ASSUME IndInv, Multiples, overruns = 0, [Next]_vars, overruns' # 0
               PROVE  FALSE
    OBVIOUS
  <2>1. /\ psize' \in PayloadSizes
        /\ \E k \in 1 .. Len(sent) : Slot(sent[k]) # Slot(psize')
    BY FirstOverrun
  <2>2. \A k \in 1 .. Len(sent) : sent[k] \in PayloadSizes
    BY TypeFacts DEF IndInv, Typed
  <2> QED
    BY <2>1, <2>2 DEF Uniform
<1> QED
  BY <1>1, <1>2, RingIntact, MultiplesKept, PTL DEF Spec

(* So a queue of messages of one size delivers every message, whole and in   *)
(* order, without further conditions.                                        *)
THEOREM UniformDelivery ==
  ASSUME Uniform
  PROVE  Spec => []ViewMatches
<1>1. overruns = 0 /\ DeliversOldestUnread => ViewMatches
  BY DEF DeliversOldestUnread
<1> QED
  BY <1>1, UniformNeverOverruns, DeliveryCorrect, PTL

----------------------------------------------------------------------------
(* The ring implements the abstract queue. *)

(* A call of enqueue that goes on has room in the bound on messages.         *)
BelowBound == Len(sent) <= MaxMessages /\ (Writing => Len(sent) < MaxMessages)

(* Only a call that reserves starts writing, and only its store of write_ix_ *)
(* lengthens the history.                                                    *)
LEMMA BoundKept == Spec => []BelowBound
<1>1. Init => BelowBound
  BY BoundAssumption, SMTT(30) DEF Init, BelowBound, Writing
<1>2. TypeOK /\ BelowBound /\ [Next]_vars => BelowBound'
  <2> SUFFICES ASSUME TypeOK, BelowBound, [Next]_vars PROVE BelowBound'
    OBVIOUS
  <2>1. CASE \E s \in PayloadSizes, n \in pseen .. Len(rmo) : EnqueueReserve(s, n)
    BY <2>1 DEF EnqueueReserve, LoadReadIx, BelowBound
  <2>2. CASE StoreWriteIx
    <3>1. Len(sent') = Len(sent) + 1 /\ Len(sent) \in Nat
      BY <2>2, TypeFacts DEF StoreWriteIx, TypeOK, Typed
    <3>2. ~ Writing' /\ Writing
      BY <2>2 DEF StoreWriteIx, Writing
    <3> QED
      BY <3>1, <3>2, BoundAssumption DEF BelowBound
  <2>3. CASE sent' = sent /\ (Writing' => Writing)
    BY <2>3 DEF BelowBound
  <2> QED
    BY <2>1, <2>2, <2>3, ZenonT(30)
       DEF Next, Enqueue, Dequeue, EnqueueRefuse, CopyPayload, CopyHeader,
           WriteSentinel, AddMsgCount, LoadWriteIx, ReadSentinel, ReadHeader,
           StoreWrappedReadIx, StoreReadIx, SubMsgCount, ProducerCrash,
           ConsumerCrash, vars, Writing, producerVars
<1> QED
  BY <1>1, <1>2, TypeCorrect, PTL DEF Spec

(* For every size of the counter that can hold the messages of a behaviour,  *)
(* any stale loads and crashes: between two calls of enqueue size() is never *)
(* less than the number of messages in the queue, but for one for every      *)
(* process that died between its index store and its update.                 *)
THEOREM SizeRight == Spec => []SizeFromWriter
<1>1. TypeOK /\ CountInv /\ BelowBound => SizeFromWriter
  <2> SUFFICES ASSUME TypeOK, CountInv, BelowBound, ppc \in {"idle", "full"}
               PROVE  Len(sent) - Committed <= msg_count + crashes
    BY DEF SizeFromWriter, size
  <2>1. PICK lost \in Int, laps \in Int :
          -crashes <= lost /\ lost <= crashes /\ CountsWith(lost, laps)
    BY DEF CountInv
  <2>2. /\ Len(sent) \in Nat /\ Committed \in Nat /\ crashes \in Nat
        /\ msg_count \in Nat /\ CountModulus \in Nat /\ crashes <= MaxCrashes
        /\ MaxMessages \in Nat /\ MaxCrashes \in Nat
        /\ MaxMessages + MaxCrashes + 1 < CountModulus
        /\ Len(sent) <= MaxMessages
    <3>1. Len(sent) \in Nat /\ Committed \in Nat
      BY TypeFacts DEF Typed, Committed, LastRead
    <3> QED
      BY <3>1, BoundAssumption DEF TypeOK, BelowBound
  <2>3. /\ msg_count - SubOwed + lost = (Len(sent) - Committed) + CountModulus * laps
        /\ SubOwed \in {0, 1} /\ CountModulus * laps \in Int
    <3>1. AddOwed = 0 /\ SubOwed \in {0, 1} /\ CountModulus * laps \in Int
      BY <2>1, <2>2 DEF AddOwed, SubOwed
    <3> QED
      BY <2>1, <2>2, <3>1 DEF CountsWith
  <2>4. CASE laps >= 0
    <3>1. CountModulus * laps >= 0
      BY <2>1, <2>2, <2>4
    <3> QED
      BY <2>1, <2>2, <2>3, <3>1
  <2>5. CASE laps <= -1
    <3>1. CountModulus * laps <= - CountModulus
      BY <2>1, <2>2, <2>5
    <3> QED
      BY <2>1, <2>2, <2>3, <3>1
  <2> QED
    BY <2>1, <2>4, <2>5
<1> QED
  BY TypeCorrect, CountInit, CountStep, BoundKept, <1>1, PTL DEF Spec

(* The view of a message holds its own bytes, and at least one word of them. *)
LEMMA FoundIsOldest ==
  ASSUME Typed, Ring, cpc = "view"
  PROVE  /\ Committed \in Nat /\ Committed < Len(sent)
         /\ Found = Msg(Committed + 1, sent[Committed + 1])
<1> DEFINE d == Committed
           b == MsgBegin(d + 1)
<1>1. /\ d + 1 < cseen
      /\ cview.size = sent[d + 1] /\ cview.index = b
  BY DEF Ring, ReaderState
<1>2. d \in Nat /\ d + 1 \in 1 .. Len(sent)
  BY <1>1, NextMessage DEF Ring
<1>3. ViewMatches
  BY ViewCorrect
<1>4. \A a \in DataWords(cview.index, cview.size) : buffer[a] = DataCell(d + 1)
  BY <1>3 DEF ViewMatches
<1>5. b + 8 \in DataWords(cview.index, cview.size)
  <2>1. /\ sent[d + 1] \in PayloadSizes
        /\ b \in Words /\ b \in Nat
        /\ MsgEnd(d + 1) \in Words /\ MsgEnd(d + 1) \in Nat
        /\ b + 8 < MsgEnd(d + 1)
    BY <1>2, MsgFacts DEF Ring, Layout
  <2>2. sent[d + 1] \in Nat /\ sent[d + 1] >= 1
    BY <2>1, SlotFacts
  <2> HIDE DEF b, d
  <2>3. /\ b % 8 = 0 /\ MsgEnd(d + 1) < BufferSize /\ BufferSize \in Nat
    BY <2>1, WordFacts
  <2>4. b + 8 \in Words
    BY <2>1, <2>3 DEF Words, Align
  <2> QED
    BY <1>1, <2>1, <2>2, <2>4 DEF DataWords, HeaderSize
<1>6. {buffer[a] : a \in DataWords(cview.index, cview.size)} = {DataCell(d + 1)}
  BY <1>4, <1>5
<1>7. Found = Msg(d + 1, sent[d + 1])
  BY <1>1, <1>6, Zenon DEF Found, Msg
<1>8. d < Len(sent)
  BY <1>2 DEF Typed
<1> QED
  BY <1>2, <1>7, <1>8, Zenon

(* The queue as a sequence.                                                  *)
LEMMA QueuedFacts ==
  ASSUME Typed, Committed \in 0 .. Len(sent)
  PROVE  /\ Queued \in Seq({Msg(i, s) : i \in Nat, s \in PayloadSizes})
         /\ Len(Queued) = Len(sent) - Committed
         /\ \A i \in 1 .. Len(sent) - Committed :
              Queued[i] = Msg(Committed + i, sent[Committed + i])
<1> DEFINE M == {Msg(i, s) : i \in Nat, s \in PayloadSizes}
           n == Len(sent) - Committed
<1>1. n \in Nat /\ Committed \in Nat
  BY SMTT(30) DEF Typed
<1>2. \A i \in 1 .. n : Msg(Committed + i, sent[Committed + i]) \in M
  <2> SUFFICES ASSUME NEW i \in 1 .. n
               PROVE  Msg(Committed + i, sent[Committed + i]) \in M
    OBVIOUS
  <2>1. Committed + i \in Nat /\ Committed + i \in 1 .. Len(sent)
    BY <1>1 DEF Typed
  <2>2. sent[Committed + i] \in PayloadSizes
    BY <2>1 DEF Typed
  <2> QED
    BY <2>1, <2>2
<1> HIDE DEF M
<1>3. Queued = [i \in 1 .. n |-> Msg(Committed + i, sent[Committed + i])]
  BY DEF Queued
<1> HIDE DEF n
<1> QED
  BY <1>1, <1>2, <1>3, SMTT(30) DEF M, n

(* A sequence, and what Tail leaves of it, element by element.               *)
LEMMA Elementwise ==
  ASSUME NEW S, NEW q \in Seq(S)
  PROVE  /\ q = [i \in 1 .. Len(q) |-> q[i]]
         /\ q # <<>> => Tail(q) = [i \in 1 .. Len(q) - 1 |-> q[i + 1]]
<1>1. ASSUME NEW t \in Seq(S)
      PROVE  t = [i \in 1 .. Len(t) |-> t[i]]
  BY <1>1
<1>2. ASSUME q # <<>>
      PROVE  Tail(q) = [i \in 1 .. Len(q) - 1 |-> q[i + 1]]
  <2>1. /\ Tail(q) \in Seq(S) /\ Len(Tail(q)) = Len(q) - 1
        /\ \A i \in 1 .. Len(Tail(q)) : Tail(q)[i] = q[i + 1]
    BY <1>2, TailFacts
  <2>2. Tail(q) = [i \in 1 .. Len(Tail(q)) |-> Tail(q)[i]]
    BY <1>1, <2>1, Zenon
  <2> QED
    BY <2>1, <2>2, Zenon
<1> QED
  BY <1>1, <1>2

(* The reader has committed no more than was sent.                           *)
LEMMA CommittedSent ==
  ASSUME Typed, ReadPosition
  PROVE  Committed \in 0 .. Len(sent)
<1>1. Len(rmo) \in 1 .. Len(rmo)
  BY DEF Typed
<1> QED
  BY <1>1 DEF ReadPosition, Committed

(* The store of write_ix_ puts the message at the end of the queue.          *)
LEMMA StoreWriteIxSends ==
  ASSUME TypeOK, Typed, ReadPosition, BelowBound, StoreWriteIx
  PROVE  FIFO!Next
<1> DEFINE C == Committed
           e == Len(sent)
           m == Msg(e + 1, psize)
           M == {Msg(i, s) : i \in Nat, s \in PayloadSizes}
<1>1. /\ sent' = Append(sent, psize) /\ sent \in Seq(PayloadSizes)
      /\ psize \in PayloadSizes /\ C' = C
      /\ delivered' = delivered
  BY DEF StoreWriteIx, Typed, TypeOK, Committed
<1>2. /\ e \in Nat /\ C \in 0 .. e /\ C \in Nat /\ e - C \in Nat
      /\ e + 1 \in 1 .. MaxMessages
  BY CommittedSent, BoundAssumption, SMTT(30) DEF Typed, BelowBound, Writing, StoreWriteIx
<1>3. /\ Len(sent') = e + 1 /\ sent'[e + 1] = psize
      /\ \A i \in 1 .. e : sent'[i] = sent[i]
  BY <1>1, <1>2
<1>4. /\ Queued \in Seq(M) /\ Len(Queued) = e - C
      /\ \A i \in 1 .. e - C : Queued[i] = Msg(C + i, sent[C + i])
  BY <1>2, QueuedFacts
<1>5. m \in M
  <2>1. e + 1 \in Nat
    BY <1>2
  <2> HIDE DEF e
  <2> QED
    BY <1>1, <2>1
<1>6. Queued' = [i \in 1 .. (e + 1) - C |-> Msg(C + i, sent'[C + i])]
  BY <1>1, <1>3 DEF Queued
<1> HIDE DEF C, e, m, M
<1>7. /\ Append(Queued, m) \in Seq(M) /\ Len(Append(Queued, m)) = (e + 1) - C
      /\ \A i \in 1 .. e - C : Append(Queued, m)[i] = Queued[i]
      /\ Append(Queued, m)[(e + 1) - C] = m
  <2>1. (e - C) + 1 = (e + 1) - C
    BY <1>2
  <2> QED
    BY <1>4, <1>5, <2>1, AppendFacts
<1>8. Append(Queued, m) = [i \in 1 .. (e + 1) - C |-> Append(Queued, m)[i]]
  BY <1>7, Elementwise, Zenon
<1>9. ASSUME NEW i \in 1 .. (e + 1) - C
      PROVE  Append(Queued, m)[i] = Msg(C + i, sent'[C + i])
  <2>1. CASE i \in 1 .. e - C
    <3>1. C + i \in 1 .. e
      BY <1>2, <2>1
    <3> QED
      BY <1>3, <1>4, <1>7, <2>1, <3>1
  <2>2. CASE i = (e + 1) - C
    <3>1. C + i = e + 1
      BY <1>2, <2>2
    <3> QED
      BY <1>3, <1>7, <2>2, <3>1 DEF m
  <2>3. i \in 1 .. e - C \/ i = (e + 1) - C
    BY <1>2
  <2> QED
    BY <2>1, <2>2, <2>3, Zenon
<1>10. Queued' = Append(Queued, m)
  BY <1>6, <1>8, <1>9, Zenon
<1>11. m \in {Msg(i, s) : i \in 1 .. MaxMessages, s \in PayloadSizes}
  BY <1>1, <1>2 DEF m
<1> QED
  BY <1>1, <1>10, <1>11, SMTT(30) DEF FIFO!Next, FIFO!Send

(* The store of read_ix_ takes the first message off it.                     *)
LEMMA StoreReadIxReceives ==
  ASSUME TypeOK, Typed, Ring, StoreReadIx
  PROVE  FIFO!Next
<1> DEFINE C == Committed
           e == Len(sent)
           M == {Msg(i, s) : i \in Nat, s \in PayloadSizes}
<1>1. /\ cpc = "view" /\ sent' = sent
      /\ delivered' = Append(delivered, Found)
      /\ rmo' = Append(rmo, [ix   |-> next_index(cview.index, total_size(cview.size)),
                             lap  |-> LastRead.lap,
                             done |-> LastRead.done + 1])
  BY SMTT(30) DEF StoreReadIx, LastRead
<1>2. /\ C \in Nat /\ C < e /\ e \in Nat
      /\ Found = Msg(C + 1, sent[C + 1])
  BY <1>1, FoundIsOldest DEF Typed
<1>3. C' = C + 1
  <2> DEFINE x == [ix   |-> next_index(cview.index, total_size(cview.size)),
                   lap  |-> LastRead.lap,
                   done |-> LastRead.done + 1]
             S == [ix : Nat, lap : Nat, done : Nat]
  <2>1. x.done = LastRead.done + 1 /\ C = LastRead.done
    BY DEF Committed, LastRead
  <2> HIDE DEF x
  <2>2. rmo \in Seq(S) /\ rmo' = Append(rmo, x)
    BY <1>1 DEF x, TypeOK
  <2>3. rmo'[Len(rmo')] = x
    BY <2>2
  <2> QED
    BY <2>1, <2>3 DEF Committed
<1>4. /\ Queued \in Seq(M) /\ Len(Queued) = e - C
      /\ \A i \in 1 .. e - C : Queued[i] = Msg(C + i, sent[C + i])
  BY <1>2, QueuedFacts
<1>5. Queued' = [i \in 1 .. e - (C + 1) |-> Msg((C + 1) + i, sent[(C + 1) + i])]
  BY <1>1, <1>3 DEF Queued
<1> HIDE DEF C, e, M
<1>6. Queued # <<>> /\ Head(Queued) = Found
  <2>1. e - C >= 1
    BY <1>2
  <2>2. Queued[1] = Msg(C + 1, sent[C + 1])
    BY <1>2, <1>4
  <2> QED
    BY <1>2, <1>4, <2>1, <2>2
<1>7. Tail(Queued) = [i \in 1 .. (e - C) - 1 |-> Queued[i + 1]]
  BY <1>4, <1>6, Elementwise, Zenon
<1>8. ASSUME NEW i \in 1 .. e - (C + 1)
      PROVE  Queued[i + 1] = Msg((C + 1) + i, sent[(C + 1) + i])
  <2>1. i + 1 \in 1 .. e - C /\ C + (i + 1) = (C + 1) + i
    BY <1>2
  <2> QED
    BY <1>4, <2>1
<1>9. (e - C) - 1 = e - (C + 1)
  BY <1>2
<1>10. Queued' = Tail(Queued)
  BY <1>5, <1>7, <1>8, <1>9, Zenon
<1> QED
  BY <1>1, <1>6, <1>10 DEF FIFO!Next, FIFO!Receive

(* While enqueue accepts no wrap with write_ix < read_ix, every step of the  *)
(* two threads, and every crash, is a step of the abstract queue or leaves   *)
(* it alone: the safety part of ImplementsFIFO, for every buffer, every set  *)
(* of payload sizes and any number of messages and crashes.                  *)
THEOREM RefinesFIFO == Spec /\ [](overruns = 0) => FIFO!Spec
<1>1. Init => FIFO!Init
  <2> SUFFICES ASSUME Init PROVE Queued = <<>> /\ delivered = <<>>
    BY DEF FIFO!Init
  <2>1. Len(sent) = 0 /\ Committed = 0
    BY DEF Init, Committed
  <2>2. Queued = [i \in 1 .. 0 |-> Msg(Committed + i, sent[Committed + i])]
    BY <2>1 DEF Queued
  <2> QED
    BY <2>2 DEF Init
<1>2. IndInv /\ BelowBound /\ overruns = 0 /\ [Next]_vars
      => [FIFO!Next]_<<Queued, delivered>>
  <2> SUFFICES ASSUME IndInv, BelowBound, overruns = 0, [Next]_vars
               PROVE  FIFO!Next \/ UNCHANGED <<Queued, delivered>>
    OBVIOUS
  <2>1. TypeOK /\ Typed /\ Ring /\ ReadPosition
    BY TypeFacts DEF IndInv, Ring, Layout
  <2>2. CASE StoreWriteIx
    BY <2>1, <2>2, StoreWriteIxSends
  <2>3. CASE StoreReadIx
    BY <2>1, <2>3, StoreReadIxReceives
  <2>4. CASE StoreWrappedReadIx
    <3> DEFINE x == [ix |-> 0, lap |-> LastRead.lap + 1, done |-> LastRead.done]
               S == [ix : Nat, lap : Nat, done : Nat]
    <3>1. x.done = LastRead.done /\ Committed = LastRead.done
      BY DEF Committed, LastRead
    <3> HIDE DEF x
    <3>2. rmo \in Seq(S) /\ rmo' = Append(rmo, x) /\ UNCHANGED <<sent, delivered>>
      BY <2>1, <2>4 DEF x, TypeOK, StoreWrappedReadIx, LastRead
    <3>3. rmo'[Len(rmo')] = x
      BY <3>2
    <3>4. Committed' = Committed
      BY <3>1, <3>3 DEF Committed
    <3> QED
      BY <3>2, <3>4 DEF Queued
  <2>5. CASE UNCHANGED <<rmo, sent, delivered>>
    BY <2>5 DEF Queued, Committed
  <2> QED
    BY <2>2, <2>3, <2>4, <2>5, Zenon
       DEF Next, Enqueue, Dequeue, EnqueueRefuse, EnqueueReserve, CopyPayload,
           CopyHeader, WriteSentinel, AddMsgCount, LoadWriteIx, ReadSentinel,
           ReadHeader, SubMsgCount, ProducerCrash, ConsumerCrash, vars
<1> QED
  BY <1>1, <1>2, RingIntact, BoundKept, PTL DEF Spec, FIFO!Spec, FIFO!fifoVars

(* With messages that all take the same number of bytes the ring implements  *)
(* the abstract queue without further conditions.                            *)
THEOREM UniformRefinesFIFO ==
  ASSUME Uniform
  PROVE  Spec => FIFO!Spec
  BY UniformNeverOverruns, RefinesFIFO, PTL

=============================================================================
