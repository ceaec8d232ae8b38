------------------------------ MODULE SPSCQueue ------------------------------
(****************************************************************************)
(* The single-producer, single-consumer ring of SPSCQueue.hpp, with the     *)
(* shared words of SPSCStorage.hpp it works on.                             *)
(*                                                                          *)
(* One producer thread calls enqueue, one consumer thread calls             *)
(* dequeue_begin and dequeue_commit; each action is one access of a call to *)
(* shared memory together with the local computation up to the next access. *)
(*                                                                          *)
(* read_ix_ and write_ix_ are std::atomic, each stored by one thread only   *)
(* (release) and loaded by the other (acquire).  Such a load may return any *)
(* store of the object's modification order that is not older than one the  *)
(* thread has already seen, and makes visible what was written before that  *)
(* store.  So each index is kept as its modification order, a sequence, and *)
(* a peer's load chooses an element at or after the last one it saw.        *)
(*                                                                          *)
(* Addresses are byte offsets into buffer_, which is kept as 8-byte words.  *)
(****************************************************************************)
EXTENDS Integers, Sequences

CONSTANTS
  BufferSize,     \* buffer_size_, in bytes
  PayloadSizes,   \* payload sizes, in bytes, that the producer sends
  CountModulus,   \* msg_count_ is a size_t: 2^64 in the code
  MaxMessages,    \* bound: messages accepted in a behaviour
  MaxCrashes      \* bound: crashes of either process in a behaviour

HeaderSize == 8   \* sizeof(size_t)
Align == 8

(* Mutant: the index is not rounded up. *)
next_index_Unaligned(current_index, size) == current_index + size

(* Where the index lands after `size' bytes at `current_index', rounded up. *)
next_index(current_index, size) ==
  ((current_index + size + Align - 1) \div Align) * Align

max_message_size == BufferSize \div 2

max_payload_size == max_message_size - HeaderSize

(* Message::total_size and MessageView::total_size. *)
total_size(payload_size) == HeaderSize + payload_size

(* Bytes a message takes in the ring. *)
Slot(payload_size) == next_index(0, total_size(payload_size))

(* SPSCQueue::create accepts the storage. *)
create == BufferSize % Align = 0 /\ BufferSize >= next_index(0, HeaderSize + 8)

(* The two assertions at the head of enqueue. *)
enqueue_asserts(payload_size) ==
  payload_size > 0 /\ payload_size <= max_payload_size

ASSUME BufferAssumption == BufferSize \in Nat /\ create

ASSUME PayloadAssumption ==
  PayloadSizes \subseteq {s \in Nat : enqueue_asserts(s)}

ASSUME BoundAssumption ==
  /\ CountModulus \in Nat \ {0}
  /\ MaxMessages \in Nat
  /\ MaxCrashes \in Nat
  /\ MaxMessages + MaxCrashes + 1 < CountModulus

Words == {a \in 0 .. BufferSize - 1 : a % Align = 0}

(* A word holds a header (the payload size, 0 for the wrap sentinel) or     *)
(* bytes of the payload of the i-th accepted message; 0 is what was there   *)
(* before any message.                                                      *)
Cell == [kind : {"size", "data"}, val : Nat]
SizeCell(n) == [kind |-> "size", val |-> n]
DataCell(i) == [kind |-> "data", val |-> i]

(* The words that memcpy of a payload touches, for a message at `start'. *)
DataWords(start, size) ==
  {a \in Words : start + HeaderSize <= a /\ a < start + HeaderSize + size}

VARIABLES
  buffer,      \* the words of buffer_
  wmo,         \* modification order of write_ix_
  rmo,         \* modification order of read_ix_
  msg_count,   \* msg_count_
  ppc,         \* producer: where in enqueue it is
  psize,       \* producer: payload size of the message being enqueued
  pseen,       \* producer: position in rmo of the last value it loaded
  cpc,         \* consumer: where in dequeue_begin/dequeue_commit it is
  cview,       \* consumer: the MessageView it holds
  cseen,       \* consumer: position in wmo of the last value it loaded
  sent,        \* history: payload sizes of the accepted messages
  delivered,   \* history: what the consumer found in each committed view
  overruns,    \* history: wraps accepted while write_ix < read_ix
  crashes      \* history: crashes so far

producerVars == <<ppc, psize, pseen>>
consumerVars == <<cpc, cview, cseen>>
vars == <<buffer, wmo, rmo, msg_count, producerVars, consumerVars,
          sent, delivered, overruns, crashes>>

(* An element of wmo also records how often the writer has wrapped, one of  *)
(* rmo the lap the reader is in and how many messages it has committed;     *)
(* only `ix' is in memory.                                                  *)
write_ix == wmo[Len(wmo)].ix
read_ix == rmo[Len(rmo)].ix
Committed == rmo[Len(rmo)].done

NoView == [index |-> 0, size |-> 0]

----------------------------------------------------------------------------
(* enqueue *)

Crosses(w, s) == next_index(w, total_size(s)) >= BufferSize

(* Mutant: leaves room for a header before the message that wraps. *)
MsgStart_BehindHeader(w, s) == IF Crosses(w, s) THEN HeaderSize ELSE w

MsgStart(w, s) == IF Crosses(w, s) THEN 0 ELSE w

(* Mutants of the check for the reader ahead: one byte too lenient, and      *)
(* refusing when the indices are equal.                                      *)
FullAhead_Meets(w, r, s) == w < r /\ next_index(w, total_size(s)) > r
FullAhead_WhenEqual(w, r, s) == w <= r /\ next_index(w, total_size(s)) >= r

FullAhead(w, r, s) == w < r /\ next_index(w, total_size(s)) >= r

(* Mutant: wraps without looking for the reader at the start of the buffer. *)
FullAfterWrap_Unchecked(w, r, s) == w < r /\ w + HeaderSize >= r

FullAfterWrap(w, r, s) ==
  \/ w < r /\ w + HeaderSize >= r
  \/ next_index(0, total_size(s)) >= r

Full(w, r, s) ==
  IF Crosses(w, s) THEN FullAfterWrap(w, r, s) ELSE FullAhead(w, r, s)

(* The producer's load of read_ix_ returns the n-th value stored in it. *)
LoadReadIx(s, n) ==
  /\ ppc \in {"idle", "full"}
  /\ Len(sent) < MaxMessages
  /\ pseen' = n
  /\ psize' = s

EnqueueRefuse(s, n) ==
  /\ LoadReadIx(s, n)
  /\ Full(write_ix, rmo[n].ix, s)
  /\ ppc' = "full"
  /\ UNCHANGED <<buffer, wmo, rmo, msg_count, consumerVars,
                 sent, delivered, overruns, crashes>>

EnqueueReserve(s, n) ==
  /\ LoadReadIx(s, n)
  /\ ~ Full(write_ix, rmo[n].ix, s)
  /\ ppc' = "payload"
  /\ overruns' = IF Crosses(write_ix, s) /\ write_ix < rmo[n].ix
                 THEN overruns + 1 ELSE overruns
  /\ UNCHANGED <<buffer, wmo, rmo, msg_count, consumerVars,
                 sent, delivered, crashes>>

CopyPayload ==
  /\ ppc = "payload"
  /\ buffer' = [a \in Words |->
                  IF a \in DataWords(MsgStart(write_ix, psize), psize)
                  THEN DataCell(Len(sent) + 1) ELSE buffer[a]]
  /\ ppc' = "header"
  /\ UNCHANGED <<wmo, rmo, msg_count, psize, pseen, consumerVars,
                 sent, delivered, overruns, crashes>>

CopyHeader ==
  /\ ppc = "header"
  /\ buffer' = [buffer EXCEPT ![MsgStart(write_ix, psize)] = SizeCell(psize)]
  /\ ppc' = IF Crosses(write_ix, psize) THEN "sentinel" ELSE "publish"
  /\ UNCHANGED <<wmo, rmo, msg_count, psize, pseen, consumerVars,
                 sent, delivered, overruns, crashes>>

(* Mutant: the old bytes stay where the sentinel belongs. *)
WriteSentinel_Forgotten ==
  /\ ppc = "sentinel"
  /\ ppc' = "publish"
  /\ UNCHANGED <<buffer, wmo, rmo, msg_count, psize, pseen, consumerVars,
                 sent, delivered, overruns, crashes>>

WriteSentinel ==
  /\ ppc = "sentinel"
  /\ buffer' = [buffer EXCEPT ![write_ix] = SizeCell(0)]
  /\ ppc' = "publish"
  /\ UNCHANGED <<wmo, rmo, msg_count, psize, pseen, consumerVars,
                 sent, delivered, overruns, crashes>>

StoreWriteIx ==
  /\ ppc = "publish"
  /\ LET last == wmo[Len(wmo)]
     IN wmo' = Append(wmo,
          [ix  |-> next_index(MsgStart(last.ix, psize), total_size(psize)),
           lap |-> IF Crosses(last.ix, psize) THEN last.lap + 1 ELSE last.lap])
  /\ sent' = Append(sent, psize)
  /\ ppc' = "count"
  /\ UNCHANGED <<buffer, rmo, msg_count, psize, pseen, consumerVars,
                 delivered, overruns, crashes>>

(* Mutant: the counter is not incremented. *)
AddMsgCount_Forgotten ==
  /\ ppc = "count"
  /\ ppc' = "idle"
  /\ UNCHANGED <<buffer, wmo, rmo, msg_count, psize, pseen, consumerVars,
                 sent, delivered, overruns, crashes>>

AddMsgCount ==
  /\ ppc = "count"
  /\ msg_count' = (msg_count + 1) % CountModulus
  /\ ppc' = "idle"
  /\ UNCHANGED <<buffer, wmo, rmo, psize, pseen, consumerVars,
                 sent, delivered, overruns, crashes>>

----------------------------------------------------------------------------
(* dequeue_begin.  A caller may begin again without committing the view. *)

LoadWriteIx(n) ==
  /\ cpc \in {"idle", "empty", "recheck", "view"}
  /\ cseen' = n
  /\ cview' = NoView
  /\ cpc' = IF read_ix = wmo[n].ix THEN "empty" ELSE "header"
  /\ UNCHANGED <<buffer, wmo, rmo, msg_count, producerVars,
                 sent, delivered, overruns, crashes>>

(* What memcpy of a header returns: payload bytes, bytes that were never    *)
(* written and bytes past the buffer may be any number.                     *)
SizesAt(a) ==
  IF a \in Words /\ buffer[a].kind = "size"
  THEN {buffer[a].val} ELSE 0 .. BufferSize

ReadSentinel ==
  /\ cpc = "header"
  /\ 0 \in SizesAt(read_ix)
  /\ cpc' = "wrap"
  /\ UNCHANGED <<buffer, wmo, rmo, msg_count, producerVars, cview, cseen,
                 sent, delivered, overruns, crashes>>

ReadHeader(size) ==
  /\ cpc = "header"
  /\ size # 0
  /\ cview' = [index |-> read_ix, size |-> size]
  /\ cpc' = "view"
  /\ UNCHANGED <<buffer, wmo, rmo, msg_count, producerVars, cseen,
                 sent, delivered, overruns, crashes>>

StoreWrappedReadIx ==
  /\ cpc = "wrap"
  /\ LET last == rmo[Len(rmo)]
     IN rmo' = Append(rmo, [ix |-> 0, lap |-> last.lap + 1, done |-> last.done])
  /\ cpc' = "recheck"
  /\ UNCHANGED <<buffer, wmo, msg_count, producerVars, cview, cseen,
                 sent, delivered, overruns, crashes>>

----------------------------------------------------------------------------
(* dequeue_commit *)

(* What the caller finds through the view, up to dequeue_commit. *)
Found == [size  |-> cview.size,
          bytes |-> {buffer[a] : a \in DataWords(cview.index, cview.size)}]

StoreReadIx ==
  /\ cpc = "view"
  /\ LET last == rmo[Len(rmo)]
     IN rmo' = Append(rmo,
          [ix   |-> next_index(cview.index, total_size(cview.size)),
           lap  |-> last.lap,
           done |-> last.done + 1])
  /\ delivered' = Append(delivered, Found)
  /\ cpc' = "count"
  /\ UNCHANGED <<buffer, wmo, msg_count, producerVars, cview, cseen,
                 sent, overruns, crashes>>

SubMsgCount ==
  /\ cpc = "count"
  /\ msg_count' = (msg_count - 1) % CountModulus
  /\ cpc' = "idle"
  /\ cview' = NoView
  /\ UNCHANGED <<buffer, wmo, rmo, producerVars, cseen,
                 sent, delivered, overruns, crashes>>

----------------------------------------------------------------------------
(* The indices, the counter and the buffer live in shared memory.  A process *)
(* that dies loses its locals; the next one attaches to the storage as it is *)
(* (Publisher::from_config without recreation, SPSCStorage::map).            *)

ProducerCrash ==
  /\ crashes < MaxCrashes
  /\ ppc # "idle"
  /\ ppc' = "idle"
  /\ crashes' = crashes + 1
  /\ UNCHANGED <<buffer, wmo, rmo, msg_count, psize, pseen, consumerVars,
                 sent, delivered, overruns>>

ConsumerCrash ==
  /\ crashes < MaxCrashes
  /\ cpc # "idle"
  /\ cpc' = "idle"
  /\ cview' = NoView
  /\ crashes' = crashes + 1
  /\ UNCHANGED <<buffer, wmo, rmo, msg_count, producerVars, cseen,
                 sent, delivered, overruns>>

----------------------------------------------------------------------------
(* The storage as SPSCStorage's constructor leaves it. *)
Init ==
  /\ buffer = [a \in Words |-> DataCell(0)]
  /\ wmo = <<[ix |-> 0, lap |-> 0]>>
  /\ rmo = <<[ix |-> 0, lap |-> 0, done |-> 0]>>
  /\ msg_count = 0
  /\ ppc = "idle" /\ psize = 0 /\ pseen = 1
  /\ cpc = "idle" /\ cview = NoView /\ cseen = 1
  /\ sent = <<>> /\ delivered = <<>>
  /\ overruns = 0 /\ crashes = 0

Enqueue ==
  \/ \E s \in PayloadSizes, n \in pseen .. Len(rmo) :
       EnqueueRefuse(s, n) \/ EnqueueReserve(s, n)
  \/ CopyPayload \/ CopyHeader \/ WriteSentinel
  \/ StoreWriteIx \/ AddMsgCount

Dequeue ==
  \/ \E n \in cseen .. Len(wmo) : LoadWriteIx(n)
  \/ ReadSentinel
  \/ \E size \in SizesAt(read_ix) : ReadHeader(size)
  \/ StoreWrappedReadIx
  \/ StoreReadIx \/ SubMsgCount

Next == Enqueue \/ Dequeue \/ ProducerCrash \/ ConsumerCrash

Spec == Init /\ [][Next]_vars

----------------------------------------------------------------------------
(* The read-only calls, by the thread that makes them; n is the position of  *)
(* the value that its load of the peer's index returns.                      *)

is_empty(n) == rmo[n].ix = write_ix      \* from the producer
can_dequeue(n) == read_ix # wmo[n].ix    \* from the consumer
size == msg_count

----------------------------------------------------------------------------
(* Where the k-th accepted message lies, once write_ix_ has moved past it. *)

MsgEnd(k) == wmo[k + 1].ix
MsgBegin(k) == MsgEnd(k) - Slot(sent[k])

(* The k-th accepted message was written at the start of the buffer, behind *)
(* a sentinel at the index before it.                                       *)
Wrapped(k) == wmo[k + 1].lap # wmo[k].lap

Unread == Committed + 1 .. Len(sent)

(* Words the consumer has still to read: the unread messages, and the        *)
(* sentinels it has not yet passed.                                          *)
UnreadWords ==
  {a \in Words : \E k \in Unread :
      \/ MsgBegin(k) <= a /\ a < MsgEnd(k)
      \/ Wrapped(k) /\ a = wmo[k].ix /\ wmo[k].lap >= rmo[Len(rmo)].lap}

(* Words the rest of the call in progress writes. *)
PendingWords ==
  LET start == MsgStart(write_ix, psize)
  IN {a \in Words :
        \/ ppc = "payload" /\ a \in DataWords(start, psize)
        \/ ppc \in {"payload", "header"} /\ a = start
        \/ /\ ppc \in {"payload", "header", "sentinel"}
           /\ Crosses(write_ix, psize)
           /\ a = write_ix}

(* The view dequeue_begin returned is that of the oldest message not yet     *)
(* committed, its size and its bytes, as long as the caller holds it.        *)
ViewMatches ==
  cpc = "view" =>
    /\ Committed < Len(sent)
    /\ cview.size = sent[Committed + 1]
    /\ \A a \in DataWords(cview.index, cview.size) :
         buffer[a] = DataCell(Committed + 1)

(* The last call of enqueue returned false although the read index it loaded *)
(* said that every message was consumed.                                     *)
RefusedWhenEmpty == ppc = "full" /\ rmo[pseen].done = Len(sent)

----------------------------------------------------------------------------
(* Type correctness: write_ix_ is a word of the buffer, the positions the    *)
(* threads have seen exist, and the counter is a size_t.                     *)
TypeOK ==
  /\ buffer \in [Words -> Cell]
  /\ wmo \in Seq([ix : Words, lap : Nat])
  /\ rmo \in Seq([ix : Nat, lap : Nat, done : Nat])
  /\ Len(wmo) = Len(sent) + 1
  /\ msg_count \in 0 .. CountModulus - 1
  /\ ppc \in {"idle", "full", "payload", "header", "sentinel", "publish", "count"}
  /\ psize \in PayloadSizes \union {0} /\ (ppc # "idle" => psize # 0)
  /\ pseen \in 1 .. Len(rmo)
  /\ cpc \in {"idle", "empty", "header", "wrap", "recheck", "view", "count"}
  /\ cview \in [index : Nat, size : Nat]
  /\ cseen \in 1 .. Len(wmo)
  /\ sent \in Seq(PayloadSizes)
  /\ overruns \in Nat
  /\ crashes \in 0 .. MaxCrashes

(* Until enqueue accepts a wrap behind the reader, a view handed out by      *)
(* dequeue_begin is exactly the oldest message not yet committed, and stays  *)
(* so as long as the caller holds it: nothing is lost, repeated, reordered,  *)
(* torn or overwritten, across wraps, stale loads and crashes.               *)
DeliversOldestUnread == overruns = 0 => ViewMatches

(* enqueue never has a word yet to write that the consumer has still to      *)
(* read: a message that would cross the reader is refused.                   *)
KeepsUnread == PendingWords \cap UnreadWords = {}

(* Until then, that holds: the memcpy of the producer and the reads through  *)
(* the view never touch the same word without the indices ordering them.     *)
NoRace == overruns = 0 => KeepsUnread

(* Until then, equal indices mean an empty queue to every caller and at any  *)
(* staleness of the loaded index: is_empty is true for the producer only if  *)
(* everything it sent was consumed by that store; can_dequeue is false, and  *)
(* dequeue_begin returns an empty view, only if the consumer had committed   *)
(* every message the loaded write index covers.                              *)
EmptyMeansEmpty ==
  overruns = 0 =>
    /\ \A n \in pseen .. Len(rmo) : is_empty(n) => rmo[n].done = Len(sent)
    /\ \A n \in cseen .. Len(wmo) : ~ can_dequeue(n) => Committed = n - 1
    /\ cpc = "empty" => Committed = cseen - 1

(* enqueue turns a message down that takes less than half of the buffer only *)
(* if, by the index it loaded, something is still in the queue.              *)
RefusesOnlyWhenOccupied ==
  overruns = 0 /\ 2 * Slot(psize) < BufferSize => ~ RefusedWhenEmpty

(* size(), "called from writer thread: at most this many messages in the     *)
(* queue" (SPSCQueue.hpp:137): between two calls of enqueue the queue never  *)
(* holds more than size() says.  A producer that died between its store of   *)
(* write_ix_ and its fetch_add makes size() one too small for good, so       *)
(* the promise is weakened by one for every crash.                           *)
SizeFromWriter ==
  ppc \in {"idle", "full"} => Len(sent) - Committed <= size + crashes

(* size(), "called from reader thread: at least this many messages in the    *)
(* queue" (SPSCQueue.hpp:136): while no call of its own is under way, the    *)
(* reader finds no more in size() than the queue holds.                      *)
SizeFromReader ==
  cpc \in {"idle", "empty", "view"} => size <= Len(sent) - Committed

(* The first wrap that enqueue accepts while the reader is ahead of the      *)
(* writer comes with a message that takes a number of bytes other than one   *)
(* accepted before: messages of one size never run over the reader.          *)
OverrunNeedsTwoSizes ==
  [][overruns = 0 /\ overruns' # 0 =>
       \E k \in 1 .. Len(sent) : Slot(sent[k]) # Slot(psize')]_vars
=============================================================================
