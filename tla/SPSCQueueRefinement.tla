------------------------- MODULE SPSCQueueRefinement -------------------------
(****************************************************************************)
(* The ring of SPSCQueue implements the abstract queue of MessageFIFO, and  *)
(* its two callers make progress.                                           *)
(****************************************************************************)
EXTENDS SPSCQueue

(* The i-th accepted message as its receiver sees it: its size, and its own  *)
(* bytes and no others.                                                      *)
Msg(i, s) == [size |-> s, bytes |-> {DataCell(i)}]

Queued == [i \in 1 .. Len(sent) - Committed |->
             Msg(Committed + i, sent[Committed + i])]

FIFO == INSTANCE MessageFIFO
          WITH Message  <- {Msg(i, s) : i \in 1 .. MaxMessages, s \in PayloadSizes},
               queue    <- Queued,
               received <- delivered

(* Both threads keep running, so a call that has begun ends (weak fairness). *)
(* A store to an atomic becomes visible to the peer's loads in the end, so a *)
(* caller that polls or retries does not read a stale index for ever; a      *)
(* caller given a view commits it in the end, even if it looks at it several *)
(* times before.  Both are strong fairness, because other steps of the same  *)
(* thread may switch them off in between.                                    *)
Fairness ==
  /\ WF_vars(CopyPayload \/ CopyHeader \/ WriteSentinel
             \/ StoreWriteIx \/ AddMsgCount)
  /\ WF_vars(ReadSentinel \/ StoreWrappedReadIx \/ SubMsgCount
             \/ \E n \in SizesAt(read_ix) : ReadHeader(n))
  /\ SF_vars(\E s \in PayloadSizes :
               EnqueueRefuse(s, Len(rmo)) \/ EnqueueReserve(s, Len(rmo)))
  /\ SF_vars(LoadWriteIx(Len(wmo)))
  /\ SF_vars(StoreReadIx)

(* Every step of enqueue, dequeue_begin and dequeue_commit is a step of the  *)
(* abstract queue or leaves it alone: a message is accepted at the store of  *)
(* write_ix_ and handed over, as read from the buffer, at that of read_ix_;  *)
(* and whatever was accepted is handed over in the end.                      *)
ImplementsFIFO == FIFO!FairSpec

(* A caller that retries after enqueue returned false, as the loop           *)
(* while (!q.enqueue(msg)) of tests/SPSC.cpp, is accepted in the end.      *)
RefusedGetsIn == ppc = "full" ~> ppc = "payload"
==============================================================================
