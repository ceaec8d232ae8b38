----------------------------- MODULE MessageFIFO -----------------------------
(****************************************************************************)
(* What the queue promises its two callers: a first-in, first-out queue of  *)
(* messages that loses, repeats and alters nothing.  Accepting a message    *)
(* and handing it over are single steps.  How much the queue can hold is    *)
(* left open: enqueue may turn down a message at any time.                  *)
(****************************************************************************)
EXTENDS Sequences

CONSTANT Message

VARIABLES
  queue,     \* messages accepted and not yet handed over, oldest first
  received   \* messages handed over, in order

fifoVars == <<queue, received>>

Init == queue = <<>> /\ received = <<>>

Send(m) ==
  /\ queue' = Append(queue, m)
  /\ UNCHANGED received

Receive ==
  /\ queue # <<>>
  /\ received' = Append(received, Head(queue))
  /\ queue' = Tail(queue)

Next == (\E m \in Message : Send(m)) \/ Receive

Spec == Init /\ [][Next]_fifoVars

(* Every accepted message is handed over in the end. *)
FairSpec == Spec /\ WF_fifoVars(Receive)
==============================================================================
