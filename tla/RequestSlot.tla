----------------------------- MODULE RequestSlot -----------------------------
(****************************************************************************)
(* What the two client/server examples promise: one slot for a request; a   *)
(* client puts its request into the free slot, and the server increments    *)
(* the value of the request in the slot, once, and frees it.                *)
(****************************************************************************)
EXTENDS Naturals

CONSTANTS Clients, None, Modulus

VARIABLES
  slot,    \* the client whose request is waiting, or None
  value    \* the value of each client's request, modulo Modulus

slotVars == <<slot, value>>

Init == slot = None /\ value = [c \in Clients |-> 0]

Submit(c) == slot = None /\ slot' = c /\ UNCHANGED value

Serve ==
  /\ slot # None
  /\ value' = [value EXCEPT ![slot] = (@ + 1) % Modulus]
  /\ slot' = None

Next == Serve \/ \E c \in Clients : Submit(c)

(* Every request is served, and there is always another one. *)
Spec ==
  /\ Init /\ [][Next]_slotVars
  /\ WF_slotVars(Serve)
  /\ WF_slotVars(\E c \in Clients : Submit(c))
==============================================================================
