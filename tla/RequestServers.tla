---------------------------- MODULE RequestServers ----------------------------
(****************************************************************************)
(* examples/condvar_client_server.cpp and examples/atomic_client_server.cpp *)
(* (the program is chosen in Init): clients hand requests to a server       *)
(* through one pointer in shared memory, with a mutex and two condition     *)
(* variables, or with atomics.                                              *)
(*                                                                          *)
(* With the mutex, what a thread does between taking it and releasing it,   *)
(* or waiting, is one step.  With the atomics, every access is one.  A      *)
(* stale load there only makes a loop go round again: the server cannot     *)
(* load a request older than its own reset, nor a client an answer older    *)
(* than its own store to processed.                                         *)
(****************************************************************************)
EXTENDS Naturals

CONSTANTS
  Clients,
  None,        \* nullptr
  Modulus      \* the values are counted modulo Modulus

ASSUME RequestServersAssumption == None \notin Clients /\ Modulus \in Nat \ {0, 1, 2}

VARIABLES
  program,     \* "condvar" or "atomic"; it never changes
  request,     \* currentRequest, request: the client whose request it points to
  value,       \* the value of each client's request
  processed,   \* and its flag
  spc, req,    \* where the server is; its local of that name (atomic)
  cpc,         \* where each client is
  asked        \* history: the requests each client has submitted

vars == <<program, request, value, processed, spc, req, cpc, asked>>

Incremented(f, c) == [f EXCEPT ![c] = (@ + 1) % Modulus]
Goto(c, label) == cpc' = [cpc EXCEPT ![c] = label]

----------------------------------------------------------------------------
(* condvar_client_server.  A client waits on cond_clt for its turn or for    *)
(* its answer; a signal wakes any one of them.                               *)

OnCondClt == {c \in Clients : cpc[c] \in {"wait_turn", "wait_answer"}}

Woken(c) == [cpc EXCEPT ![c] = IF @ = "wait_turn" THEN "turn" ELSE "answer"]

(* Mutant: the clients are not signalled. *)
ServerRuns_NoSignal ==
  /\ spc = "run"
  /\ \/ /\ request = None
        /\ spc' = "wait"
        /\ UNCHANGED <<request, value, processed>>
     \/ /\ request # None
        /\ value' = Incremented(value, request)
        /\ processed' = [processed EXCEPT ![request] = TRUE]
        /\ request' = None
        /\ UNCHANGED spc
  /\ UNCHANGED <<program, req, cpc, asked>>

(* The server waits for a request, or serves it and signals cond_clt. *)
ServerRuns ==
  /\ spc = "run"
  /\ \/ /\ request = None
        /\ spc' = "wait"
        /\ UNCHANGED <<request, value, processed, cpc>>
     \/ /\ request # None
        /\ value' = Incremented(value, request)
        /\ processed' = [processed EXCEPT ![request] = TRUE]
        /\ request' = None
        /\ IF OnCondClt = {} THEN UNCHANGED cpc ELSE \E c \in OnCondClt : cpc' = Woken(c)
        /\ UNCHANGED spc
  /\ UNCHANGED <<program, req, asked>>

(* Another request is being processed: the client waits for its turn. *)
ClientWaits(c) ==
  /\ cpc[c] = "turn" /\ request # None
  /\ Goto(c, "wait_turn")
  /\ UNCHANGED <<program, request, value, processed, spc, req, asked>>

(* It writes its request, signals cond_srv and waits for the answer. *)
ClientSubmits(c) ==
  /\ cpc[c] = "turn" /\ request = None
  /\ request' = c
  /\ asked' = Incremented(asked, c)
  /\ spc' = IF spc = "wait" THEN "run" ELSE spc
  /\ Goto(c, "wait_answer")
  /\ UNCHANGED <<program, value, processed, req>>

(* Mutant: if in place of while around the wait for the answer. *)
ClientResumes_If(c) ==
  /\ cpc[c] = "answer"
  /\ Goto(c, "turn")
  /\ UNCHANGED <<program, request, value, processed, spc, req, asked>>

(* Woken from that wait: it waits again while there is any request. *)
ClientResumes(c) ==
  /\ cpc[c] = "answer"
  /\ Goto(c, IF request # None THEN "wait_answer" ELSE "turn")
  /\ UNCHANGED <<program, request, value, processed, spc, req, asked>>

(* pthread_cond_wait may return without a signal. *)
SpuriousWakeup ==
  /\ \/ spc = "wait" /\ spc' = "run" /\ UNCHANGED cpc
     \/ (\E c \in OnCondClt : cpc' = Woken(c)) /\ UNCHANGED spc
  /\ UNCHANGED <<program, request, value, processed, req, asked>>

----------------------------------------------------------------------------
(* atomic_client_server *)

ServerLoads ==
  /\ spc = "load" /\ request # None
  /\ req' = request
  /\ spc' = "process"
  /\ UNCHANGED <<program, request, value, processed, cpc, asked>>

ServerProcesses ==
  /\ spc = "process"
  /\ value' = Incremented(value, req)
  /\ spc' = "answer"
  /\ UNCHANGED <<program, request, processed, req, cpc, asked>>

ServerAnswers ==
  /\ spc = "answer"
  /\ processed' = [processed EXCEPT ![req] = TRUE]
  /\ spc' = "reset"
  /\ UNCHANGED <<program, request, value, req, cpc, asked>>

ServerResets ==
  /\ spc = "reset"
  /\ request' = None
  /\ req' = None
  /\ spc' = "load"
  /\ UNCHANGED <<program, value, processed, cpc, asked>>

ClientClears(c) ==
  /\ cpc[c] = "clear"
  /\ processed' = [processed EXCEPT ![c] = FALSE]
  /\ Goto(c, "exchange")
  /\ UNCHANGED <<program, request, value, spc, req, asked>>

(* Mutant: the pointer is stored, whatever it was. *)
ClientExchanges_NoCompare(c) ==
  /\ cpc[c] = "exchange"
  /\ request' = c
  /\ asked' = Incremented(asked, c)
  /\ Goto(c, "spin")
  /\ UNCHANGED <<program, value, processed, spc, req>>

(* compare_exchange_strong; if it fails, the client begins again. *)
ClientExchanges(c) ==
  /\ cpc[c] = "exchange"
  /\ \/ request = None /\ request' = c /\ asked' = Incremented(asked, c) /\ Goto(c, "spin")
     \/ request # None /\ Goto(c, "clear") /\ UNCHANGED <<request, asked>>
  /\ UNCHANGED <<program, value, processed, spc, req>>

(* The client sees the answer; the server may not have reset request yet. *)
ClientSeesAnswer(c) ==
  /\ cpc[c] = "spin" /\ processed[c]
  /\ Goto(c, "clear")
  /\ UNCHANGED <<program, request, value, processed, spc, req, asked>>

----------------------------------------------------------------------------
Init ==
  /\ program \in {"condvar", "atomic"}
  /\ request = None
  /\ value = [c \in Clients |-> 0]
  /\ processed = [c \in Clients |-> FALSE]
  /\ spc = IF program = "condvar" THEN "run" ELSE "load"
  /\ req = None
  /\ cpc = [c \in Clients |-> IF program = "condvar" THEN "turn" ELSE "clear"]
  /\ asked = [c \in Clients |-> 0]

Server == ServerRuns \/ ServerLoads \/ ServerProcesses \/ ServerAnswers \/ ServerResets

Client(c) ==
  \/ ClientWaits(c) \/ ClientSubmits(c) \/ ClientResumes(c)
  \/ ClientClears(c) \/ ClientExchanges(c) \/ ClientSeesAnswer(c)

Next == Server \/ SpuriousWakeup \/ \E c \in Clients : Client(c)

(* A thread that can go on does, and gets the mutex for it.  No fairness for *)
(* the choice of the client that a signal wakes.                             *)
Fairness == WF_vars(Server) /\ \A c \in Clients : WF_vars(Client(c))

Spec == Init /\ [][Next]_vars /\ Fairness

----------------------------------------------------------------------------
(* Types; the request that the server of atomic_client_server works on stays *)
(* the one in shared memory until the server itself resets it.               *)
TypeOK ==
  /\ program \in {"condvar", "atomic"}
  /\ request \in Clients \cup {None} /\ req \in Clients \cup {None}
  /\ value \in [Clients -> 0 .. Modulus - 1] /\ asked \in [Clients -> 0 .. Modulus - 1]
  /\ processed \in [Clients -> BOOLEAN]
  /\ spc \in {"run", "wait", "load", "process", "answer", "reset"}
  /\ cpc \in [Clients -> {"turn", "wait_turn", "wait_answer", "answer",
                          "clear", "exchange", "spin"}]
  /\ req # None => request = req

(* A client goes on to its next request only when each of its requests has   *)
(* been processed exactly once: not after a wakeup meant for another client, *)
(* and not by a request that is still in the pointer when it asks again.     *)
AnsweredBeforeNext ==
  \A c \in Clients :
    cpc[c] \in {"turn", "wait_turn", "clear", "exchange"} => value[c] = asked[c]

(* The server has processed the request once it has incremented the value;   *)
(* atomic_client_server frees the slot two stores later.                     *)
Slot == INSTANCE RequestSlot WITH
  slot <- IF spc \in {"answer", "reset"} THEN None ELSE request

(* Both programs are a slot that is filled and served in turn.  Served       *)
(* exactly once: the client's early return and the server's late reset do    *)
(* not let a request in twice.  And for ever: whichever client a signal      *)
(* wakes, the threads never all wait for one another.                        *)
ImplementsRequestSlot == Slot!Spec
==============================================================================
