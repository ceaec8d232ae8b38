------------------------- MODULE RequestServersProofs -------------------------
(****************************************************************************)
(* The client/server examples answer each request once, for any number of   *)
(* clients.                                                                 *)
(****************************************************************************)
EXTENDS RequestServers, TLAPS

Waiting(c) == cpc[c] \in {"wait_answer", "answer"}

(* The value of a request that is yet to be processed. *)
Behind(c) == asked[c] = (value[c] + 1) % Modulus

(* condvar_client_server: who waits for an answer is behind if the request   *)
(* in currentRequest is its own, and only then.                              *)
CondvarInv ==
  /\ spc \in {"run", "wait"} /\ req = None
  /\ \A c \in Clients :
       /\ cpc[c] \in {"turn", "wait_turn", "wait_answer", "answer"}
       /\ request = c => Waiting(c) /\ Behind(c)
       /\ request # c => value[c] = asked[c]

(* atomic_client_server: a client is behind from its exchange on, until the  *)
(* server has processed it; it may have seen the answer and gone on while    *)
(* the pointer still refers to it.                                           *)
AtomicInv ==
  /\ spc \in {"load", "process", "answer", "reset"}
  /\ spc = "load" <=> req = None
  /\ \A c \in Clients :
       /\ cpc[c] \in {"clear", "exchange", "spin"}
       /\ request = c /\ spc \in {"load", "process"} =>
            cpc[c] = "spin" /\ ~ processed[c] /\ Behind(c)
       /\ request = c /\ spc = "answer" => cpc[c] = "spin" /\ ~ processed[c]
       /\ ~ (request = c /\ spc \in {"load", "process"}) => value[c] = asked[c]
       /\ cpc[c] = "exchange" => ~ processed[c]

IndInv ==
  /\ TypeOK
  /\ program = "condvar" => CondvarInv
  /\ program = "atomic" => AtomicInv

----------------------------------------------------------------------------
(* The threads as main starts them.                                          *)
LEMMA InitInv == Init => IndInv
BY RequestServersAssumption
DEF Init, IndInv, TypeOK, CondvarInv, AtomicInv, Waiting, Behind

(* Labels, pointers and flags stay what they are; the request that the       *)
(* server of atomic_client_server works on is the one in shared memory.      *)
LEMMA TypeStep == IndInv /\ [Next]_vars => TypeOK'
<1> SUFFICES ASSUME IndInv, [Next]_vars PROVE TypeOK'
  OBVIOUS
<1> USE RequestServersAssumption DEF TypeOK, IndInv, Goto
<1>i. \A n \in Nat : (n + 1) % Modulus \in 0 .. Modulus - 1
  OBVIOUS
<1>f. ASSUME NEW f \in [Clients -> 0 .. Modulus - 1], NEW c \in Clients
      PROVE  Incremented(f, c) \in [Clients -> 0 .. Modulus - 1]
  BY <1>i DEF Incremented
<1>1. CASE ServerRuns
  <2>1. req = None \/ program = "atomic"
    BY DEF CondvarInv
  <2>2. program = "condvar"
    BY <1>1 DEF ServerRuns, AtomicInv
  <2>3. cpc' \in [Clients -> {"turn", "wait_turn", "wait_answer", "answer",
                              "clear", "exchange", "spin"}]
    BY <1>1 DEF ServerRuns, OnCondClt, Woken
  <2>4. value' \in [Clients -> 0 .. Modulus - 1]
    BY <1>1, <1>f DEF ServerRuns
  <2> QED
    BY <1>1, <2>1, <2>2, <2>3, <2>4 DEF ServerRuns
<1>2. CASE ServerLoads \/ ServerProcesses \/ ServerAnswers \/ ServerResets
  <2>1. program = "atomic"
    BY <1>2 DEF ServerLoads, ServerProcesses, ServerAnswers, ServerResets, CondvarInv
  <2>2. spc # "load" => req \in Clients
    BY <2>1 DEF AtomicInv
  <2>3. value' \in [Clients -> 0 .. Modulus - 1]
    <3>1. CASE ServerProcesses
      BY <1>f, <2>2, <3>1 DEF ServerProcesses
    <3> QED
      BY <1>2, <3>1 DEF ServerLoads, ServerAnswers, ServerResets
  <2>4. processed' \in [Clients -> BOOLEAN]
    BY <1>2 DEF ServerLoads, ServerProcesses, ServerAnswers, ServerResets
  <2> QED
    BY <1>2, <2>2, <2>3, <2>4
    DEF ServerLoads, ServerProcesses, ServerAnswers, ServerResets
<1>3. CASE SpuriousWakeup
  BY <1>3 DEF SpuriousWakeup, OnCondClt, Woken
<1>4. ASSUME NEW c \in Clients, Client(c) PROVE TypeOK'
  <2>1. CASE ClientWaits(c) \/ ClientResumes(c) \/ ClientClears(c) \/ ClientSeesAnswer(c)
    BY <2>1 DEF ClientWaits, ClientResumes, ClientClears, ClientSeesAnswer
  <2>2. CASE ClientSubmits(c)
    BY <2>2, <1>f DEF ClientSubmits
  <2>3. CASE ClientExchanges(c)
    <3>1. asked' \in [Clients -> 0 .. Modulus - 1]
      BY <2>3, <1>f DEF ClientExchanges
    <3> QED
      BY <2>3, <3>1 DEF ClientExchanges
  <2> QED
    BY <1>4, <2>1, <2>2, <2>3 DEF Client
<1>5. CASE UNCHANGED vars
  BY <1>5 DEF vars
<1> QED
  BY <1>1, <1>2, <1>3, <1>4, <1>5 DEF Next, Server

(* condvar_client_server: a step under the mutex.                            *)
LEMMA CondvarStep ==
  ASSUME IndInv, [Next]_vars, program = "condvar"
  PROVE  program' = "condvar" /\ CondvarInv'
<1> USE RequestServersAssumption DEF TypeOK, IndInv, CondvarInv, Goto, Waiting, Behind
<1>1. CASE ServerRuns
  <2>1. CASE request = None
    BY <1>1, <2>1 DEF ServerRuns
  <2>2. CASE request # None
    <3>1. ASSUME NEW c \in Clients PROVE value'[c] = asked'[c]
      BY <1>1, <2>2 DEF ServerRuns, Incremented
    <3>2. ASSUME NEW c \in Clients
          PROVE  cpc'[c] \in {"turn", "wait_turn", "wait_answer", "answer"}
      BY <1>1, <2>2 DEF ServerRuns, OnCondClt, Woken
    <3> QED
      BY <1>1, <2>2, <3>1, <3>2 DEF ServerRuns
  <2> QED
    BY <2>1, <2>2
<1>2. CASE ServerLoads \/ ServerProcesses \/ ServerAnswers \/ ServerResets
  BY <1>2 DEF ServerLoads, ServerProcesses, ServerAnswers, ServerResets
<1>3. CASE SpuriousWakeup
  BY <1>3 DEF SpuriousWakeup, OnCondClt, Woken
<1>4. ASSUME NEW c \in Clients, Client(c) PROVE program' = "condvar" /\ CondvarInv'
  <2>1. CASE ClientWaits(c)
    BY <2>1 DEF ClientWaits
  <2>2. CASE ClientSubmits(c)
    BY <2>2 DEF ClientSubmits, Incremented
  <2>3. CASE ClientResumes(c)
    BY <2>3 DEF ClientResumes
  <2>4. CASE ClientClears(c) \/ ClientExchanges(c) \/ ClientSeesAnswer(c)
    BY <2>4 DEF ClientClears, ClientExchanges, ClientSeesAnswer
  <2> QED
    BY <1>4, <2>1, <2>2, <2>3, <2>4 DEF Client
<1>5. CASE UNCHANGED vars
  BY <1>5 DEF vars
<1> QED
  BY <1>1, <1>2, <1>3, <1>4, <1>5 DEF Next, Server

(* atomic_client_server: an atomic access, or the increment of the value.    *)
LEMMA AtomicStep ==
  ASSUME IndInv, [Next]_vars, program = "atomic"
  PROVE  program' = "atomic" /\ AtomicInv'
<1> USE RequestServersAssumption DEF TypeOK, IndInv, AtomicInv, Goto, Behind
<1>1. CASE ServerRuns
  BY <1>1 DEF ServerRuns
<1>2. CASE ServerLoads
  BY <1>2 DEF ServerLoads
<1>3. CASE ServerProcesses
  BY <1>3 DEF ServerProcesses, Incremented
<1>4. CASE ServerAnswers
  BY <1>4 DEF ServerAnswers
<1>5. CASE ServerResets
  BY <1>5 DEF ServerResets
<1>6. CASE SpuriousWakeup
  BY <1>6 DEF SpuriousWakeup, OnCondClt
<1>7. ASSUME NEW c \in Clients, Client(c) PROVE program' = "atomic" /\ AtomicInv'
  <2>1. CASE ClientWaits(c) \/ ClientSubmits(c) \/ ClientResumes(c)
    BY <2>1 DEF ClientWaits, ClientSubmits, ClientResumes
  <2>2. CASE ClientClears(c)
    BY <2>2 DEF ClientClears
  <2>3. CASE ClientExchanges(c)
    BY <2>3 DEF ClientExchanges, Incremented
  <2>4. CASE ClientSeesAnswer(c)
    BY <2>4 DEF ClientSeesAnswer
  <2> QED
    BY <1>7, <2>1, <2>2, <2>3, <2>4 DEF Client
<1>8. CASE UNCHANGED vars
  BY <1>8 DEF vars
<1> QED
  BY <1>1, <1>2, <1>3, <1>4, <1>5, <1>6, <1>7, <1>8 DEF Next, Server

(* The invariant is inductive.                                               *)
LEMMA NextInv == IndInv /\ [Next]_vars => IndInv'
<1> SUFFICES ASSUME IndInv, [Next]_vars PROVE IndInv'
  OBVIOUS
<1>1. program \in {"condvar", "atomic"}
  BY DEF IndInv, TypeOK
<1> QED
  BY <1>1, TypeStep, CondvarStep, AtomicStep DEF IndInv

----------------------------------------------------------------------------
(* For any number of clients of either program: the request that the server  *)
(* of atomic_client_server has loaded stays the one in the pointer until it  *)
(* stores nullptr, and every variable keeps its type.                        *)
THEOREM TypesKept == Spec => []TypeOK
<1>1. IndInv => TypeOK
  BY DEF IndInv
<1> QED
  BY InitInv, NextInv, <1>1, PTL DEF Spec

(* For any number of clients of either program: a client goes on to its next *)
(* request only when each one it has submitted was processed exactly once,   *)
(* whichever client a signal wakes, and however late the reset of the        *)
(* pointer comes.                                                            *)
THEOREM RequestsAnswered == Spec => []AnsweredBeforeNext
<1>1. IndInv => AnsweredBeforeNext
  <2> SUFFICES ASSUME IndInv, NEW c \in Clients,
                      cpc[c] \in {"turn", "wait_turn", "clear", "exchange"}
               PROVE  value[c] = asked[c]
    BY DEF AnsweredBeforeNext
  <2>1. program \in {"condvar", "atomic"}
    BY DEF IndInv, TypeOK
  <2>2. CASE program = "condvar"
    BY <2>2 DEF IndInv, CondvarInv, Waiting
  <2>3. CASE program = "atomic"
    BY <2>3 DEF IndInv, AtomicInv
  <2> QED
    BY <2>1, <2>2, <2>3
<1> QED
  BY InitInv, NextInv, <1>1, PTL DEF Spec

----------------------------------------------------------------------------
(* The safety half of ImplementsRequestSlot. *)
SlotSafety ==
  Slot!Init /\ [][Slot!Next]_<<IF spc \in {"answer", "reset"} THEN None ELSE request, value>>

(* Of either program, for any number of clients: a step that fills the slot  *)
(* finds it free, and the value of a request changes only by the step that   *)
(* takes that request out of the slot; all else leaves both alone.           *)
THEOREM ServedOnce == Spec => SlotSafety
<1> DEFINE slot == IF spc \in {"answer", "reset"} THEN None ELSE request
<1>1. Init => Slot!Init
  BY DEF Init, Slot!Init
<1>2. IndInv /\ [Next]_vars => [Slot!Next]_<<slot, value>>
  <2> SUFFICES ASSUME IndInv, [Next]_vars
               PROVE  Slot!Next \/ UNCHANGED <<slot, value>>
    OBVIOUS
  <2> USE RequestServersAssumption DEF IndInv, TypeOK
  <2>1. CASE ServerRuns
    <3>1. spc \notin {"answer", "reset"} /\ spc' \notin {"answer", "reset"}
      BY <2>1 DEF ServerRuns
    <3> QED
      BY <2>1, <3>1 DEF ServerRuns, Incremented, Slot!Next, Slot!Serve
  <2>2. CASE ServerLoads \/ ServerAnswers \/ ServerResets
    BY <2>2 DEF ServerLoads, ServerAnswers, ServerResets
  <2>3. CASE ServerProcesses
    <3>1. program = "atomic"
      BY <2>3 DEF ServerProcesses, CondvarInv
    <3>2. req = request /\ request # None
      BY <2>3, <3>1 DEF ServerProcesses, AtomicInv
    <3> QED
      BY <2>3, <3>2 DEF ServerProcesses, Incremented, Slot!Next, Slot!Serve
  <2>4. CASE SpuriousWakeup
    BY <2>4 DEF SpuriousWakeup
  <2>5. ASSUME NEW c \in Clients, Client(c)
        PROVE  Slot!Next \/ UNCHANGED <<slot, value>>
    <3>1. CASE ClientSubmits(c)
      <4>1. spc \notin {"answer", "reset"}
        BY <3>1 DEF ClientSubmits, AtomicInv, CondvarInv
      <4> QED
        BY <3>1, <4>1 DEF ClientSubmits, Slot!Next, Slot!Submit
    <3>2. CASE ClientExchanges(c)
      <4>1. request = None => spc \notin {"answer", "reset"}
        BY <3>2 DEF ClientExchanges, AtomicInv, CondvarInv
      <4> QED
        BY <3>2, <4>1 DEF ClientExchanges, Slot!Next, Slot!Submit
    <3>3. CASE ClientWaits(c) \/ ClientResumes(c) \/ ClientClears(c) \/ ClientSeesAnswer(c)
      BY <3>3 DEF ClientWaits, ClientResumes, ClientClears, ClientSeesAnswer
    <3> QED
      BY <2>5, <3>1, <3>2, <3>3 DEF Client
  <2>6. CASE UNCHANGED vars
    BY <2>6 DEF vars
  <2> QED
    BY <2>1, <2>2, <2>3, <2>4, <2>5, <2>6 DEF Next, Server
<1> QED
  BY InitInv, NextInv, <1>1, <1>2, PTL DEF Spec, SlotSafety

----------------------------------------------------------------------------
(* Nobody waits for a wake-up that has been missed.  condvar_client_server:  *)
(* while there is a request, the server is not waiting on cond_srv; while    *)
(* there is none, some client is not waiting on cond_clt.                    *)
WakeUpDelivered ==
  /\ request # None => spc = "run"
  /\ request = None => \E c \in Clients : cpc[c] \in {"turn", "answer"}

(* atomic_client_server: a client that spins has its answer, or its request  *)
(* is in the pointer and the server has not come to the reset of it.         *)
SpinsForOwn ==
  \A c \in Clients :
    cpc[c] = "spin" => processed[c] = TRUE \/ (request = c /\ spc # "reset")

(* In neither program is a thread left waiting for what the others have      *)
(* already done.                                                             *)
NobodyStranded ==
  /\ program = "condvar" => WakeUpDelivered
  /\ program = "atomic" => SpinsForOwn

(* All threads are running.                                                  *)
LEMMA InitStranded == Clients # {} /\ Init => NobodyStranded
BY DEF Init, NobodyStranded, WakeUpDelivered, SpinsForOwn

(* A process runs one program.                                               *)
LEMMA NextProgram == [Next]_vars => program' = program
BY DEF Next, Server, Client, ServerRuns, ServerLoads, ServerProcesses,
  ServerAnswers, ServerResets, SpuriousWakeup, ClientWaits, ClientSubmits,
  ClientResumes, ClientClears, ClientExchanges, ClientSeesAnswer, vars

(* The server serves with a signal, and that reaches a client if any waits;  *)
(* clients only go to wait while there is a request.                         *)
LEMMA CondvarStranded ==
  ASSUME IndInv, WakeUpDelivered, [Next]_vars, program = "condvar", Clients # {}
  PROVE  WakeUpDelivered'
<1>t. /\ cpc \in [Clients -> {"turn", "wait_turn", "wait_answer", "answer",
                             "clear", "exchange", "spin"}]
      /\ \A c \in Clients : cpc[c] \in {"turn", "wait_turn", "wait_answer", "answer"}
      /\ spc \in {"run", "wait"} /\ None \notin Clients
  BY RequestServersAssumption DEF IndInv, TypeOK, CondvarInv
<1> USE DEF Goto
<1>1. CASE ServerRuns
  <2>1. CASE request = None
    BY <1>1, <2>1 DEF ServerRuns, WakeUpDelivered
  <2>2. CASE request # None /\ OnCondClt = {}
    <3>1. \A c \in Clients : cpc'[c] \in {"turn", "answer"}
      BY <1>1, <1>t, <2>2 DEF ServerRuns, OnCondClt
    <3> QED
      BY <1>1, <2>2, <3>1 DEF ServerRuns, WakeUpDelivered
  <2>3. CASE request # None /\ OnCondClt # {}
    <3>1. PICK c \in Clients : cpc' = Woken(c)
      BY <1>1, <2>3 DEF ServerRuns, OnCondClt
    <3>2. cpc'[c] \in {"turn", "answer"}
      BY <1>t, <3>1 DEF Woken
    <3> QED
      BY <1>1, <2>3, <3>2 DEF ServerRuns, WakeUpDelivered
  <2> QED
    BY <2>1, <2>2, <2>3
<1>2. CASE ServerLoads \/ ServerProcesses \/ ServerAnswers \/ ServerResets
  BY <1>2, <1>t DEF ServerLoads, ServerProcesses, ServerAnswers, ServerResets
<1>3. CASE SpuriousWakeup
  <2>1. \A c \in Clients : cpc[c] \in {"turn", "answer"} => cpc'[c] \in {"turn", "answer"}
    BY <1>3, <1>t DEF SpuriousWakeup, Woken, OnCondClt
  <2>2. request' = request /\ (spc' = spc \/ spc' = "run")
    BY <1>3 DEF SpuriousWakeup
  <2> QED
    BY <2>1, <2>2 DEF WakeUpDelivered
<1>4. ASSUME NEW c \in Clients, Client(c) PROVE WakeUpDelivered'
  <2>1. CASE ClientWaits(c)
    BY <2>1 DEF ClientWaits, WakeUpDelivered
  <2>2. CASE ClientSubmits(c)
    BY <1>t, <2>2 DEF ClientSubmits, WakeUpDelivered
  <2>3. CASE ClientResumes(c)
    BY <1>t, <2>3 DEF ClientResumes, WakeUpDelivered
  <2>4. CASE ClientClears(c) \/ ClientExchanges(c) \/ ClientSeesAnswer(c)
    BY <1>t, <2>4 DEF ClientClears, ClientExchanges, ClientSeesAnswer
  <2> QED
    BY <1>4, <2>1, <2>2, <2>3, <2>4 DEF Client
<1>5. CASE UNCHANGED vars
  BY <1>5 DEF vars, WakeUpDelivered
<1> QED
  BY <1>1, <1>2, <1>3, <1>4, <1>5, Zenon DEF Next, Server

(* The server answers before it resets the pointer, and nobody else resets   *)
(* or overwrites it.                                                         *)
LEMMA AtomicStranded ==
  ASSUME IndInv, SpinsForOwn, [Next]_vars, program = "atomic"
  PROVE  SpinsForOwn'
<1>t. /\ cpc \in [Clients -> {"turn", "wait_turn", "wait_answer", "answer",
                             "clear", "exchange", "spin"}]
      /\ processed \in [Clients -> BOOLEAN]
      /\ spc \in {"load", "process", "answer", "reset"} /\ None \notin Clients
      /\ req # None => request = req
      /\ spc = "load" <=> req = None
  BY RequestServersAssumption DEF IndInv, TypeOK, AtomicInv
<1> USE DEF Goto, SpinsForOwn
<1>1. CASE ServerRuns \/ SpuriousWakeup
  BY <1>1, <1>t DEF ServerRuns, SpuriousWakeup, OnCondClt, IndInv, AtomicInv
<1>2. CASE ServerLoads \/ ServerProcesses
  BY <1>2 DEF ServerLoads, ServerProcesses
<1>3. CASE ServerAnswers
  BY <1>3, <1>t DEF ServerAnswers
<1>4. CASE ServerResets
  BY <1>4 DEF ServerResets
<1>5. ASSUME NEW c \in Clients, Client(c) PROVE SpinsForOwn'
  <2>1. CASE ClientWaits(c) \/ ClientSubmits(c) \/ ClientResumes(c)
    BY <2>1 DEF ClientWaits, ClientSubmits, ClientResumes, IndInv, AtomicInv
  <2>2. CASE ClientClears(c) \/ ClientSeesAnswer(c)
    BY <1>t, <2>2 DEF ClientClears, ClientSeesAnswer
  <2>3. CASE ClientExchanges(c)
    BY <1>t, <2>3 DEF ClientExchanges
  <2> QED
    BY <1>5, <2>1, <2>2, <2>3, Zenon DEF Client
<1>6. CASE UNCHANGED vars
  BY <1>6 DEF vars
<1> QED
  BY <1>1, <1>2, <1>3, <1>4, <1>5, <1>6, Zenon DEF Next, Server

(* For any number of clients, at least one as NUM_CLIENTS is: no wake-up is  *)
(* lost by the single notify_one of condvar_client_server, whichever client  *)
(* it reaches, and no client of atomic_client_server spins on a flag that    *)
(* the server has passed by.  In particular the threads never all wait.      *)
THEOREM NoLostWakeup == Clients # {} => (Spec => []NobodyStranded)
<1> SUFFICES ASSUME Clients # {} PROVE Spec => []NobodyStranded
  OBVIOUS
<1>1. Init => IndInv /\ NobodyStranded
  BY InitInv, InitStranded
<1>2. IndInv /\ NobodyStranded /\ [Next]_vars => IndInv' /\ NobodyStranded'
  <2> SUFFICES ASSUME IndInv, NobodyStranded, [Next]_vars PROVE IndInv' /\ NobodyStranded'
    OBVIOUS
  <2>1. IndInv' /\ program' = program
    BY NextInv, NextProgram
  <2> QED
    BY <2>1, CondvarStranded, AtomicStranded DEF NobodyStranded
<1> QED
  BY <1>1, <1>2, PTL DEF Spec
=============================================================================
