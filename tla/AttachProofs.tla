----------------------------- MODULE AttachProofs -----------------------------
(****************************************************************************)
(* Attaching in turn, the agreement of publisher and subscribers on the     *)
(* ring, and the soundness of the publisher's ring, for any number of       *)
(* subscribers, any sizes and any number of faults.                         *)
(****************************************************************************)
EXTENDS Attach, TLAPS

(* A configured size has room for the header. *)
LEMMA SizesFit == 0 \notin Sizes /\ \A n \in Sizes : n >= BUFFER_OFFSET
BY AttachAssumption DEF BUFFER_OFFSET

(* There is an object that nobody uses: the kernel can create one. *)
FreshFree ==
  /\ Fresh \in Objects /\ Fresh # None /\ Fresh # link
  /\ \A p \in Procs : fd[p] # Fresh

----------------------------------------------------------------------------
(* The empty name, no processes.                                             *)
LEMMA InitTypes == Init => TypeOK
<1> SUFFICES ASSUME Init PROVE TypeOK
  OBVIOUS
<1>1. Zeroed \in [size : Sizes \union {0}, magic : BOOLEAN, stored : Sizes \union {0}]
  BY DEF Zeroed
<1>2. faults \in 0 .. MaxFaults
  BY AttachAssumption DEF Init
<1> QED
  BY <1>1, <1>2, Zenon DEF Init, TypeOK

Headers == [size : Sizes \union {0}, magic : BOOLEAN, stored : Sizes \union {0}]

(* o comes of a store of the constructor to the header h. *)
Stored(h, n, o) ==
  /\ o \in Headers
  /\ o.size = h.size /\ (o.stored = h.stored \/ o.stored = n)
  /\ HeaderStores(o, n) = {} => o.magic = TRUE /\ o.stored = n

(* A store leaves the size alone, and the header is right when none is left. *)
LEMMA StoreFacts ==
  \A h \in Headers, n \in Sizes \union {0} : \A o \in HeaderStores(h, n) : Stored(h, n, o)
<1> SUFFICES ASSUME NEW h \in Headers, NEW n \in Sizes \union {0}, NEW o \in HeaderStores(h, n)
             PROVE  Stored(h, n, o)
  BY Zenon
<1>1. o = [h EXCEPT !.magic = TRUE] \/ o = [h EXCEPT !.stored = n]
  BY Zenon DEF HeaderStores
<1>2. o \in Headers /\ o.size = h.size /\ (o.stored = h.stored \/ o.stored = n)
  <2>1. CASE o = [h EXCEPT !.magic = TRUE]
    BY <2>1, Zenon DEF Headers
  <2>2. CASE o = [h EXCEPT !.stored = n]
    BY <2>2 DEF Headers
  <2> QED
    BY <1>1, <2>1, <2>2, Zenon
<1>3. ASSUME HeaderStores(o, n) = {}
      PROVE  o = [o EXCEPT !.magic = TRUE] /\ o = [o EXCEPT !.stored = n]
  BY <1>3, Zenon DEF HeaderStores
<1>4. [o EXCEPT !.magic = TRUE].magic = TRUE /\ [o EXCEPT !.stored = n].stored = n
  BY <1>2 DEF Headers
<1>5. ASSUME HeaderStores(o, n) = {} PROVE o.magic = TRUE /\ o.stored = n
  BY <1>3, <1>4, <1>5, Zenon
<1> QED
  BY <1>2, <1>5, Zenon DEF Stored

(* Each system call keeps the types, and a process that goes on from a       *)
(* shm_open has a descriptor.                                                *)
LEMMA StepTypes == TypeOK /\ FreshFree /\ [Next]_vars => TypeOK'
<1> SUFFICES ASSUME TypeOK, FreshFree, [Next]_vars PROVE TypeOK'
  OBVIOUS
<1>f. Fresh \in Objects /\ Fresh # None
  BY DEF FreshFree
<1>s. 0 \notin Sizes
  BY SizesFit
<1>z. Zeroed \in [size : Sizes \union {0}, magic : BOOLEAN, stored : Sizes \union {0}]
  BY DEF Zeroed
<1> USE DEF TypeOK, Goto, Leave, Absent
<1>1. ASSUME NEW p \in Procs, NEW n \in Sizes, Call(p, n) PROVE TypeOK'
  BY <1>1 DEF Call
<1>2. ASSUME NEW p \in Procs, ProbeFails(p) \/ Crash(p) \/ Detach(p) PROVE TypeOK'
  <2>1. link' = link
    BY <1>2 DEF ProbeFails, Crash, Detach, created_
  <2>2. faults' \in 0 .. MaxFaults
    BY <1>2, AttachAssumption DEF ProbeFails, Crash, Detach
  <2> QED
    BY <1>2, <2>1, <2>2, SMTT(30) DEF ProbeFails, Crash, Detach
<1>3. ASSUME NEW p \in Procs, CreateObject(p) PROVE
        /\ link' \in Objects \union {None}
        /\ object' \in [Objects -> [size : Sizes \union {0}, magic : BOOLEAN,
                                    stored : Sizes \union {0}]]
        /\ fd' \in [Procs -> Objects \union {None}] /\ fd'[p] # None
        /\ \A q \in Procs \ {p} : fd'[q] = fd[q]
  BY <1>3, <1>f, <1>z DEF CreateObject, CreateName
<1>4. ASSUME NEW p \in Procs, TruncateObject(p) PROVE
        /\ link' \in Objects \union {None}
        /\ object' \in [Objects -> [size : Sizes \union {0}, magic : BOOLEAN,
                                    stored : Sizes \union {0}]]
        /\ fd' \in [Procs -> Objects \union {None}] /\ fd'[p] # None
        /\ \A q \in Procs \ {p} : fd'[q] = fd[q]
        /\ recreated' \in BOOLEAN
  BY <1>4, <1>z DEF TruncateObject
<1>5. ASSUME NEW p \in Procs, Create(p) PROVE TypeOK'
  BY <1>3, <1>5, Zenon DEF Create
<1>15. ASSUME NEW p \in Procs, ProbeCreates(p) \/ ProbeGetsZero(p) PROVE TypeOK'
  <2>1. /\ link' \in Objects \union {None}
        /\ object' \in [Objects -> [size : Sizes \union {0}, magic : BOOLEAN,
                                    stored : Sizes \union {0}]]
    BY <1>15, <1>f, <1>z DEF ProbeCreates, ProbeGetsZero, CreateName
  <2>2. faults' \in 0 .. MaxFaults
    BY <1>15, AttachAssumption DEF ProbeCreates, ProbeGetsZero
  <2> QED
    BY <1>15, <2>1, <2>2, SMTT(30) DEF ProbeCreates, ProbeGetsZero
<1>6. ASSUME NEW p \in Procs, Reopen(p) PROVE TypeOK'
  <2>1. CASE TruncateObject(p)
    BY <1>4, <1>6, <2>1 DEF Reopen
  <2>2. CASE CreateObject(p) /\ UNCHANGED recreated
    BY <1>3, <1>6, <2>2 DEF Reopen
  <2> QED
    BY <1>6, <2>1, <2>2 DEF Reopen
<1>7. ASSUME NEW p \in Procs, ProbeFinds(p) \/ ProbeUnlinks(p) PROVE TypeOK'
  BY <1>7 DEF ProbeFinds, ProbeUnlinks
<1>8. ASSUME NEW p \in Procs, OpenFinds(p) \/ OpenFails(p) \/ CreateFindsName(p)
      PROVE TypeOK'
  BY <1>8 DEF OpenFinds, OpenFails, CreateFindsName
<1>9. ASSUME NEW p \in Procs, Stat(p) \/ StatFails(p) PROVE TypeOK'
  <2>1. pc[p] = "stat" /\ fd[p] \in Objects
    BY <1>9 DEF Stat, StatFails
  <2>2. object[fd[p]].size \in Sizes \union {0}
    BY <2>1
  <2> QED
    BY <1>9, <2>1, <2>2 DEF Stat, StatFails
<1>10. ASSUME NEW p \in Procs, Truncate(p) PROVE TypeOK'
  <2>1. pc[p] = "truncate" /\ fd[p] \in Objects
    BY <1>10 DEF Truncate
  <2>2. object' \in [Objects -> [size : Sizes \union {0}, magic : BOOLEAN,
                                 stored : Sizes \union {0}]]
    BY <1>10, <2>1, SMTT(30) DEF Truncate
  <2> QED
    BY <1>10, <2>1, <2>2 DEF Truncate
<1>11. ASSUME NEW p \in Procs, Construct(p) PROVE TypeOK'
  <2>1. pc[p] = "construct" /\ fd[p] \in Objects
    BY <1>11 DEF Construct
  <2>2. PICK o \in HeaderStores(object[fd[p]], len[p]) :
          /\ object' = [object EXCEPT ![fd[p]] = o]
          /\ \/ ring' = [ring EXCEPT ![p] = len[p]] /\ Goto(p, "attached")
             \/ UNCHANGED <<ring, pc>>
    BY <1>11, Zenon DEF Construct
  <2>3. o \in Headers
    <3>1. object[fd[p]] \in Headers /\ len[p] \in Sizes \union {0}
      BY <2>1 DEF Headers
    <3> HIDE DEF TypeOK
    <3>2. Stored(object[fd[p]], len[p], o)
      BY <3>1, StoreFacts, Zenon
    <3> QED
      BY <3>2, Zenon DEF Stored
  <2>4. object' \in [Objects -> Headers]
    BY <2>1, <2>2, <2>3 DEF Headers
  <2> QED
    BY <1>11, <2>1, <2>2, <2>4, SMTT(30) DEF Construct, Headers
<1>12. ASSUME NEW p \in Procs, Map(p) \/ MapFails(p) PROVE TypeOK'
  BY <1>12 DEF Map, MapFails
<1>13. ASSUME NEW p \in Procs, ReadRing(p) \/ (p = Pub /\ Adopt) PROVE TypeOK'
  <2>1. pc[p] \in {"queue", "header"} /\ fd[p] \in Objects
    BY <1>13 DEF ReadRing, Adopt
  <2>2. object[fd[p]].stored \in Sizes \union {0}
    BY <2>1
  <2>3. Pub \in Procs
    BY DEF Procs
  <2> QED
    BY <1>13, <2>1, <2>2, <2>3 DEF ReadRing, Adopt
<1>14. CASE UNCHANGED vars
  BY <1>14 DEF vars
<1> HIDE DEF TypeOK, Goto, Leave, Absent
<1> QED
  BY <1>1, <1>2, <1>5, <1>6, <1>7, <1>8, <1>9, <1>10, <1>11, <1>12, <1>13, <1>14, <1>15, Zenon
  DEF Next, Step

----------------------------------------------------------------------------
OnLink == {"stat", "truncate", "construct", "header", "queue", "attached"}

(* With calls in turn, one process is in from_config; it and the attached    *)
(* ones have the object open that the name refers to, and none is attached   *)
(* while exists() is about to unlink the name it has created.                *)
TurnInv ==
  ~ overlapped =>
    /\ \A p, q \in Procs : pc[p] \notin Outside /\ pc[q] \notin Outside => p = q
    /\ \A p \in Procs : pc[p] \in OnLink => fd[p] = link
    /\ \A p, q \in Procs : pc[p] = "unlink" => pc[q] # "attached"

(* No process is in from_config yet.                                         *)
LEMMA InitTurn == Init => TurnInv
BY SMTT(30) DEF Init, TurnInv, Outside, OnLink

(* The process in from_config may go on, attach or leave, as long as it has  *)
(* the right object open and leaves the name alone.                          *)
LEMMA TurnFrame ==
  ASSUME TypeOK, TurnInv, ~ overlapped, NEW p \in Procs, pc[p] \notin Outside,
         NEW l, l # "unlink", NEW o, l \in OnLink => o = link,
         pc' = [pc EXCEPT ![p] = l], fd' = [fd EXCEPT ![p] = o], link' = link
  PROVE  TurnInv'
<1>1. /\ \A q \in Procs \ {p} : pc'[q] = pc[q] /\ fd'[q] = fd[q]
      /\ pc'[p] = l /\ fd'[p] = o
  BY DEF TypeOK
<1>2. \A q \in Procs \ {p} : pc[q] \in Outside /\ pc[q] # "unlink"
  BY DEF TurnInv, Outside
<1>3. \A q \in Procs : pc'[q] \in OnLink => fd'[q] = link'
  BY <1>1 DEF TurnInv
<1>4. \A q \in Procs : pc'[q] # "unlink"
  BY <1>1, <1>2
<1>5. \A q, t \in Procs : pc'[q] \notin Outside /\ pc'[t] \notin Outside => q = t
  BY <1>1, <1>2, SMTT(30)
<1> QED
  BY <1>3, <1>4, <1>5 DEF TurnInv

(* One process at a time moves the name; it finds nobody attached where it   *)
(* creates or unlinks it.                                                    *)
LEMMA StepTurn == TypeOK /\ TurnInv /\ [Next]_vars => TurnInv'
<1> SUFFICES ASSUME TypeOK, TurnInv, [Next]_vars, ~ overlapped' PROVE TurnInv'
  BY DEF TurnInv
<1>p. Pub \in Procs
  BY DEF Procs
<1>0. ~ overlapped
  <2>1. ASSUME NEW p \in Procs, NEW n \in Sizes, Call(p, n) PROVE ~ overlapped
    BY <2>1 DEF Call, TypeOK
  <2>2. ASSUME NEW p \in Procs,
               Step(p) \/ Detach(p) \/ ProbeFails(p) \/ ProbeGetsZero(p) \/ Crash(p)
        PROVE  overlapped' = overlapped
    BY <2>2 DEF Step, ProbeCreates, ProbeFinds, ProbeUnlinks, OpenFinds, OpenFails, Stat,
                StatFails, Create, CreateFindsName, Reopen, Truncate, Construct, Adopt,
                Map, MapFails, ReadRing, Detach, ProbeFails, ProbeGetsZero, Crash
  <2> QED
    BY <2>1, <2>2 DEF Next, vars
<1> USE DEF TypeOK, TurnInv, Outside, OnLink, Goto, Leave, Absent
<1>1. ASSUME NEW p \in Procs, NEW n \in Sizes, Call(p, n) PROVE TurnInv'
  BY <1>0, <1>1, Zenon DEF Call
<1>2. ASSUME NEW p \in Procs, ProbeFails(p) \/ Crash(p) \/ Detach(p) PROVE TurnInv'
  <2>1. link' = link
    BY <1>2 DEF ProbeFails, Crash, Detach, created_
  <2> QED
    BY <1>0, <1>2, <2>1, SMTT(30) DEF ProbeFails, Crash, Detach
<1>3. ASSUME NEW p \in Procs, ProbeCreates(p) \/ ProbeGetsZero(p) \/ Create(p) PROVE TurnInv'
  <2>1. \A q \in Procs : pc[q] # "attached"
    BY <1>0, <1>3 DEF ProbeCreates, ProbeGetsZero, Create, CreateObject, CreateName
  <2>2. CASE ProbeCreates(p)
    BY <1>0, <2>1, <2>2 DEF ProbeCreates
  <2>3. CASE ProbeGetsZero(p)
    BY <1>0, <2>1, <2>3 DEF ProbeGetsZero
  <2>4. CASE Create(p)
    BY <1>0, <2>1, <2>4 DEF Create, CreateObject, CreateName
  <2> QED
    BY <1>3, <2>2, <2>3, <2>4
<1>4. ASSUME NEW p \in Procs, Reopen(p) PROVE TurnInv'
  <2>1. CASE TruncateObject(p)
    BY <1>0, <1>4, <2>1 DEF Reopen, TruncateObject
  <2>2. CASE CreateObject(p)
    <3>1. \A q \in Procs : pc[q] # "attached"
      BY <1>0, <2>2 DEF CreateObject, CreateName
    <3> QED
      BY <1>0, <1>4, <2>2, <3>1 DEF Reopen, CreateObject, CreateName
  <2> QED
    BY <1>4, <2>1, <2>2 DEF Reopen
<1>5. ASSUME NEW p \in Procs, ProbeFinds(p) \/ ProbeUnlinks(p) PROVE TurnInv'
  BY <1>0, <1>5 DEF ProbeFinds, ProbeUnlinks
<1>6. ASSUME NEW p \in Procs, OpenFinds(p) \/ OpenFails(p) \/ CreateFindsName(p)
      PROVE TurnInv'
  BY <1>0, <1>6, SMTT(30) DEF OpenFinds, OpenFails, CreateFindsName
<1>7. ASSUME NEW p \in Procs, Stat(p) \/ StatFails(p) PROVE TurnInv'
  <2>1. /\ pc[p] = "stat" /\ fd[p] = link /\ link' = link
        /\ \/ fd' = [fd EXCEPT ![p] = None] /\ pc' = [pc EXCEPT ![p] = "idle"]
           \/ /\ fd' = [fd EXCEPT ![p] = link]
              /\ \/ pc' = [pc EXCEPT ![p] = "header"]
                 \/ pc' = [pc EXCEPT ![p] = "create"]
    BY <1>0, <1>7, SMTT(30) DEF Stat, StatFails
  <2> QED
    BY <1>0, <2>1, TurnFrame, SMTT(30)
<1>8. ASSUME NEW p \in Procs, Truncate(p) PROVE TurnInv'
  BY <1>0, <1>8 DEF Truncate
<1>9. ASSUME NEW p \in Procs, Construct(p) PROVE TurnInv'
  <2>1. pc[p] = "construct" /\ (pc' = pc \/ pc' = [pc EXCEPT ![p] = "attached"])
    BY <1>9 DEF Construct
  <2>2. UNCHANGED <<link, fd>>
    BY <1>9 DEF Construct
  <2> QED
    BY <1>0, <2>1, <2>2
<1>10. ASSUME NEW p \in Procs, Map(p) \/ MapFails(p) \/ ReadRing(p) \/ (p = Pub /\ Adopt)
       PROVE TurnInv'
  BY <1>0, <1>10 DEF Map, MapFails, ReadRing, Adopt
<1>11. CASE UNCHANGED vars
  BY <1>0, <1>11 DEF vars
<1> HIDE DEF TypeOK, TurnInv, Outside, OnLink, Goto, Leave, Absent
<1> QED
  BY <1>1, <1>2, <1>3, <1>4, <1>5, <1>6, <1>7, <1>8, <1>9, <1>10, <1>11, Zenon DEF Next, Step

----------------------------------------------------------------------------
Mapped == {"construct", "header", "queue", "attached"}
Creating == {"create", "reopen", "truncate", "construct"}

(* Only the publisher creates. *)
RoleInv ==
  \A p \in Procs :
    /\ pc[p] \in Creating => p = Pub
    /\ pc[p] = "queue" => p # Pub
    /\ pc[p] # "idle" => cfg[p] \in Sizes

(* Unless an object was truncated under another process: a mapping has the   *)
(* size of its object; an object that is being created is empty, then its    *)
(* storage_size_ is 0 or final; and what an SPSCQueue has read is what       *)
(* storage_size_ still is, the size of the object if a subscriber read it.   *)
RingInv ==
  ~ recreated => \A p \in Procs : LET o == object[fd[p]] IN
    /\ pc[p] \in Mapped => len[p] # 0 /\ o.size = len[p]
    /\ pc[p] = "truncate" => o.size = 0 /\ o.stored = 0
    /\ pc[p] = "construct" => o.stored \in {0, len[p]}
    /\ pc[p] = "queue" \/ (pc[p] = "attached" /\ p # Pub) => o.stored = len[p]
    /\ pc[p] = "attached" => ring[p] = o.stored

(* No process is in from_config yet.                                         *)
LEMMA InitRing == Init => RoleInv /\ RingInv
BY SMTT(30) DEF Init, RoleInv, RingInv, Mapped, Creating

(* A subscriber is never sent to open_or_create.                             *)
LEMMA StepRole == TypeOK /\ RoleInv /\ [Next]_vars => RoleInv'
<1> SUFFICES ASSUME TypeOK, RoleInv, [Next]_vars PROVE RoleInv'
  OBVIOUS
<1> USE DEF TypeOK, RoleInv, Creating, Goto, Leave, Absent
<1>p. Pub \in Procs /\ \A p \in Procs : p = Pub <=> p \notin Subs
  BY AttachAssumption DEF Procs
<1>1. ASSUME NEW p \in Procs, NEW n \in Sizes, Call(p, n) PROVE RoleInv'
  BY <1>1 DEF Call
<1>2. ASSUME NEW p \in Procs, ProbeFails(p) \/ ProbeGetsZero(p) \/ Crash(p) \/ Detach(p)
      PROVE RoleInv'
  BY <1>2 DEF ProbeFails, ProbeGetsZero, Crash, Detach
<1>3. ASSUME NEW p \in Procs,
             \/ ProbeCreates(p) \/ ProbeFinds(p) \/ ProbeUnlinks(p)
             \/ OpenFinds(p) \/ OpenFails(p) \/ Create(p) \/ CreateFindsName(p)
             \/ Reopen(p) \/ Truncate(p)
      PROVE RoleInv'
  BY <1>3 DEF ProbeCreates, ProbeFinds, ProbeUnlinks, OpenFinds, OpenFails, Create,
              CreateFindsName, Reopen, Truncate
<1>4. ASSUME NEW p \in Procs, Stat(p) \/ StatFails(p) PROVE RoleInv'
  BY <1>4 DEF Stat, StatFails
<1>5. ASSUME NEW p \in Procs, Construct(p) PROVE RoleInv'
  <2>1. UNCHANGED cfg /\ pc[p] = "construct" /\ (pc' = pc \/ pc' = [pc EXCEPT ![p] = "attached"])
    BY <1>5 DEF Construct
  <2> QED
    BY <2>1
<1>6. ASSUME NEW p \in Procs, Map(p) \/ MapFails(p) \/ ReadRing(p) \/ (p = Pub /\ Adopt)
      PROVE RoleInv'
  BY <1>6, <1>p DEF Map, MapFails, ReadRing, Adopt
<1>7. CASE UNCHANGED vars
  BY <1>7, SMTT(30) DEF vars
<1> HIDE DEF TypeOK, RoleInv, Creating, Goto, Leave, Absent
<1> QED
  BY <1>1, <1>2, <1>3, <1>4, <1>5, <1>6, <1>7, Zenon DEF Next, Step

(* An object is emptied only when nobody else has it open, and given its     *)
(* size and its header only when nobody else has mapped it, or to the same   *)
(* effect.                                                                   *)
LEMMA StepRing == TypeOK /\ FreshFree /\ RoleInv /\ RingInv /\ [Next]_vars => RingInv'
<1> SUFFICES ASSUME TypeOK, FreshFree, RoleInv, RingInv, [Next]_vars, ~ recreated' PROVE RingInv'
  BY DEF RingInv
<1>s. 0 \notin Sizes
  BY SizesFit
<1>p. Pub \in Procs /\ \A p \in Procs : p = Pub <=> p \notin Subs
  BY AttachAssumption DEF Procs
<1>0. ~ recreated
  <2>1. ASSUME NEW p \in Procs, Reopen(p) PROVE ~ recreated
    BY <2>1 DEF Reopen, TruncateObject, TypeOK
  <2>2. ASSUME NEW p \in Procs, NEW n \in Sizes, Call(p, n) PROVE ~ recreated
    BY <2>2 DEF Call
  <2>3. ASSUME NEW p \in Procs,
               \/ Step(p) /\ ~ Reopen(p)
               \/ Detach(p) \/ ProbeFails(p) \/ ProbeGetsZero(p) \/ Crash(p)
        PROVE  recreated' = recreated
    BY <2>3 DEF Step, ProbeCreates, ProbeFinds, ProbeUnlinks, OpenFinds, OpenFails, Stat,
                StatFails, Create, CreateFindsName, Truncate, Construct, Adopt,
                Map, MapFails, ReadRing, Detach, ProbeFails, ProbeGetsZero, Crash
  <2> QED
    BY <2>1, <2>2, <2>3 DEF Next, vars
<1> USE DEF TypeOK, RingInv, Mapped, Goto, Leave, Absent
<1>1. ASSUME NEW p \in Procs, NEW n \in Sizes, Call(p, n) PROVE RingInv'
  BY <1>0, <1>1 DEF Call
<1>2. ASSUME NEW p \in Procs, ProbeFails(p) \/ Crash(p) \/ Detach(p) PROVE RingInv'
  BY <1>0, <1>2, SMTT(30) DEF ProbeFails, Crash, Detach
<1>3. ASSUME NEW p \in Procs, CreateObject(p), pc' = [pc EXCEPT ![p] = "truncate"],
             UNCHANGED <<len, ring>>
      PROVE  RingInv'
  <2>1. Fresh \in Objects /\ \A q \in Procs : fd[q] # Fresh
    BY DEF FreshFree
  <2>2. object'[fd'[p]] = Zeroed
    BY <1>3, <2>1 DEF CreateObject, CreateName
  <2>3. \A q \in Procs \ {p} : fd'[q] = fd[q] /\ object'[fd'[q]] = object[fd[q]]
    BY <1>3, <2>1, SMTT(30) DEF CreateObject, CreateName
  <2> QED
    BY <1>0, <1>3, <2>2, <2>3 DEF Zeroed
<1>4. ASSUME NEW p \in Procs, Reopen(p) PROVE RingInv'
  <2>1. CASE TruncateObject(p)
    <3>1. \A q \in Procs \ {p} : fd'[q] = fd[q] /\ fd[q] # link
      BY <2>1, ZenonT(30) DEF TruncateObject
    <3>2. object'[fd'[p]] = Zeroed
      BY <2>1 DEF TruncateObject
    <3>3. \A q \in Procs \ {p} : object'[fd'[q]] = object[fd[q]]
      BY <2>1, <3>1 DEF TruncateObject
    <3> QED
      BY <1>0, <1>4, <3>1, <3>2, <3>3 DEF Reopen, Zeroed
  <2>2. CASE CreateObject(p)
    BY <1>3, <1>4, <2>2, ZenonT(30) DEF Reopen
  <2> QED
    BY <1>4, <2>1, <2>2, Zenon DEF Reopen
<1>5. ASSUME NEW p \in Procs, Create(p) PROVE RingInv'
  BY <1>3, <1>5 DEF Create
<1>12. ASSUME NEW p \in Procs, ProbeCreates(p) \/ ProbeGetsZero(p) PROVE RingInv'
  <2>1. \A q \in Procs : fd[q] # Fresh
    BY DEF FreshFree
  <2>2. \A q \in Procs : fd'[q] = fd[q] /\ (fd[q] \in Objects => object'[fd'[q]] = object[fd[q]])
    BY <1>12, <2>1 DEF ProbeCreates, ProbeGetsZero, CreateName
  <2>3. /\ UNCHANGED <<len, ring>>
        /\ pc'[p] \in {"unlink", "create", "idle"} /\ \A q \in Procs \ {p} : pc'[q] = pc[q]
    BY <1>12 DEF ProbeCreates, ProbeGetsZero
  <2> QED
    BY <1>0, <2>2, <2>3, SMTT(30)
<1>6. ASSUME NEW p \in Procs,
             \/ ProbeFinds(p) \/ ProbeUnlinks(p)
             \/ OpenFinds(p) \/ OpenFails(p) \/ CreateFindsName(p)
      PROVE RingInv'
  BY <1>0, <1>6, SMTT(30) DEF ProbeFinds, ProbeUnlinks, OpenFinds, OpenFails, CreateFindsName
<1>7. ASSUME NEW p \in Procs, Stat(p) \/ StatFails(p) PROVE RingInv'
  BY <1>0, <1>7 DEF Stat, StatFails
<1>8. ASSUME NEW p \in Procs, Truncate(p) PROVE RingInv'
  <2>1. /\ pc[p] = "truncate" /\ fd[p] \in Objects
        /\ cfg[p] # 0 /\ p = Pub
    BY <1>8, <1>s DEF Truncate, RoleInv, Creating
  <2>2. /\ object'[fd[p]].size = cfg[p] /\ object'[fd[p]].stored = 0
        /\ len'[p] = cfg[p]
    BY <1>0, <1>8, <2>1 DEF Truncate
  <2>3. ASSUME NEW q \in Procs \ {p}, pc[q] \in Mapped
        PROVE  object'[fd[q]] = object[fd[q]]
    <3>1. fd[q] # fd[p]
      BY <1>0, <2>1, <2>3
    <3> QED
      BY <1>8, <3>1 DEF Truncate
  <2>4. \A q \in Procs \ {p} : pc[q] \notin {"truncate", "construct"}
    BY <2>1, SMTT(30) DEF RoleInv, Creating
  <2> QED
    BY <1>0, <1>8, <2>1, <2>2, <2>3, <2>4 DEF Truncate
<1>9. ASSUME NEW p \in Procs, Construct(p) PROVE RingInv'
  <2>1. pc[p] = "construct" /\ fd[p] \in Objects /\ p = Pub
    BY <1>9 DEF Construct, RoleInv, Creating
  <2>2. PICK o \in HeaderStores(object[fd[p]], len[p]) :
          /\ object' = [object EXCEPT ![fd[p]] = o]
          /\ IF HeaderStores(o, len[p]) = {}
             THEN ring' = [ring EXCEPT ![p] = len[p]] /\ Goto(p, "attached")
             ELSE UNCHANGED <<ring, pc>>
    BY <1>9, Zenon DEF Construct
  <2>3. UNCHANGED <<fd, len>>
    BY <1>9, Zenon DEF Construct
  <2>4. object[fd[p]] \in Headers /\ len[p] \in Sizes \union {0}
    BY <2>1 DEF Headers
  <2>6. /\ o.size = object[fd[p]].size
        /\ o.stored \in {object[fd[p]].stored, len[p]}
        /\ HeaderStores(o, len[p]) = {} => o.stored = len[p]
    <3> HIDE DEF TypeOK, RingInv
    <3>1. Stored(object[fd[p]], len[p], o)
      BY <2>4, StoreFacts, Zenon
    <3> QED
      BY <3>1, Zenon DEF Stored
  <2>8. object'[fd[p]] = o /\ \A q \in Procs : fd[q] # fd[p] => object'[fd[q]] = object[fd[q]]
    BY <2>1, <2>2
  <2>9. o.stored \in {0, len[p]} /\ o.size = len[p] /\ len[p] # 0
    BY <1>0, <2>1, <2>6
  <2>10. ASSUME NEW q \in Procs \ {p}, pc[q] \in Mapped
         PROVE  /\ pc'[q] = pc[q] /\ ring'[q] = ring[q]
                /\ object'[fd[q]].size = object[fd[q]].size
                /\ pc[q] \in {"queue", "attached"} =>
                     object'[fd[q]].stored = object[fd[q]].stored
    <3>1. pc'[q] = pc[q] /\ ring'[q] = ring[q]
      BY <2>1, <2>2
    <3>2. CASE fd[q] # fd[p]
      BY <2>8, <3>1, <3>2
    <3>3. CASE fd[q] = fd[p]
      <4>1. len[q] = len[p] /\ object'[fd[q]].size = object[fd[q]].size
        BY <1>0, <2>1, <2>6, <2>8, <2>10, <3>3
      <4>2. pc[q] \in {"queue", "attached"} => object[fd[q]].stored = len[q]
        BY <1>0, <2>1, SMTT(30)
      <4> QED
        BY <2>6, <2>8, <3>1, <3>3, <4>1, <4>2, SMTT(30)
    <3> QED
      BY <3>2, <3>3
  <2> QED
    BY <1>0, <2>1, <2>2, <2>3, <2>6, <2>8, <2>9, <2>10, SMTT(30) DEF RoleInv, Creating
<1>10. ASSUME NEW p \in Procs, Map(p) \/ MapFails(p) \/ ReadRing(p) \/ (p = Pub /\ Adopt)
       PROVE RingInv'
  <2>1. CASE Map(p)
    BY <1>0, <1>p, <2>1 DEF Map, Valid
  <2>2. CASE MapFails(p)
    BY <1>0, <1>p, <2>2 DEF MapFails
  <2>3. CASE ReadRing(p)
    BY <1>0, <1>p, <2>3 DEF ReadRing
  <2>4. CASE p = Pub /\ Adopt
    BY <1>0, <1>p, <2>4 DEF Adopt
  <2> QED
    BY <1>10, <2>1, <2>2, <2>3, <2>4, Zenon
<1>11. CASE UNCHANGED vars
  BY <1>0, <1>11 DEF vars
<1> HIDE DEF TypeOK, RingInv, Mapped, Goto, Leave, Absent
<1> QED
  BY <1>1, <1>2, <1>4, <1>5, <1>6, <1>7, <1>8, <1>9, <1>10, <1>11, <1>12,
     ZenonT(30) DEF Next, Step

----------------------------------------------------------------------------
Whole(n) == [size |-> n, magic |-> TRUE, stored |-> n]

(* As long as nothing failed: an object is empty, or its header is complete  *)
(* and right for its size, but for the one that the publisher constructs; the *)
(* one it truncates is empty, and what it adopts or has constructed is whole. *)
WholeInv ==
  faults = 0 =>
    /\ \A o \in Objects : \/ object[o] = Zeroed
                          \/ object[o] = Whole(object[o].size)
                          \/ pc[Pub] = "construct" /\ fd[Pub] = o
    /\ pc[Pub] = "truncate" => object[fd[Pub]] = Zeroed
    /\ pc[Pub] = "construct" => object[fd[Pub]].size = len[Pub]
    /\ pc[Pub] \in {"header", "attached"} => object[fd[Pub]] = Whole(len[Pub])
    /\ pc[Pub] = "attached" => ring[Pub] = len[Pub]

(* All objects are empty.                                                    *)
LEMMA InitWhole == Init => WholeInv
BY SMTT(30) DEF Init, WholeInv, Procs

(* What does not move the publisher, and writes no object but a fresh one,   *)
(* which becomes empty.                                                      *)
LEMMA WholeFrame ==
  ASSUME TypeOK, WholeInv, faults = 0, pc'[Pub] = pc[Pub], fd'[Pub] = fd[Pub],
         len'[Pub] = len[Pub], ring'[Pub] = ring[Pub],
         \A o \in Objects : object'[o] = object[o] \/ (object'[o] = Zeroed /\ o # fd[Pub])
  PROVE  WholeInv'
<1>p. Pub \in Procs
  BY DEF Procs
<1>1. \A o \in Objects : \/ object'[o] = Zeroed
                         \/ object'[o] = Whole(object'[o].size)
                         \/ pc'[Pub] = "construct" /\ fd'[Pub] = o
  BY DEF WholeInv
<1>2. pc[Pub] \in {"truncate", "construct", "header", "attached"} =>
        object'[fd[Pub]] = object[fd[Pub]]
  BY <1>p DEF TypeOK
<1> QED
  BY <1>1, <1>2 DEF WholeInv

(* Only the publisher writes to an object that somebody has open, and it     *)
(* constructs the object before it attaches; subscribers create and unlink   *)
(* empty ones.                                                               *)
LEMMA StepWhole == TypeOK /\ FreshFree /\ RoleInv /\ WholeInv /\ [Next]_vars => WholeInv'
<1> SUFFICES ASSUME TypeOK, FreshFree, RoleInv, WholeInv, [Next]_vars, faults' = 0 PROVE WholeInv'
  BY DEF WholeInv
<1>p. Pub \in Procs
  BY DEF Procs
<1>0. faults = 0
  <2>1. ASSUME NEW p \in Procs, ProbeFails(p) \/ ProbeGetsZero(p) \/ Crash(p) PROVE FALSE
    BY <2>1 DEF ProbeFails, ProbeGetsZero, Crash, TypeOK
  <2>2. ASSUME NEW p \in Procs, NEW n \in Sizes, Call(p, n) PROVE faults' = faults
    BY <2>2 DEF Call
  <2>3. ASSUME NEW p \in Procs, Step(p) \/ Detach(p) PROVE faults' = faults
    BY <2>3 DEF Step, ProbeCreates, ProbeFinds, ProbeUnlinks, OpenFinds, OpenFails, Stat,
                StatFails, Create, CreateFindsName, Reopen, Truncate, Construct, Adopt,
                Map, MapFails, ReadRing, Detach
  <2> QED
    BY <2>1, <2>2, <2>3 DEF Next, vars
<1>f. Fresh \in Objects /\ fd[Pub] # Fresh
  BY <1>p DEF FreshFree
<1>n. ASSUME CreateName
      PROVE  /\ \A o \in Objects : object'[o] = object[o] \/ (object'[o] = Zeroed /\ o # fd[Pub])
             /\ object'[Fresh] = Zeroed
  BY <1>n, <1>f DEF CreateName, TypeOK
<1>c. ASSUME CreateObject(Pub)
      PROVE  /\ \A o \in Objects : object'[o] = object[o] \/ (object'[o] = Zeroed /\ o # fd[Pub])
             /\ fd'[Pub] = Fresh /\ object'[Fresh] = Zeroed
  BY <1>c, <1>n, <1>p DEF CreateObject, TypeOK
<1>1. ASSUME NEW p \in Subs, Step(p) \/ Detach(p) \/ \E n \in Sizes : Call(p, n)
      PROVE  WholeInv'
  <2>1. p \in Procs /\ p # Pub
    BY <1>1, AttachAssumption DEF Procs
  <2>2. pc[p] \notin Creating
    BY <2>1, SMTT(30) DEF RoleInv
  <2>3. /\ pc'[Pub] = pc[Pub] /\ len'[Pub] = len[Pub] /\ ring'[Pub] = ring[Pub]
        /\ fd'[Pub] = fd[Pub] /\ (object' = object \/ CreateName)
    <3>1. CASE \E n \in Sizes : Call(p, n)
      BY <2>1, <3>1 DEF Call, Goto, TypeOK
    <3>2. CASE ProbeCreates(p)
      BY <2>1, <3>2 DEF ProbeCreates, Goto, TypeOK
    <3>3. CASE ProbeFinds(p) \/ ProbeUnlinks(p) \/ OpenFinds(p) \/ OpenFails(p)
      BY <1>p, <2>1, <3>3
      DEF ProbeFinds, ProbeUnlinks, Absent, OpenFinds, OpenFails, Goto, Leave, TypeOK
    <3>4. CASE Stat(p) \/ StatFails(p) \/ Detach(p)
      BY <1>p, <2>1, <3>4 DEF Stat, StatFails, Detach, Goto, Leave, TypeOK
    <3>5. CASE Map(p) \/ MapFails(p) \/ ReadRing(p)
      BY <1>p, <2>1, <3>5 DEF Map, MapFails, ReadRing, Goto, Leave, TypeOK
    <3>6. ~ (Create(p) \/ CreateFindsName(p) \/ Reopen(p) \/ Truncate(p) \/ Construct(p))
      BY <2>2 DEF Create, CreateFindsName, Reopen, Truncate, Construct, Creating
    <3> QED
      BY <1>1, <2>1, <3>1, <3>2, <3>3, <3>4, <3>5, <3>6, Zenon DEF Step
  <2> QED
    BY <1>0, <1>n, <2>1, <2>3, WholeFrame
<1> USE DEF TypeOK, Goto, Leave, Absent
<1>2. ASSUME NEW l, l \notin {"truncate", "construct", "header", "attached"},
             pc'[Pub] = l, pc[Pub] # "construct",
             \A o \in Objects : object'[o] = object[o] \/ object'[o] = Zeroed
      PROVE  WholeInv'
  BY <1>0, <1>2 DEF WholeInv
<1>3. ASSUME NEW n \in Sizes, Call(Pub, n) PROVE WholeInv'
  BY <1>2, <1>3, <1>p DEF Call
<1>4. CASE Detach(Pub) \/ ProbeFinds(Pub) \/ ProbeUnlinks(Pub)
  BY <1>2, <1>4, <1>p DEF Detach, ProbeFinds, ProbeUnlinks
<1>5. CASE ProbeCreates(Pub)
  BY <1>2, <1>5, <1>p, <1>n DEF ProbeCreates
<1>6. CASE OpenFinds(Pub) \/ OpenFails(Pub) \/ CreateFindsName(Pub) \/ StatFails(Pub)
  BY <1>2, <1>6, <1>p DEF OpenFinds, OpenFails, CreateFindsName, StatFails
<1>7. CASE Stat(Pub)
  <2>1. /\ pc[Pub] = "stat" /\ fd[Pub] \in Objects
        /\ object' = object /\ fd' = fd /\ ring' = ring
        /\ object[fd[Pub]].size # 0 /\ len'[Pub] = object[fd[Pub]].size
        /\ pc'[Pub] = "header" \/ pc'[Pub] = "create"
    BY <1>7, <1>p DEF Stat
  <2> HIDE DEF TypeOK, Goto, Leave, Absent
  <2>2. object[fd[Pub]] # Zeroed
    BY <2>1 DEF Zeroed
  <2>3. object[fd[Pub]] = Whole(len'[Pub])
    BY <1>0, <2>1, <2>2 DEF WholeInv
  <2> QED
    BY <1>0, <2>1, <2>3 DEF WholeInv
<1>8. CASE Create(Pub) \/ Reopen(Pub)
  <2>1. pc[Pub] # "construct" /\ pc'[Pub] = "truncate"
    BY <1>8, <1>p, SMTT(30) DEF Create, Reopen
  <2>2. CASE CreateObject(Pub)
    BY <1>0, <1>c, <1>p, <2>1, <2>2 DEF WholeInv
  <2>3. CASE TruncateObject(Pub)
    <3>1. /\ object'[fd'[Pub]] = Zeroed
          /\ \A o \in Objects : object'[o] = object[o] \/ object'[o] = Zeroed
      BY <2>3, <1>p DEF TruncateObject
    <3> QED
      BY <1>0, <2>1, <3>1 DEF WholeInv
  <2> QED
    BY <1>8, <2>2, <2>3 DEF Create, Reopen
<1>9. CASE Truncate(Pub)
  <2>1. /\ pc[Pub] = "truncate" /\ pc'[Pub] = "construct" /\ fd' = fd /\ fd[Pub] \in Objects
        /\ object'[fd[Pub]].size = len'[Pub]
        /\ \A o \in Objects \ {fd[Pub]} : object'[o] = object[o]
    BY <1>9, <1>p DEF Truncate
  <2> QED
    BY <1>0, <2>1 DEF WholeInv
<1>10. CASE Construct(Pub)
  <2>1. /\ pc[Pub] = "construct" /\ fd[Pub] \in Objects /\ UNCHANGED <<fd, len>>
        /\ object[fd[Pub]].size = len[Pub]
        /\ object[fd[Pub]] \in Headers /\ len[Pub] \in Sizes \union {0}
    BY <1>0, <1>10, <1>p DEF Construct, WholeInv, Headers
  <2>2. PICK o \in HeaderStores(object[fd[Pub]], len[Pub]) :
          /\ object' = [object EXCEPT ![fd[Pub]] = o]
          /\ IF HeaderStores(o, len[Pub]) = {}
             THEN ring' = [ring EXCEPT ![Pub] = len[Pub]] /\ Goto(Pub, "attached")
             ELSE UNCHANGED <<ring, pc>>
    BY <1>10, Zenon DEF Construct
  <2>3. /\ o \in Headers /\ o.size = len[Pub]
        /\ HeaderStores(o, len[Pub]) = {} => o.magic = TRUE /\ o.stored = len[Pub]
    <3> HIDE DEF TypeOK
    <3>1. Stored(object[fd[Pub]], len[Pub], o)
      BY <2>1, StoreFacts, Zenon
    <3> QED
      BY <2>1, <3>1, Zenon DEF Stored
  <2>4. HeaderStores(o, len[Pub]) = {} => o = Whole(len[Pub])
    BY <2>3 DEF Whole, Headers
  <2>5. object'[fd[Pub]] = o /\ \A q \in Objects \ {fd[Pub]} : object'[q] = object[q]
    BY <2>1, <2>2
  <2>6. CASE HeaderStores(o, len[Pub]) = {}
    <3>1. pc'[Pub] = "attached" /\ ring'[Pub] = len[Pub]
      BY <1>p, <2>2, <2>6
    <3>2. WholeInv'
      <4>1. object'[fd'[Pub]] = Whole(len'[Pub]) /\ ring'[Pub] = len'[Pub]
        BY <2>1, <2>4, <2>5, <2>6, <3>1, Zenon
      <4>2. ASSUME NEW q \in Objects
            PROVE  object'[q] = Zeroed \/ object'[q] = Whole(object'[q].size)
        <5>1. CASE q = fd[Pub]
          BY <2>1, <2>3, <2>4, <2>5, <2>6, <5>1, Zenon
        <5>2. CASE q # fd[Pub]
          BY <1>0, <2>5, <5>2, Zenon DEF WholeInv
        <5> QED
          BY <5>1, <5>2
      <4> QED
        BY <3>1, <4>1, <4>2 DEF WholeInv
    <3> QED
      BY <3>2
  <2>7. CASE HeaderStores(o, len[Pub]) # {}
    BY <1>0, <2>1, <2>2, <2>3, <2>5, <2>7 DEF WholeInv
  <2> QED
    BY <2>6, <2>7
<1>11. CASE Adopt
  <2>1. /\ pc[Pub] = "header" /\ pc'[Pub] = "attached" /\ UNCHANGED <<object, fd, len>>
        /\ ring'[Pub] = object[fd[Pub]].stored
    BY <1>11, <1>p DEF Adopt
  <2>2. object[fd[Pub]].stored = len[Pub]
    BY <1>0, <2>1 DEF WholeInv, Whole
  <2> QED
    BY <1>0, <2>1, <2>2 DEF WholeInv
<1>12. ~ (Map(Pub) \/ MapFails(Pub) \/ ReadRing(Pub))
  BY <1>p, AttachAssumption DEF Map, MapFails, ReadRing, RoleInv
<1>13. CASE UNCHANGED vars
  BY <1>0, <1>13, WholeFrame DEF vars
<1>14. ASSUME NEW p \in Procs, ProbeFails(p) \/ ProbeGetsZero(p) \/ Crash(p) PROVE FALSE
  BY <1>14, <1>0 DEF ProbeFails, ProbeGetsZero, Crash
<1>15. ASSUME NEW p \in Procs, Step(p) \/ Detach(p) \/ \E n \in Sizes : Call(p, n)
       PROVE  WholeInv'
  <2>1. CASE p = Pub
    <3> HIDE DEF TypeOK, Goto, Leave, Absent
    <3> QED
      BY <1>3, <1>4, <1>5, <1>6, <1>7, <1>8, <1>9, <1>10, <1>11, <1>12, <1>15, <2>1, Zenon DEF Step
  <2>2. CASE p \in Subs
    BY <1>1, <1>15, <2>2
  <2> QED
    BY <2>1, <2>2 DEF Procs
<1> HIDE DEF TypeOK, Goto, Leave, Absent
<1> QED
  BY <1>13, <1>14, <1>15, Zenon DEF Next

----------------------------------------------------------------------------
(* The name has an object with a size, but for the moments in which exists() *)
(* has created it or the publisher has emptied it.                           *)
Sized ==
  \/ link = None \/ object[link].size # 0
  \/ \E p \in Procs : pc[p] = "unlink"
  \/ pc[Pub] = "truncate" /\ fd[Pub] = link

(* As long as nothing failed, however calls overlap. *)
SizedInv == faults = 0 => Sized

(* With calls in turn, what exists() has found is there, and what a          *)
(* subscriber has mapped is still the size.                                  *)
UsableInv ==
  faults = 0 /\ ~ overlapped =>
    /\ \A p \in Procs : pc[p] = "open" => link # None
    /\ \A p \in Subs : pc[p] \in {"header", "queue"} => object[link].size = len[p]

Alone(p) == \A q \in Procs : q # p => pc[q] \in Outside

(* Where no call is under way, the name refers to nothing or to an object    *)
(* that is constructed: whatever the calls before have done, created and     *)
(* resized, in turn or not, the next one can use it.                         *)
UsableBetweenCalls ==
  faults = 0 /\ (\A p \in Procs : pc[p] \in Outside) /\ link # None =>
    object[link].size # 0 /\ object[link] = Whole(object[link].size)

(* from_config returns an error only to a subscriber, and only because there *)
(* was no object or because its size is not the one of the configuration.    *)
Refused(p) ==
  /\ p \in Subs
  /\ pc[p] = "unlink" \/ (pc[p] = "stat" /\ object[link].size \notin {0, cfg[p]})

(* With calls in turn and no fault, every error that from_config returns is  *)
(* one of these.                                                             *)
RefusedForReason ==
  [][faults' = 0 /\ ~ overlapped' =>
       \A p \in Procs : pc[p] \notin Outside /\ pc'[p] = "idle" => Refused(p)]_vars

(* The empty name, no processes.                                             *)
LEMMA InitUsable == Init => SizedInv /\ UsableInv
<1> SUFFICES ASSUME Init PROVE SizedInv /\ UsableInv
  OBVIOUS
<1>1. link = None /\ \A p \in Procs : pc[p] = "idle"
  BY DEF Init
<1>2. Subs \subseteq Procs
  BY DEF Procs
<1> QED
  BY <1>1, <1>2, Zenon DEF UsableInv, SizedInv, Sized

(* Only exists() and the publisher put an empty object under the name, and   *)
(* each sees to it next: the one unlinks it, the other gives it its size.    *)
LEMMA StepSized == TypeOK /\ RoleInv /\ SizedInv /\ [Next]_vars => SizedInv'
<1> SUFFICES ASSUME TypeOK, RoleInv, SizedInv, [Next]_vars, faults' = 0 PROVE Sized'
  BY DEF SizedInv
<1>s. 0 \notin Sizes /\ Pub \in Procs
  BY SizesFit DEF Procs
<1>0. faults = 0 /\ \A p \in Procs : ~ ProbeFails(p) /\ ~ ProbeGetsZero(p) /\ ~ Crash(p)
  <2>1. ASSUME NEW p \in Procs, ProbeFails(p) \/ ProbeGetsZero(p) \/ Crash(p) PROVE FALSE
    BY <2>1 DEF ProbeFails, ProbeGetsZero, Crash, TypeOK
  <2>2. ASSUME NEW p \in Procs, NEW n \in Sizes, Call(p, n) PROVE faults' = faults
    BY <2>2 DEF Call
  <2>3. ASSUME NEW p \in Procs, Step(p) \/ Detach(p) PROVE faults' = faults
    BY <2>3 DEF Step, ProbeCreates, ProbeFinds, ProbeUnlinks, OpenFinds, OpenFails, Stat,
                StatFails, Create, CreateFindsName, Reopen, Truncate, Construct, Adopt,
                Map, MapFails, ReadRing, Detach
  <2> QED
    BY <2>1, <2>2, <2>3, Zenon DEF Next, vars
<1>1. Sized
  BY <1>0 DEF SizedInv
<1>2. ASSUME NEW p \in Procs, NEW l, Goto(p, l), pc[p] # "unlink", pc[p] # "truncate",
             UNCHANGED <<link, object>>, fd'[Pub] = fd[Pub] \/ p = Pub
      PROVE  Sized'
  BY <1>1, <1>2, <1>s DEF Sized, Goto, TypeOK
<1>3. ASSUME NEW p \in Procs, NEW n \in Sizes, Call(p, n) PROVE Sized'
  BY <1>2, <1>3 DEF Call
<1>4. ASSUME NEW p \in Procs, ProbeCreates(p) \/ ProbeUnlinks(p) PROVE Sized'
  BY <1>4 DEF ProbeCreates, ProbeUnlinks, Sized, Goto, TypeOK
<1>5. ASSUME NEW p \in Procs,
             \/ ProbeFinds(p) \/ OpenFinds(p) \/ Stat(p) \/ CreateFindsName(p) \/ Map(p)
             \/ ReadRing(p) \/ (p = Pub /\ Adopt)
      PROVE  Sized'
  BY <1>2, <1>5, <1>s DEF ProbeFinds, OpenFinds, Stat, CreateFindsName, Map, ReadRing, Adopt, TypeOK
<1>6. ASSUME NEW p \in Procs, OpenFails(p) \/ StatFails(p) \/ MapFails(p) \/ Detach(p)
      PROVE  Sized'
  <2>1. pc[p] # "unlink" /\ pc[p] # "truncate" /\ UNCHANGED <<link, object>> /\ Leave(p)
    BY <1>6 DEF OpenFails, StatFails, MapFails, Detach, created_
  <2> QED
    BY <1>2, <1>s, <2>1 DEF Leave, TypeOK
<1>7. ASSUME NEW p \in Procs, Create(p) \/ Reopen(p) PROVE Sized'
  <2>1. p = Pub /\ pc'[Pub] = "truncate"
    BY <1>7, <1>s DEF Create, Reopen, Goto, RoleInv, Creating, TypeOK
  <2>2. CreateObject(Pub) \/ TruncateObject(Pub)
    BY <1>7, <2>1 DEF Create, Reopen
  <2>3. fd'[Pub] = link'
    BY <1>s, <2>2 DEF CreateObject, CreateName, TruncateObject, TypeOK
  <2> QED
    BY <2>1, <2>3 DEF Sized
<1>8. ASSUME NEW p \in Procs, Truncate(p) PROVE Sized'
  <2>1. p = Pub /\ pc[Pub] = "truncate" /\ fd[Pub] \in Objects /\ cfg[Pub] # 0 /\ link' = link
    BY <1>8, <1>s DEF Truncate, RoleInv, Creating, TypeOK
  <2>2. CASE fd[Pub] = link
    BY <1>8, <2>1, <2>2 DEF Truncate, Sized, TypeOK
  <2>3. CASE fd[Pub] # link
    <3>1. link # None => object'[link] = object[link]
      BY <1>8, <2>1, <2>3 DEF Truncate, TypeOK
    <3>2. \A q \in Procs : pc[q] = "unlink" => pc'[q] = "unlink"
      BY <1>8, <2>1 DEF Truncate, Goto, TypeOK
    <3> QED
      BY <1>1, <2>1, <2>3, <3>1, <3>2 DEF Sized
  <2> QED
    BY <2>2, <2>3
<1>9. ASSUME NEW p \in Procs, Construct(p) PROVE Sized'
  <2>1. /\ p = Pub /\ pc[Pub] = "construct" /\ fd[Pub] \in Objects /\ link' = link
        /\ object[fd[Pub]] \in Headers /\ len[Pub] \in Sizes \union {0}
    BY <1>9, <1>s DEF Construct, RoleInv, Creating, TypeOK, Headers
  <2>2. PICK o \in HeaderStores(object[fd[Pub]], len[Pub]) :
          /\ object' = [object EXCEPT ![fd[Pub]] = o]
          /\ Goto(Pub, "attached") \/ UNCHANGED pc
    BY <1>9, <2>1, Zenon DEF Construct
  <2>3. o.size = object[fd[Pub]].size
    <3>1. Stored(object[fd[Pub]], len[Pub], o)
      BY <2>1, <2>2, StoreFacts, Zenon
    <3> QED
      BY <3>1, Zenon DEF Stored
  <2>4. link # None => object'[link].size = object[link].size
    BY <2>1, <2>2, <2>3 DEF TypeOK
  <2>5. \A q \in Procs : pc[q] = "unlink" => pc'[q] = "unlink"
    BY <2>1, <2>2 DEF Goto, TypeOK
  <2> QED
    BY <1>1, <2>1, <2>4, <2>5 DEF Sized
<1>10. CASE UNCHANGED vars
  BY <1>1, <1>10 DEF vars, Sized
<1> QED
  BY <1>0, <1>3, <1>4, <1>5, <1>6, <1>7, <1>8, <1>9, <1>10, Zenon DEF Next, Step

(* With calls in turn, a process in from_config is the only one there; so it *)
(* is for the size to be there unless the process itself is at the moments   *)
(* in question.                                                              *)
LEMMA UsableAlone ==
  ASSUME TurnInv, SizedInv, faults = 0, ~ overlapped, NEW p \in Procs, pc[p] \notin Outside
  PROVE  /\ Alone(p)
         /\ pc[p] \in {"unlink", "truncate"} \/ link = None \/ object[link].size # 0
<1>1. Alone(p)
  BY Zenon DEF Alone, TurnInv
<1>2. \A q \in Procs : q # p => pc[q] # "unlink" /\ pc[q] # "truncate"
  BY <1>1 DEF Alone, Outside
<1> QED
  BY <1>1, <1>2 DEF SizedInv, Sized, Procs

(* If only p is in from_config after a step, only p matters.                 *)
LEMMA UsableFrame ==
  ASSUME TypeOK, NEW p \in Procs, NEW l, Alone(p), Goto(p, l),
         l = "open" => link' # None,
         p \in Subs /\ l \in {"header", "queue"} => object'[link'].size = len'[p]
  PROVE  UsableInv'
<1>1. pc'[p] = l /\ \A q \in Procs : q # p => pc'[q] \in Outside
  BY DEF TypeOK, Goto, Alone
<1>2. \A q \in Subs : q \in Procs
  BY DEF Procs
<1>3. \A q \in Procs : pc'[q] = "open" => link' # None
  BY <1>1 DEF Outside
<1>4. \A q \in Subs : pc'[q] \in {"header", "queue"} => object'[link'].size = len'[q]
  BY <1>1, <1>2 DEF Outside
<1> QED
  BY <1>3, <1>4, Zenon DEF UsableInv

(* A call finds what exists() has found.                                     *)
LEMMA StepUsable ==
  TypeOK /\ TurnInv /\ RoleInv /\ UsableInv /\ [Next]_vars => UsableInv'
<1> SUFFICES ASSUME TypeOK, TurnInv, RoleInv, UsableInv, [Next]_vars,
                    faults' = 0, ~ overlapped'
             PROVE  UsableInv'
  BY DEF UsableInv
<1>0. faults = 0 /\ ~ overlapped
  <2>1. ASSUME NEW p \in Procs, ProbeFails(p) \/ ProbeGetsZero(p) \/ Crash(p) PROVE FALSE
    BY <2>1 DEF ProbeFails, ProbeGetsZero, Crash, TypeOK
  <2>2. ASSUME NEW p \in Procs, NEW n \in Sizes, Call(p, n)
        PROVE  faults' = faults /\ ~ overlapped
    BY <2>2 DEF Call, TypeOK
  <2>3. ASSUME NEW p \in Procs, Step(p) \/ Detach(p)
        PROVE  UNCHANGED <<faults, overlapped>>
    BY <2>3 DEF Step, ProbeCreates, ProbeFinds, ProbeUnlinks, OpenFinds, OpenFails, Stat,
                StatFails, Create, CreateFindsName, Reopen, Truncate, Construct, Adopt,
                Map, MapFails, ReadRing, Detach
  <2> QED
    BY <2>1, <2>2, <2>3 DEF Next, vars
<1>s. Pub \in Procs /\ \A p \in Procs : p = Pub <=> p \notin Subs
  BY AttachAssumption DEF Procs
<1>a. ASSUME NEW p \in Procs, pc[p] \notin Outside
      PROVE  Alone(p) /\ (pc[p] \in OnLink => fd[p] = link)
  BY <1>0, <1>a, Zenon DEF Alone, TurnInv
<1>b. ASSUME NEW p \in Procs, pc[p] \notin Outside, NEW l, Goto(p, l),
             l \notin {"open", "header", "queue"}
      PROVE  UsableInv'
  BY <1>a, <1>b, UsableFrame
<1>1. ASSUME NEW p \in Procs, NEW n \in Sizes, Call(p, n) PROVE UsableInv'
  <2>1. Alone(p)
    BY <1>1, Zenon DEF Call, Alone
  <2> QED
    BY <1>1, <2>1, UsableFrame DEF Call
<1>2. ASSUME NEW p \in Procs, ProbeCreates(p) \/ ProbeUnlinks(p) PROVE UsableInv'
  BY <1>b, <1>2 DEF ProbeCreates, ProbeUnlinks, Absent, Outside
<1>3. ASSUME NEW p \in Procs, ProbeFinds(p) PROVE UsableInv'
  <2>1. Alone(p)
    BY <1>a, <1>3 DEF ProbeFinds, Outside
  <2> QED
    BY <1>3, <2>1, UsableFrame DEF ProbeFinds
<1>4. ASSUME NEW p \in Procs,
             OpenFinds(p) \/ OpenFails(p) \/ CreateFindsName(p) \/ StatFails(p) \/ MapFails(p)
      PROVE  UsableInv'
  BY <1>b, <1>4 DEF OpenFinds, OpenFails, CreateFindsName, StatFails, MapFails, Leave, Outside
<1>5. ASSUME NEW p \in Procs, Stat(p) PROVE UsableInv'
  <2>1. pc[p] = "stat" /\ pc[p] \notin Outside /\ fd[p] = link /\ UNCHANGED <<link, object>>
    BY <1>5, <1>a DEF Stat, Outside, OnLink
  <2>2. len'[p] = object[link].size
    BY <1>5, <2>1 DEF Stat, TypeOK
  <2>3. Goto(p, "header") \/ Goto(p, "create")
    BY <1>5 DEF Stat
  <2> QED
    BY <1>a, <2>1, <2>2, <2>3, UsableFrame
<1>6. ASSUME NEW p \in Procs, Create(p) \/ Reopen(p) \/ Truncate(p) PROVE UsableInv'
  BY <1>b, <1>6 DEF Create, Reopen, Truncate, Outside
<1>7. ASSUME NEW p \in Procs, Construct(p) PROVE UsableInv'
  <2>1. pc[p] = "construct" /\ pc[p] \notin Outside /\ (Goto(p, "attached") \/ UNCHANGED pc)
    BY <1>7, Zenon DEF Construct, Outside
  <2>2. Goto(p, "attached") \/ Goto(p, "construct")
    BY <2>1 DEF Goto, TypeOK
  <2> QED
    BY <1>b, <2>1, <2>2
<1>8. ASSUME NEW p \in Procs, Map(p) PROVE UsableInv'
  <2>1. pc[p] = "header" /\ p \in Subs /\ UNCHANGED <<link, object, len>> /\ Goto(p, "queue")
    BY <1>8 DEF Map
  <2>2. Alone(p) /\ object[link].size = len[p]
    BY <1>0, <1>a, <2>1 DEF Outside, UsableInv
  <2> QED
    BY <2>1, <2>2, UsableFrame
<1>9. ASSUME NEW p \in Procs, ReadRing(p) \/ (p = Pub /\ Adopt) PROVE UsableInv'
  BY <1>b, <1>9 DEF ReadRing, Adopt, Outside
<1>10. ASSUME NEW p \in Procs, Detach(p) PROVE UsableInv'
  <2>1. /\ pc[p] = "attached" /\ pc'[p] = "idle" /\ UNCHANGED <<link, object>>
        /\ \A q \in Procs : q # p => pc'[q] = pc[q] /\ len'[q] = len[q]
    BY <1>10 DEF Detach, created_, Leave, Goto, TypeOK
  <2>2. \A q \in Procs : pc'[q] = "open" => link' # None
    BY <1>0, <2>1 DEF UsableInv
  <2>3. \A q \in Subs : pc'[q] \in {"header", "queue"} => object'[link'].size = len'[q]
    BY <1>0, <2>1 DEF UsableInv, Procs
  <2> QED
    BY <2>2, <2>3, Zenon DEF UsableInv
<1>11. CASE UNCHANGED vars
  BY <1>11 DEF vars, UsableInv
<1>12. ASSUME NEW p \in Procs, ProbeFails(p) \/ ProbeGetsZero(p) \/ Crash(p) PROVE FALSE
  BY <1>0, <1>12 DEF ProbeFails, ProbeGetsZero, Crash
<1> QED
  BY <1>1, <1>2, <1>3, <1>4, <1>5, <1>6, <1>7, <1>8, <1>9, <1>10, <1>11, <1>12, Zenon
  DEF Next, Step

(* An object with a size that nobody constructs is whole.                    *)
LEMMA SizedIsWhole ==
  ASSUME TypeOK, WholeInv, faults = 0, link # None, object[link].size # 0,
         pc[Pub] # "construct"
  PROVE  object[link] = Whole(object[link].size)
<1>1. link \in Objects
  BY DEF TypeOK
<1>2. object[link] # Zeroed
  BY DEF Zeroed
<1> QED
  BY <1>1, <1>2, Zenon DEF WholeInv

(* The error returns of from_config, in turn and without a fault.            *)
LEMMA StepRefused ==
  ASSUME TypeOK, TurnInv, RoleInv, WholeInv, SizedInv, UsableInv, [Next]_vars,
         faults' = 0, ~ overlapped', NEW p \in Procs, pc[p] \notin Outside, pc'[p] = "idle"
  PROVE  Refused(p)
<1>s. Pub \in Procs /\ \A q \in Procs : q = Pub <=> q \notin Subs
  BY AttachAssumption DEF Procs
<1>1. Step(p) /\ faults = 0 /\ ~ overlapped
  <2>1. PICK q \in Procs : \/ \E n \in Sizes : Call(q, n)
                           \/ Step(q) \/ Detach(q)
                           \/ ProbeFails(q) \/ ProbeGetsZero(q) \/ Crash(q)
    BY DEF Next, vars, Outside
  <2>2. CASE \E n \in Sizes : Call(q, n)
    BY <2>2 DEF Call, Goto, TypeOK, Outside
  <2>3. CASE ProbeFails(q) \/ ProbeGetsZero(q) \/ Crash(q)
    BY <2>3 DEF ProbeFails, ProbeGetsZero, Crash, TypeOK
  <2>4. CASE Detach(q)
    BY <2>4 DEF Detach, Leave, Goto, TypeOK, Outside
  <2>5. CASE Step(q)
    <3>1. q = p
      BY <2>5 DEF Step, ProbeCreates, ProbeFinds, ProbeUnlinks, OpenFinds, OpenFails, Stat,
                  StatFails, Create, CreateFindsName, Reopen, Truncate, Construct, Adopt,
                  Map, MapFails, ReadRing, Leave, Absent, Goto, TypeOK, Outside
    <3>2. UNCHANGED <<faults, overlapped>>
      BY <2>5 DEF Step, ProbeCreates, ProbeFinds, ProbeUnlinks, OpenFinds, OpenFails, Stat,
                  StatFails, Create, CreateFindsName, Reopen, Truncate, Construct, Adopt,
                  Map, MapFails, ReadRing
    <3> QED
      BY <2>5, <3>1, <3>2
  <2> QED
    BY <2>1, <2>2, <2>3, <2>4, <2>5, Zenon
<1>2. /\ Alone(p)
      /\ pc[p] \in {"unlink", "truncate"} \/ link = None \/ object[link].size # 0
      /\ pc[p] \in OnLink => fd[p] = link
  <2>1. pc[p] \in OnLink => fd[p] = link
    BY <1>1, Zenon DEF TurnInv
  <2> QED
    BY <1>1, <2>1, UsableAlone
<1>3. CASE ProbeUnlinks(p)
  BY <1>3, <1>s DEF ProbeUnlinks, Absent, Goto, TypeOK, Refused
<1>4. CASE OpenFails(p)
  BY <1>1, <1>4 DEF OpenFails, UsableInv
<1>5. CASE StatFails(p)
  <2>1. pc[p] = "stat" /\ fd[p] = link /\ link # None
    BY <1>2, <1>5 DEF StatFails, OnLink, TypeOK
  <2> QED
    BY <1>2, <1>5, <1>s, <2>1 DEF StatFails, Refused
<1>6. CASE MapFails(p)
  <2>1. p \in Subs /\ pc[p] \in {"header", "queue"} /\ fd[p] = link /\ link # None
    BY <1>2, <1>6 DEF MapFails, OnLink, TypeOK
  <2>2. object[link].size # 0 /\ object[link].size = len[p]
    BY <1>1, <1>2, <2>1 DEF UsableInv
  <2>3. pc[Pub] # "construct"
    BY <1>2, <1>s, <2>1 DEF Alone, Outside
  <2>4. object[link] = Whole(object[link].size)
    BY <1>1, <2>1, <2>2, <2>3, SizedIsWhole
  <2>5. len[p] >= BUFFER_OFFSET
    BY <2>2, SizesFit DEF TypeOK
  <2>6. Valid(p)
    BY <2>1, <2>2, <2>4, <2>5 DEF Valid, Whole
  <2> QED
    BY <1>6, <2>1, <2>2, <2>6 DEF MapFails
<1>7. ~ (ProbeCreates(p) \/ ProbeFinds(p) \/ OpenFinds(p) \/ Stat(p) \/ Create(p)
         \/ CreateFindsName(p) \/ Reopen(p) \/ Truncate(p) \/ Map(p) \/ ReadRing(p))
  BY DEF ProbeCreates, ProbeFinds, OpenFinds, Stat, Create, CreateFindsName, Reopen,
         Truncate, Map, ReadRing, Goto, TypeOK
<1>8. ~ Construct(p) /\ ~ (p = Pub /\ Adopt)
  BY DEF Construct, Adopt, Goto, TypeOK
<1> QED
  BY <1>1, <1>3, <1>4, <1>5, <1>6, <1>7, <1>8, Zenon DEF Step

----------------------------------------------------------------------------
(* A fresh object by counting, and the theorems. *)
INSTANCE FiniteSetTheorems

(* There always is one: the processes and the name use fewer than there are. *)
LEMMA FreshObject ==
  ASSUME TypeOK
  PROVE  FreshFree
<1> DEFINE Open == {fd[p] : p \in Procs}
           used == Open \cup {link}
<1>1. IsFiniteSet(Procs) /\ Cardinality(Procs) \in Nat
  <2>1. IsFiniteSet({Pub})
    BY FS_Singleton, Zenon
  <2>2. IsFiniteSet(Procs)
    BY <2>1, AttachAssumption, FS_Union, Zenon DEF Procs
  <2> QED
    BY <2>2, FS_CardinalityType
<1>2. fd \in Surjection(Procs, Open)
  BY DEF TypeOK, Surjection
<1>3. IsFiniteSet(Open) /\ Cardinality(Open) <= Cardinality(Procs)
  BY <1>1, <1>2, FS_Surjection
<1>4. Cardinality(Open) \in Nat
  BY <1>3, FS_CardinalityType
<1>5. IsFiniteSet(used) /\ Cardinality(used) <= Cardinality(Procs) + 1
  <2>1. /\ IsFiniteSet(Open \cup {link})
        /\ Cardinality(Open \cup {link}) =
             IF link \in Open THEN Cardinality(Open) ELSE Cardinality(Open) + 1
    <3> HIDE DEF Open
    <3> QED
      BY <1>3, FS_AddElement
  <2> QED
    BY <1>1, <1>3, <1>4, <2>1
<1>6. IsFiniteSet(Objects) /\ Cardinality(Objects) = Cardinality(Procs) + 2
  <2>1. PICK n \in Nat : n = Cardinality(Procs) + 2
    BY <1>1
  <2>2. IsFiniteSet(1 .. n) /\ Cardinality(1 .. n) = n
    BY ONLY n \in Nat, FS_Interval
  <2> QED
    BY <2>1, <2>2, Zenon DEF Objects
<1>7. ~ (Objects \subseteq used)
  <2> SUFFICES ASSUME Objects \in SUBSET used PROVE FALSE
    OBVIOUS
  <2>1. Cardinality(Objects) <= Cardinality(used) /\ Cardinality(used) \in Nat
    BY <1>5, FS_Subset, FS_CardinalityType
  <2> QED
    BY <1>1, <1>5, <1>6, <2>1
<1>8. \E o \in Objects : o # link /\ \A p \in Procs : fd[p] # o
  BY <1>7
<1>9. Fresh \in Objects /\ Fresh # link /\ \A p \in Procs : fd[p] # Fresh
  BY <1>8 DEF Fresh
<1> QED
  BY <1>1, <1>9 DEF FreshFree, Objects, None

(* For any number of processes, sizes and faults: from_config never goes on  *)
(* with a descriptor that shm_open did not return.                           *)
THEOREM DescriptorsValid == Spec => []TypeOK
BY InitTypes, FreshObject, StepTypes, PTL DEF Spec

(* For any number of subscribers: as long as calls of from_config do not     *)
(* overlap, each attached process is on the object that the name refers to,  *)
(* through crashes, failed system calls and changes of the size.             *)
THEOREM InTurn == Spec => []ReachableInTurn
<1>1. TurnInv => ReachableInTurn
  BY DEF TurnInv, ReachableInTurn, Reachable, OnLink
<1> QED
  BY InitTypes, FreshObject, StepTypes, InitTurn, StepTurn, <1>1, PTL DEF Spec

(* For any number of subscribers, sizes and faults: a publisher and a        *)
(* subscriber on one object have read the same storage_size_, in whatever    *)
(* order the header becomes visible, unless an object was truncated while    *)
(* another process had it open.                                              *)
THEOREM RingsAgree == Spec => []AgreeUnlessRecreated
<1>1. RingInv /\ RoleInv => AgreeUnlessRecreated
  BY AttachAssumption DEF RingInv, RoleInv, AgreeUnlessRecreated, AgreeOnRing, Procs
<1> QED
  BY InitTypes, FreshObject, StepTypes, InitRing, StepRole, StepRing, <1>1, PTL DEF Spec

(* For any number of subscribers and any sizes: without a fault, the         *)
(* publisher's ring is constructed and fills its object, also where it took  *)
(* over an existing object without a look at the header.                     *)
THEOREM PublisherHasRing == Spec => []PublisherOnRing
<1>1. WholeInv => PublisherOnRing
  BY DEF WholeInv, PublisherOnRing, Whole
<1> QED
  BY InitTypes, FreshObject, StepTypes, InitRing, StepRole, InitWhole, StepWhole, <1>1, PTL DEF Spec

(* For any number of subscribers and any sizes: without a fault, calls of    *)
(* from_config, also refused ones and ones that overlap, leave the name      *)
(* without an object or with one whose header is complete and right.         *)
THEOREM NameLeftUsable == Spec => []UsableBetweenCalls
<1>1. TypeOK /\ WholeInv /\ SizedInv => UsableBetweenCalls
  <2> SUFFICES ASSUME TypeOK, WholeInv, SizedInv, faults = 0,
                      \A p \in Procs : pc[p] \in Outside, link # None
               PROVE  object[link].size # 0 /\ object[link] = Whole(object[link].size)
    BY Zenon DEF UsableBetweenCalls
  <2>1. /\ pc[Pub] # "truncate" /\ pc[Pub] # "construct"
        /\ \A p \in Procs : pc[p] # "unlink"
    BY DEF Outside, Procs
  <2>2. object[link].size # 0
    BY <2>1 DEF SizedInv, Sized
  <2> QED
    BY <2>1, <2>2, SizedIsWhole
<1> QED
  BY InitTypes, FreshObject, StepTypes, InitRing, StepRole, InitWhole, StepWhole,
     InitUsable, StepSized, <1>1, PTL DEF Spec

(* For any number of subscribers and any sizes: with calls in turn and no    *)
(* fault, the publisher is never refused, and a subscriber only if it finds  *)
(* no object or one of another size; never for a header that is incomplete.  *)
THEOREM RefusalsJustified == Spec => RefusedForReason
<1>1. TypeOK /\ TurnInv /\ RoleInv /\ WholeInv /\ SizedInv /\ UsableInv /\ [Next]_vars =>
        [faults' = 0 /\ ~ overlapped' =>
           \A p \in Procs : pc[p] \notin Outside /\ pc'[p] = "idle" => Refused(p)]_vars
  BY StepRefused, Zenon
<1> QED
  BY InitTypes, FreshObject, StepTypes, InitTurn, StepTurn, InitRing, StepRole,
     InitWhole, StepWhole, InitUsable, StepSized, StepUsable, <1>1, PTL
  DEF Spec, RefusedForReason
=============================================================================
