-------------------------------- MODULE Attach --------------------------------
(****************************************************************************)
(* How the processes of one publication find each other: SharedMemory.hpp,  *)
(* the header of SPSCStorage.hpp, and from_config of Publisher.hpp and      *)
(* Subscriber.hpp, for one shm_name.                                        *)
(*                                                                          *)
(* One publisher and the subscribers call from_config, in any order and as  *)
(* often as they like; each action is one system call, or one access to the *)
(* mapped header, together with the local computation after it.             *)
(****************************************************************************)
EXTENDS Naturals, FiniteSets

CONSTANTS
  Pub,          \* the publishing process
  Subs,         \* the subscribing processes
  Sizes,        \* values of storage_size_bytes in the configurations
  MaxFaults     \* bound: faults in a behaviour

(* Four cache lines; also sizeof(SPSCStorage), by a static_assert. *)
BUFFER_OFFSET == 256

(* A storage has room for its header and for a buffer, as                    *)
(* SPSCStorage::create demands; from_config itself does not look.            *)
ASSUME AttachAssumption ==
  /\ Pub \notin Subs
  /\ IsFiniteSet(Subs)
  /\ Sizes \subseteq {n \in Nat : n > BUFFER_OFFSET}
  /\ MaxFaults \in Nat

Procs == {Pub} \union Subs

(* Enough shared memory objects: one per open descriptor, and a new one. *)
Objects == 1 .. Cardinality(Procs) + 2
None == 0

VARIABLES
  link,        \* the object shm_name refers to, or None
  object,      \* size of each object; in its header, whether magic_ and
               \* abi_version_ are set, and storage_size_
  pc,          \* where each process is in from_config
  cfg,         \* its storage_size_bytes
  fd,          \* the object it has open, or None
  len,         \* the length it has mapped
  ring,        \* storage_size_ as its SPSCQueue read it
  faults,      \* history: processes that died, and system calls that failed
               \* or returned descriptor 0
  overlapped,  \* history: two calls of from_config have overlapped
  recreated    \* history: an object has been truncated that another process
               \* had open

vars == <<link, object, pc, cfg, fd, len, ring, faults, overlapped, recreated>>

Outside == {"idle", "attached"}

(* An object that nobody names or has open: the kernel has freed it. *)
Fresh == CHOOSE o \in Objects : o # link /\ \A p \in Procs : fd[p] # o

Zeroed == [size |-> 0, magic |-> FALSE, stored |-> 0]

Goto(p, l) == pc' = [pc EXCEPT ![p] = l]

(* from_config returns an error, or the process is gone: nothing stays open. *)
Leave(p) ==
  /\ Goto(p, "idle")
  /\ fd' = [fd EXCEPT ![p] = None]
  /\ len' = [len EXCEPT ![p] = 0]
  /\ ring' = [ring EXCEPT ![p] = 0]

----------------------------------------------------------------------------
(* System calls, as this code uses them (shm_overview(7)). *)

(* shm_open with O_CREAT, where the name does not exist. *)
CreateName ==
  /\ link = None
  /\ link' = Fresh
  /\ object' = [object EXCEPT ![Fresh] = Zeroed]

CreateObject(p) ==
  /\ CreateName
  /\ fd' = [fd EXCEPT ![p] = Fresh]

(* shm_open with O_TRUNC, where it exists. *)
TruncateObject(p) ==
  /\ link # None
  /\ object' = [object EXCEPT ![link] = Zeroed]
  /\ fd' = [fd EXCEPT ![p] = link]
  /\ recreated' = (recreated \/ \E q \in Procs \ {p} : fd[q] = link)
  /\ UNCHANGED link

----------------------------------------------------------------------------
(* SharedMemory::exists: create the name exclusively, and unlink it again if *)
(* that worked.                                                              *)

Call(p, n) ==
  /\ pc[p] = "idle"
  /\ cfg' = [cfg EXCEPT ![p] = n]
  /\ Goto(p, "probe")
  /\ overlapped' = (overlapped \/ \E q \in Procs \ {p} : pc[q] \notin Outside)
  /\ UNCHANGED <<link, object, fd, len, ring, faults, recreated>>

(* The descriptor is closed at once. *)
ProbeCreates(p) ==
  /\ pc[p] = "probe"
  /\ CreateName
  /\ Goto(p, "unlink")
  /\ UNCHANGED <<cfg, fd, len, ring, faults, overlapped, recreated>>

ProbeFinds(p) ==
  /\ pc[p] = "probe"
  /\ link # None
  /\ Goto(p, "open")
  /\ UNCHANGED <<link, object, cfg, fd, len, ring, faults, overlapped, recreated>>

(* What exists() returning false leads to. *)
Absent(p) == Goto(p, IF p = Pub THEN "create" ELSE "idle")

(* Mutant: the probe's own object is left under the name. *)
ProbeUnlinks_Forgotten(p) ==
  /\ pc[p] = "unlink"
  /\ Absent(p)
  /\ UNCHANGED <<link, object, cfg, fd, len, ring, faults, overlapped, recreated>>

(* The name is unlinked whatever it refers to by now. *)
ProbeUnlinks(p) ==
  /\ pc[p] = "unlink"
  /\ link' = None
  /\ Absent(p)
  /\ UNCHANGED <<object, cfg, fd, len, ring, faults, overlapped, recreated>>

(* Any other error of the exclusive shm_open reads as "does not exist". *)
ProbeFails(p) ==
  /\ pc[p] = "probe"
  /\ faults < MaxFaults
  /\ faults' = faults + 1
  /\ Absent(p)
  /\ UNCHANGED <<link, object, cfg, fd, len, ring, overlapped, recreated>>

(* So does descriptor 0, which a process without standard input gets; what   *)
(* the probe has created then stays.                                         *)
ProbeGetsZero(p) ==
  /\ pc[p] = "probe"
  /\ faults < MaxFaults
  /\ CreateName
  /\ faults' = faults + 1
  /\ Absent(p)
  /\ UNCHANGED <<cfg, fd, len, ring, overlapped, recreated>>

----------------------------------------------------------------------------
(* SharedMemory::open *)

(* Mutant: goes on with the -1 of a failed shm_open. *)
OpenFinds_Unchecked(p) ==
  /\ pc[p] = "open"
  /\ fd' = [fd EXCEPT ![p] = link]
  /\ Goto(p, "stat")
  /\ UNCHANGED <<link, object, cfg, len, ring, faults, overlapped, recreated>>

OpenFinds(p) ==
  /\ pc[p] = "open"
  /\ link # None
  /\ fd' = [fd EXCEPT ![p] = link]
  /\ Goto(p, "stat")
  /\ UNCHANGED <<link, object, cfg, len, ring, faults, overlapped, recreated>>

OpenFails(p) ==
  /\ pc[p] = "open"
  /\ link = None
  /\ Leave(p)
  /\ UNCHANGED <<link, object, cfg, faults, overlapped, recreated>>

(* fstat and mmap; mmap of 0 bytes fails.  Then the caller compares the size *)
(* with its configuration.                                                   *)
Stat(p) ==
  LET n == object[fd[p]].size
  IN /\ pc[p] = "stat"
     /\ n # 0
     /\ n = cfg[p] \/ p = Pub
     /\ len' = [len EXCEPT ![p] = n]
     /\ Goto(p, IF n = cfg[p] THEN "header" ELSE "create")
     /\ UNCHANGED <<link, object, cfg, fd, ring, faults, overlapped, recreated>>

StatFails(p) ==
  LET n == object[fd[p]].size
  IN /\ pc[p] = "stat"
     /\ n = 0 \/ (n # cfg[p] /\ p # Pub)
     /\ Leave(p)
     /\ UNCHANGED <<link, object, cfg, faults, overlapped, recreated>>

----------------------------------------------------------------------------
(* SharedMemory::open_or_create(..., true), and the constructor of           *)
(* SPSCStorage; only a publisher gets here.                                  *)

Create(p) ==
  /\ pc[p] = "create"
  /\ CreateObject(p)
  /\ Goto(p, "truncate")
  /\ UNCHANGED <<cfg, len, ring, faults, overlapped, recreated>>

(* Mutant: an existing name is an error, not reopened. *)
CreateFindsName_Fails(p) ==
  /\ pc[p] = "create"
  /\ link # None
  /\ Leave(p)
  /\ UNCHANGED <<link, object, cfg, faults, overlapped, recreated>>

CreateFindsName(p) ==
  /\ pc[p] = "create"
  /\ link # None
  /\ Goto(p, "reopen")
  /\ UNCHANGED <<link, object, cfg, fd, len, ring, faults, overlapped, recreated>>

(* The second shm_open, without O_EXCL. *)
Reopen(p) ==
  /\ pc[p] = "reopen"
  /\ \/ TruncateObject(p)
     \/ CreateObject(p) /\ UNCHANGED recreated
  /\ Goto(p, "truncate")
  /\ UNCHANGED <<cfg, len, ring, faults, overlapped>>

(* Mutant: the recreated storage is used without its constructor. *)
Truncate_NoConstruct(p) ==
  /\ pc[p] = "truncate"
  /\ object' = [object EXCEPT ![fd[p]].size = cfg[p]]
  /\ len' = [len EXCEPT ![p] = cfg[p]]
  /\ Goto(p, "header")
  /\ UNCHANGED <<link, cfg, fd, ring, faults, overlapped, recreated>>

(* ftruncate and mmap. *)
Truncate(p) ==
  /\ pc[p] = "truncate"
  /\ object' = [object EXCEPT ![fd[p]].size = cfg[p]]
  /\ len' = [len EXCEPT ![p] = cfg[p]]
  /\ Goto(p, "construct")
  /\ UNCHANGED <<link, cfg, fd, ring, faults, overlapped, recreated>>

(* Mutant: storage_size_ is left out. *)
HeaderStores_NoSize(o, n) == {[o EXCEPT !.magic = TRUE]} \ {o}

(* The constructor's plain stores to the header, in an order of the          *)
(* compiler's and the processor's choice; its stores to the indices write 0  *)
(* over 0.                                                                   *)
HeaderStores(o, n) == {[o EXCEPT !.magic = TRUE], [o EXCEPT !.stored = n]} \ {o}

Construct(p) ==
  /\ pc[p] = "construct"
  /\ \E o \in HeaderStores(object[fd[p]], len[p]) :
       /\ object' = [object EXCEPT ![fd[p]] = o]
       /\ IF HeaderStores(o, len[p]) = {}
          THEN ring' = [ring EXCEPT ![p] = len[p]] /\ Goto(p, "attached")
          ELSE UNCHANGED <<ring, pc>>
  /\ UNCHANGED <<link, cfg, fd, len, faults, overlapped, recreated>>

----------------------------------------------------------------------------
(* The header of an existing object.  Publisher takes it as it is.           *)

Adopt ==
  /\ pc[Pub] = "header"
  /\ ring' = [ring EXCEPT ![Pub] = object[fd[Pub]].stored]
  /\ Goto(Pub, "attached")
  /\ UNCHANGED <<link, object, cfg, fd, len, faults, overlapped, recreated>>

(* Mutant: storage_size_ is not compared. *)
Valid_MagicOnly(p) == object[fd[p]].magic

Valid(p) ==
  /\ len[p] >= BUFFER_OFFSET
  /\ object[fd[p]].magic
  /\ object[fd[p]].stored = len[p]

(* SPSCStorage::map *)
Map(p) ==
  /\ p \in Subs
  /\ pc[p] = "header"
  /\ Valid(p)
  /\ Goto(p, "queue")
  /\ UNCHANGED <<link, object, cfg, fd, len, ring, faults, overlapped, recreated>>

(* map() returns an error; or the process touches a mapping whose object has *)
(* been truncated to nothing, and is killed by SIGBUS.                       *)
MapFails(p) ==
  /\ p \in Subs
  /\ \/ pc[p] = "header" /\ ~ Valid(p)
     \/ pc[p] = "queue" /\ object[fd[p]].size = 0
  /\ Leave(p)
  /\ UNCHANGED <<link, object, cfg, faults, overlapped, recreated>>

(* The constructor of SPSCQueue reads storage_size_ once more. *)
ReadRing(p) ==
  /\ pc[p] = "queue"
  /\ object[fd[p]].size # 0
  /\ ring' = [ring EXCEPT ![p] = object[fd[p]].stored]
  /\ Goto(p, "attached")
  /\ UNCHANGED <<link, object, cfg, fd, len, faults, overlapped, recreated>>

----------------------------------------------------------------------------
(* Mutant: the process that opens the object owns it. *)
created_Always == TRUE

(* ~SharedMemory.  created_ is false on every path of open_or_create, so the *)
(* name stays.                                                               *)
created_ == FALSE

Detach(p) ==
  /\ pc[p] = "attached"
  /\ Leave(p)
  /\ link' = IF created_ THEN None ELSE link
  /\ UNCHANGED <<object, cfg, faults, overlapped, recreated>>

(* The process dies, or a system call fails (no permission, no memory) and   *)
(* from_config returns the error; what it has done so far stays.             *)
Crash(p) ==
  /\ faults < MaxFaults
  /\ pc[p] # "idle"
  /\ faults' = faults + 1
  /\ Leave(p)
  /\ UNCHANGED <<link, object, cfg, overlapped, recreated>>

Init ==
  /\ link = None
  /\ object = [o \in Objects |-> Zeroed]
  /\ pc = [p \in Procs |-> "idle"]
  /\ cfg = [p \in Procs |-> 0]
  /\ fd = [p \in Procs |-> None]
  /\ len = [p \in Procs |-> 0]
  /\ ring = [p \in Procs |-> 0]
  /\ faults = 0 /\ overlapped = FALSE /\ recreated = FALSE

(* The steps of a call once it has begun. *)
Step(p) ==
  \/ ProbeCreates(p) \/ ProbeFinds(p) \/ ProbeUnlinks(p)
  \/ OpenFinds(p) \/ OpenFails(p) \/ Stat(p) \/ StatFails(p)
  \/ Create(p) \/ CreateFindsName(p) \/ Reopen(p) \/ Truncate(p) \/ Construct(p)
  \/ p = Pub /\ Adopt
  \/ Map(p) \/ MapFails(p) \/ ReadRing(p)

Next ==
  \E p \in Procs :
    \/ \E n \in Sizes : Call(p, n)
    \/ Step(p) \/ Detach(p)
    \/ ProbeFails(p) \/ ProbeGetsZero(p) \/ Crash(p)

Spec == Init /\ [][Next]_vars

(* A call that has begun goes on, and a publisher that is not attached calls *)
(* from_config again.                                                        *)
FairSpec ==
  /\ Spec
  /\ \A p \in Procs : WF_vars(Step(p))
  /\ WF_vars(\E n \in Sizes : Call(Pub, n))

----------------------------------------------------------------------------
(* Type correctness: open descriptors and the name refer to objects. *)
TypeOK ==
  /\ link \in Objects \union {None}
  /\ object \in [Objects -> [size : Sizes \union {0}, magic : BOOLEAN,
                              stored : Sizes \union {0}]]
  /\ pc \in [Procs -> {"idle", "probe", "unlink", "open", "stat", "create",
                      "reopen", "truncate", "construct", "header", "queue",
                      "attached"}]
  /\ cfg \in [Procs -> Sizes \union {0}]
  /\ fd \in [Procs -> Objects \union {None}]
  /\ len \in [Procs -> Sizes \union {0}]
  /\ ring \in [Procs -> Sizes \union {0}]
  /\ faults \in 0 .. MaxFaults
  /\ overlapped \in BOOLEAN /\ recreated \in BOOLEAN
  /\ \A p \in Procs : pc[p] \in {"stat", "truncate", "construct", "header",
                              "queue", "attached"}
                        => fd[p] # None

(* Every attached process is on the object that the name refers to, so that  *)
(* the next one to attach meets it there.                                    *)
Reachable == \A p \in Procs : pc[p] = "attached" => fd[p] = link

(* That holds if calls of from_config have never overlapped: the object that *)
(* exists() unlinks is then the one it created.                              *)
ReachableInTurn == ~ overlapped => Reachable

(* A publisher and a subscriber on the same object work on the same ring:    *)
(* their SPSCQueue objects have read the same storage_size_.                 *)
AgreeOnRing ==
  \A s \in Subs :
    pc[Pub] = "attached" /\ pc[s] = "attached" /\ fd[s] = fd[Pub]
      => ring[s] = ring[Pub]

(* That holds as long as no object was truncated while another process had   *)
(* it open, whatever the overlaps and the faults: map() turns down a header  *)
(* that is not complete, in whichever order its fields become visible.       *)
AgreeUnlessRecreated == ~ recreated => AgreeOnRing

(* Without a fault, the publisher's ring is a constructed one and fills the  *)
(* object, also where from_config takes over an existing object unread.      *)
PublisherOnRing ==
  faults = 0 /\ pc[Pub] = "attached" =>
    /\ ring[Pub] = len[Pub]
    /\ object[fd[Pub]] = [size |-> len[Pub], magic |-> TRUE, stored |-> len[Pub]]

(* A subscriber that calls while a publisher is attached to what the name    *)
(* refers to, with the same size, gets in, whatever earlier calls have done, *)
(* unless the publisher leaves or another call comes in between.             *)
SubscriberGetsIn ==
  \A s \in Subs :
    LET Alone == \A q \in Procs \ {s} : pc[q] \in Outside
        Published == pc[Pub] = "attached" /\ fd[Pub] = link
    IN pc[s] = "probe" /\ Alone /\ Published /\ cfg[s] = len[Pub]
         ~> pc[s] = "attached" \/ ~ Alone \/ ~ Published \/ faults > 0

(* A publisher that keeps calling from_config gets in: it opens the object,  *)
(* or creates a new one if there is none or its size is wrong.               *)
PublisherGetsIn == []<>(pc[Pub] = "attached")

(* Without faults, and with calls in turn, it does. *)
PublisherGetsInInTurn ==
  pc[Pub] = "probe" ~> pc[Pub] = "attached" \/ overlapped \/ faults > 0

(* Calls that overlap may make each other fail, because the answer of        *)
(* exists() is old when it is used; but without faults they leave nothing    *)
(* behind that keeps the publisher out once the subscribers are quiet.       *)
PublisherRecovers ==
  <>[](\A s \in Subs : pc[s] \in Outside)
    => []<>(pc[Pub] = "attached" \/ faults > 0)
=============================================================================
