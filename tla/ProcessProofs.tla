--------------------------- MODULE ProcessProofs ---------------------------
(***************************************************************************)
(* Proofs about module Process, for every size of the process table, of the *)
(* thread table and of the pools of semaphores and open files.              *)
(*                                                                          *)
(* OneThreadPerProcess is used through RolesOK, which says the same of one  *)
(* thread and one process at a time: most actions leave every Works(t, p)   *)
(* as it is.                                                                *)
(***************************************************************************)
EXTENDS Process, TLAPS

(* Thread t runs process p, is about to, or is making it. *)
Works(t, p) ==
    \/ t # Startup /\ pc[t] \notin {"none", "start", "setup"} /\ Self(t) = p
    \/ pc[t] \in {"start", "setup"} \union Creating /\ loc[t].pid = p

RolesOK ==
    /\ \A p \in Pids : pcb[p].state = "RUNNING" /\ p \notin lost => \E t \in Tids : Works(t, p)
    /\ \A p \in Pids : \A t \in Tids : Works(t, p) => pcb[p].state = "RUNNING" /\ p \notin lost
    /\ \A p \in Pids : \A t, u \in Tids : Works(t, p) /\ Works(u, p) => t = u
    /\ \A t \in Tids : t # Startup /\ pc[t] \in Creating => Self(t) # loc[t].pid
    /\ \A p \in lost : pcb[p].state = "RUNNING"

(* What is proved inductive, with RolesOK in the place of its reading.       *)
TablesOK == TypeOK /\ RolesOK /\ ThreadsOK

----------------------------------------------------------------------------
(* Works says that a thread is among those counted for a process. *)
LEMMA ThreadsOfProcess ==
    ASSUME NEW p \in Pids, NEW t \in Tids
    PROVE  Works(t, p) <=> t \in Running(p) \union Starting(p) \union Making(p)
BY DEF Works, Running, Starting, Making

(* The counting form of the invariant gives the form with quantifiers. *)
LEMMA RolesOfThreads == TypeOK /\ OneThreadPerProcess /\ ThreadsOK => RolesOK
<1> SUFFICES ASSUME TypeOK, OneThreadPerProcess, ThreadsOK PROVE RolesOK
  OBVIOUS
<1> DEFINE threads(p) == Running(p) \union Starting(p) \union Making(p)
<1>1. \A p \in Pids : \A t \in Tids : Works(t, p) <=> t \in threads(p)
  BY ThreadsOfProcess
<1>2. \A p \in Pids :
        /\ IF pcb[p].state = "RUNNING" /\ p \notin lost
           THEN \E t \in Tids : threads(p) = {t} ELSE threads(p) = {}
        /\ Running(p) \intersect Making(p) = {}
        /\ p \in lost => pcb[p].state = "RUNNING"
  BY DEF OneThreadPerProcess
<1> HIDE DEF threads
<1>3. \A p \in Pids : pcb[p].state = "RUNNING" /\ p \notin lost => \E t \in Tids : Works(t, p)
  BY <1>1, <1>2
<1>4. \A p \in Pids : \A t \in Tids : Works(t, p) => pcb[p].state = "RUNNING" /\ p \notin lost
  BY <1>1, <1>2
<1>5. \A p \in Pids : \A t, u \in Tids : Works(t, p) /\ Works(u, p) => t = u
  BY <1>1, <1>2, <1>4
<1>6. \A p \in lost : pcb[p].state = "RUNNING"
  BY <1>2 DEF TypeOK
<1>7. ASSUME NEW t \in Tids, t # Startup, pc[t] \in Creating
      PROVE  Self(t) # loc[t].pid
  <2>1. Self(t) \in Pids \/ Self(t) = NoPid
    BY DEF TypeOK, Self
  <2>2. Self(t) # NoPid
    BY <1>7 DEF ThreadsOK, ThreadOK, Creating
  <2>3. t \in Running(Self(t))
    BY <1>7 DEF Running, Creating
  <2>4. t \notin Making(Self(t))
    BY <1>2, <2>1, <2>2, <2>3
  <2> QED BY <1>7, <2>4 DEF Making
<1> QED BY <1>3, <1>4, <1>5, <1>6, <1>7 DEF RolesOK

(* And back: at most one thread works for a process. *)
LEMMA ThreadsOfRoles == TypeOK /\ RolesOK => OneThreadPerProcess
<1> SUFFICES ASSUME TypeOK, RolesOK, NEW p \in Pids
             PROVE  LET threads == Running(p) \union Starting(p) \union Making(p)
                    IN /\ IF pcb[p].state = "RUNNING" /\ p \notin lost
                          THEN \E t \in Tids : threads = {t} ELSE threads = {}
                       /\ Running(p) \intersect Making(p) = {}
                       /\ p \in lost => pcb[p].state = "RUNNING"
  BY DEF OneThreadPerProcess
<1> DEFINE threads == Running(p) \union Starting(p) \union Making(p)
<1>1. \A t \in Tids : Works(t, p) <=> t \in threads
  BY ThreadsOfProcess
<1>2. threads \subseteq Tids
  BY DEF Running, Starting, Making
<1>3. Running(p) \intersect Making(p) = {}
  BY DEF RolesOK, Running, Making
<1> HIDE DEF threads
<1>4. CASE pcb[p].state = "RUNNING" /\ p \notin lost
  <2>1. PICK t \in Tids : Works(t, p)
    BY <1>4 DEF RolesOK
  <2>2. \A u \in Tids : Works(u, p) => u = t
    BY <2>1 DEF RolesOK
  <2>3. threads = {t}
    BY <1>1, <1>2, <2>1, <2>2
  <2> QED BY <1>3, <1>4, <2>3 DEF threads
<1>5. CASE ~(pcb[p].state = "RUNNING" /\ p \notin lost)
  <2>1. threads = {}
    BY <1>1, <1>2, <1>5 DEF RolesOK
  <2> QED BY <1>3, <1>5, <2>1 DEF threads, RolesOK
<1> QED BY <1>4, <1>5

----------------------------------------------------------------------------
(* The first process has its thread and nothing else is in use. *)
LEMMA TablesInitial == Init => TablesOK
<1> SUFFICES ASSUME Init PROVE TablesOK
  OBVIOUS
<1>1. /\ 0 \in Pids /\ 1 \in Tids /\ 2 \in Tids /\ NoPid \notin Pids
      /\ 3 % MaxThreads \in 0 .. (MaxThreads - 1)
  BY BoundsAssumption DEF Pids, Tids, NoPid
<1>2. /\ pc[1] = "join" /\ pc[2] = "start"
      /\ \A t \in Tids : t # 1 /\ t # 2 => pc[t] = "none"
      /\ pc \in [Tids -> Labels]
  <2>1. pc = [t \in Tids |-> IF t = 1 THEN "join" ELSE IF t = 2 THEN "start" ELSE "none"]
    BY DEF Init
  <2>2. pc[1] = "join"
    BY <1>1, <2>1
  <2>3. pc[2] = "start"
    BY <1>1, <2>1
  <2>4. \A t \in Tids : t # 1 /\ t # 2 => pc[t] = "none"
    BY <2>1
  <2>5. \A t \in Tids : pc[t] \in Labels
    BY <2>2, <2>3, <2>4 DEF Labels
  <2> QED BY <2>1, <2>2, <2>3, <2>4, <2>5
<1>3. /\ loc[1].pid = 0 /\ loc[2].pid = 0
      /\ loc \in [Tids -> [pid : Pids \union {NoPid}, null : BOOLEAN]]
      /\ \A t \in Tids : thread[t].process_id = NoPid
      /\ \A t \in Tids : thread[t].state = IF t \in {1, 2} THEN "LIVE" ELSE "FREE"
  BY <1>1 DEF Init, NoLocals
<1>4. TypeOK
  <2>1. pcb \in [Pids -> [state : {"FREE", "RUNNING", "ZOMBIE"}, parent : Pids \union {NoPid}]]
    BY DEF Init
  <2>2. thread \in [Tids -> [state : {"FREE", "LIVE", "DYING"}, process_id : Pids \union {NoPid},
                            pagetable : BOOLEAN]]
    BY DEF Init
  <2>3. /\ next_tid \in 0 .. (MaxThreads - 1)
        /\ sems \in 0 .. MaxSems /\ files \in 0 .. MaxOpenFiles
    <3>1. next_tid \in 0 .. (MaxThreads - 1)
      <4>1. next_tid = 3 % MaxThreads
        BY DEF Init
      <4> QED BY <1>1, <4>1, Zenon
    <3>2. sems \in 0 .. MaxSems /\ files \in 0 .. MaxOpenFiles
      <4>1. sems = 0 /\ files = 0
        BY DEF Init
      <4> QED BY <4>1, BoundsAssumption
    <3> QED BY <3>1, <3>2
  <2>4. signalled \in [Tids -> BOOLEAN] /\ kids \in [Tids -> SUBSET Pids] /\ lost \subseteq Pids
    BY <1>1 DEF Init
  <2> QED BY <1>2, <1>3, <2>1, <2>2, <2>3, <2>4 DEF TypeOK
<1>5. ThreadsOK
  <2> SUFFICES ASSUME NEW t \in Tids
               PROVE  ThreadOK(t)
    BY DEF ThreadsOK
  <2>1. CASE t = 1
    BY <1>1, <1>2, <1>3, <2>1 DEF ThreadOK, Startup, Self, Creating, NoPid
  <2>2. CASE t = 2
    BY <1>1, <1>2, <1>3, <2>2 DEF ThreadOK, Startup, Self, Creating, NoPid
  <2>3. CASE t # 1 /\ t # 2
    BY <1>1, <1>2, <1>3, <2>3 DEF ThreadOK, Startup, Self, Creating, NoPid
  <2> QED BY <2>1, <2>2, <2>3
<1>6. \A t \in Tids : \A p \in Pids : Works(t, p) <=> (t = 2 /\ p = 0)
  BY <1>1, <1>2, <1>3 DEF Works, Startup, Self, Creating
<1>7. RolesOK
  <2>1. /\ \A p \in Pids : pcb[p].state = "RUNNING" <=> p = 0
        /\ lost = {}
    BY DEF Init
  <2> QED BY <1>1, <1>2, <1>6, <2>1 DEF RolesOK, Creating
<1> QED BY <1>4, <1>5, <1>7 DEF TablesOK

(* A step that leaves what every thread works on as it is. *)
LEMMA SameRoles ==
    ASSUME TypeOK, RolesOK,
           \A u \in Tids : \A p \in Pids : Works(u, p)' => Works(u, p),
           \A u \in Tids : \A p \in Pids : Works(u, p) => Works(u, p)',
           \A p \in Pids : (pcb'[p].state = "RUNNING") <=> (pcb[p].state = "RUNNING"),
           lost' = lost,
           \A u \in Tids : u # Startup /\ pc'[u] \in Creating =>
               thread'[u].process_id # loc'[u].pid
    PROVE  RolesOK'
<1>1. \A p \in Pids : pcb'[p].state = "RUNNING" /\ p \notin lost' => \E t \in Tids : Works(t, p)'
  BY DEF RolesOK
<1>2. \A p \in Pids : \A t \in Tids : Works(t, p)' => pcb'[p].state = "RUNNING" /\ p \notin lost'
  BY DEF RolesOK
<1>3. \A p \in Pids : \A t, u \in Tids : Works(t, p)' /\ Works(u, p)' => t = u
  BY DEF RolesOK
<1>4. \A p \in lost' : pcb'[p].state = "RUNNING"
  BY DEF RolesOK, TypeOK
<1>5. \A t \in Tids : t # Startup /\ pc'[t] \in Creating => Self(t)' # loc'[t].pid
  BY DEF Self
<1> QED BY <1>1, <1>2, <1>3, <1>4, <1>5 DEF RolesOK

(* NoPid names no slot. *)
LEMMA Pids_NoPid == NoPid \notin Pids
BY DEF NoPid, Pids

(* A thread that moves is live, and only the joining of the initial program  *)
(* is the startup thread's.                                                  *)
LEMMA Mover ==
    ASSUME TablesOK, NEW t \in Tids, pc[t] # "none", halted = ""
    PROVE  /\ thread[t].state = "LIVE"
           /\ t = Startup => pc[t] = "join"
           /\ pc[t] \notin {"start", "setup"} /\ t # Startup => Self(t) \in Pids
           /\ pc[t] \in {"start", "setup", "copy", "fork_wait", "join"} \union Creating => loc[t].pid \in Pids
<1>1. Self(t) \in Pids \union {NoPid} /\ loc[t].pid \in Pids \union {NoPid}
  BY DEF TablesOK, TypeOK, Self
<1> QED BY <1>1 DEF TablesOK, ThreadsOK, ThreadOK

(* One thread moves. *)
LEMMA OthersThreadOK ==
    ASSUME ThreadsOK, NEW t \in Tids, ThreadOK(t)', halted' = halted \/ halted' # "",
           \A u \in Tids : u # t =>
               thread'[u] = thread[u] /\ pc'[u] = pc[u] /\ loc'[u].pid = loc[u].pid
    PROVE  ThreadsOK'
<1> SUFFICES ASSUME NEW u \in Tids, u # t PROVE ThreadOK(u)'
  BY DEF ThreadsOK
<1> QED BY ZenonT(30) DEF ThreadsOK, ThreadOK, Self

(* The thread entry that thread_create takes is not the creator's. *)
LEMMA TakenEntry ==
    ASSUME TablesOK, NEW t \in Tids, pc[t] # "none", NEW u \in FreeTids
    PROVE  /\ u \in Tids /\ u # t /\ pc[u] = "none"
           /\ u = Startup => halted # ""
           /\ NextTid(u) \in 0 .. (MaxThreads - 1)
<1>1. u \in Tids /\ u # t /\ pc[u] = "none" /\ (u = Startup => halted # "")
  BY DEF FreeTids, TablesOK, ThreadsOK, ThreadOK
<1>2. NextTid(u) \in 0 .. (MaxThreads - 1)
  <2>1. u + 1 \in Int /\ MaxThreads \in Int /\ MaxThreads > 0
    <3>1. MaxThreads \in Nat /\ MaxThreads > 2
      BY BoundsAssumption
    <3>2. u \in 1 .. (MaxThreads - 1)
      BY <1>1 DEF Tids
    <3> QED BY <3>1, <3>2
  <2>2. \A a, m \in Int : m > 0 => a % m \in 0 .. (m - 1)
    OBVIOUS
  <2> QED BY <2>1, <2>2 DEF NextTid
<1> QED BY <1>1, <1>2

----------------------------------------------------------------------------
(* alloc_process_id takes a slot that no thread works for. *)
LEMMA AllocKeeps ==
    ASSUME TablesOK, NEW t \in Tids, NEW label \in {"spawn_set", "fork_set"},
           alloc_process_id(t, label)
    PROVE  TablesOK'
<1>0. t # Startup /\ Self(t) \in Pids /\ pc[t] = "run" /\ halted = ""
  BY Mover DEF alloc_process_id, At
<1>1. PICK p \in FreePids : pcb' = Allocated(p) /\ loc' = [loc EXCEPT ![t].pid = p]
  BY DEF alloc_process_id
<1>2. p \in Pids /\ pcb[p].state = "FREE" /\ p # NoPid
  BY Pids_NoPid DEF FreePids
<1>3. /\ pc' = [pc EXCEPT ![t] = label] /\ thread' = thread /\ halted' = halted /\ lost' = lost
      /\ UNCHANGED <<next_tid, sems, files, signalled, kids>>
  BY DEF alloc_process_id, Goto
<1>4. TypeOK'
  BY <1>1, <1>2, <1>3, ZenonT(30) DEF TablesOK, TypeOK, Allocated, Labels
<1>5. /\ loc'[t].pid = p /\ \A u \in Tids : u # t => loc'[u] = loc[u]
      /\ pc'[t] = label /\ \A u \in Tids : u # t => pc'[u] = pc[u]
      /\ pcb'[p].state = "RUNNING" /\ \A q \in Pids : q # p => pcb'[q] = pcb[q]
  BY <1>1, <1>2, <1>3 DEF TablesOK, TypeOK, Allocated
<1>6. ThreadsOK'
  <2>1. ThreadOK(t)'
    BY <1>0, <1>2, <1>3, <1>5, Pids_NoPid, Mover DEF ThreadOK, Self, Creating
  <2> QED BY <1>3, <1>5, <2>1, OthersThreadOK DEF TablesOK
<1>7. RolesOK'
  <2>1. \A u \in Tids : ~Works(u, p) /\ p \notin lost
    BY <1>2 DEF TablesOK, RolesOK
  <2>2. \A u \in Tids : \A q \in Pids : Works(u, q)' <=> Works(u, q) \/ (u = t /\ q = p)
    BY <1>0, <1>3, <1>5 DEF Works, Self, Creating
  <2>3. Self(t)' # p
    BY <1>0, <1>3, <2>1 DEF Works, Self
  <2>4. \A u \in Tids : u # Startup /\ pc'[u] \in Creating => Self(u)' # loc'[u].pid
    BY <1>3, <1>5, <2>3 DEF TablesOK, RolesOK, Self
  <2>5. \A q \in Pids : pcb'[q].state = "RUNNING" <=> pcb[q].state = "RUNNING" \/ q = p
    BY <1>2, <1>5
  <2>6. \A q \in Pids : pcb'[q].state = "RUNNING" /\ q \notin lost' => \E u \in Tids : Works(u, q)'
    BY <1>3, <2>2, <2>5 DEF TablesOK, RolesOK
  <2>7. \A q \in Pids : \A u \in Tids : Works(u, q)' => pcb'[q].state = "RUNNING" /\ q \notin lost'
    BY <1>3, <2>1, <2>2, <2>5 DEF TablesOK, RolesOK
  <2>8. \A q \in Pids : \A u, v \in Tids : Works(u, q)' /\ Works(v, q)' => u = v
    BY <2>1, <2>2 DEF TablesOK, RolesOK
  <2>9. \A q \in lost' : pcb'[q].state = "RUNNING"
    BY <1>3, <2>5 DEF TablesOK, RolesOK, TypeOK
  <2> QED BY <2>4, <2>6, <2>7, <2>8, <2>9 DEF RolesOK
<1> QED BY <1>4, <1>6, <1>7 DEF TablesOK

(* What setting the parent of a slot does to the table. *)
LEMMA ParentSet ==
    ASSUME TypeOK, NEW p \in Pids, NEW q \in Pids \union {NoPid}, pcb' = [pcb EXCEPT ![p].parent = q]
    PROVE  /\ pcb'[p].parent = q
           /\ \A r \in Pids : pcb'[r].state = pcb[r].state /\ (r # p => pcb'[r] = pcb[r])
           /\ pcb' \in [Pids -> [state : {"FREE", "RUNNING", "ZOMBIE"}, parent : Pids \union {NoPid}]]
BY DEF TypeOK

(* Setting the parent keeps the tables. *)
LEMMA SetParentKeeps ==
    ASSUME TablesOK, NEW t \in Tids, SpawnSet(t) \/ ForkSet(t)
    PROVE  TablesOK'
<1>0. /\ t # Startup /\ Self(t) \in Pids /\ pc[t] \in {"spawn_set", "fork_set"} /\ halted = ""
      /\ loc[t].pid \in Pids
  BY Mover DEF SpawnSet, ForkSet, At, Creating
<1>1. /\ pcb' = [pcb EXCEPT ![loc[t].pid].parent = Self(t)]
      /\ \E label \in {"spawn_create", "fork_create"} : pc' = [pc EXCEPT ![t] = label]
      /\ UNCHANGED <<thread, next_tid, files, signalled, halted, kids, lost>>
  BY DEF SpawnSet, ForkSet, SetParent, Goto
<1>2. /\ pc'[t] \in {"spawn_create", "fork_create"} /\ \A u \in Tids : u # t => pc'[u] = pc[u]
      /\ pc' \in [Tids -> Labels]
      /\ \A q \in Pids : pcb'[q].state = pcb[q].state
      /\ pcb' \in [Pids -> [state : {"FREE", "RUNNING", "ZOMBIE"}, parent : Pids \union {NoPid}]]
  <2>1. PICK label \in {"spawn_create", "fork_create"} : pc' = [pc EXCEPT ![t] = label]
    BY <1>1
  <2>2. label \in Labels
    BY DEF Labels
  <2>3. pc \in [Tids -> Labels]
    BY DEF TablesOK, TypeOK
  <2>4. /\ pc'[t] \in {"spawn_create", "fork_create"} /\ \A u \in Tids : u # t => pc'[u] = pc[u]
        /\ pc' \in [Tids -> Labels]
    BY <2>1, <2>2, <2>3
  <2>5. /\ \A q \in Pids : pcb'[q].state = pcb[q].state
        /\ pcb' \in [Pids -> [state : {"FREE", "RUNNING", "ZOMBIE"}, parent : Pids \union {NoPid}]]
    BY <1>0, <1>1, ParentSet DEF TablesOK
  <2> QED BY <2>4, <2>5
<1>a. /\ \A u \in Tids : loc'[u].pid = loc[u].pid
      /\ loc' \in [Tids -> [pid : Pids \union {NoPid}, null : BOOLEAN]]
  <2>1. CASE SpawnSet(t)
    BY <2>1 DEF SpawnSet, TablesOK, TypeOK
  <2>2. CASE ForkSet(t)
    <3>1. PICK b \in BOOLEAN : loc' = [loc EXCEPT ![t].null = b]
      <4>1. (sems = MaxSems) \in BOOLEAN
        OBVIOUS
      <4> QED BY <2>2, <4>1, Zenon DEF ForkSet
    <3> QED BY <3>1 DEF TablesOK, TypeOK
  <2> QED BY <2>1, <2>2
<1>b. sems' \in 0 .. MaxSems
  <2>1. CASE SpawnSet(t)
    BY <2>1 DEF SpawnSet, TablesOK, TypeOK
  <2>2. CASE ForkSet(t)
    <3>1. sems' = IF sems < MaxSems THEN sems + 1 ELSE sems
      BY <2>2 DEF ForkSet
    <3> QED BY <3>1, BoundsAssumption DEF TablesOK, TypeOK
  <2> QED BY <2>1, <2>2
<1>3. TypeOK'
  BY <1>1, <1>2, <1>a, <1>b DEF TablesOK, TypeOK
<1>4. ThreadsOK'
  <2>1. ThreadOK(t)'
    <3>1. /\ thread'[t] = thread[t] /\ loc'[t].pid = loc[t].pid /\ loc[t].pid # NoPid
          /\ Self(t) # NoPid /\ thread[t].state = "LIVE"
      BY <1>0, <1>1, <1>a, Pids_NoPid, Mover
    <3> QED BY <1>0, <1>2, <3>1 DEF ThreadOK, Self, Creating
  <2> QED BY <1>1, <1>2, <1>a, <2>1, OthersThreadOK DEF TablesOK
<1>5. \A u \in Tids : \A q \in Pids : Works(u, q)' <=> Works(u, q)
  BY <1>0, <1>1, <1>2, <1>a DEF Works, Self, Creating
<1>6. \A u \in Tids : u # Startup /\ pc'[u] \in Creating => thread'[u].process_id # loc'[u].pid
  <2>1. Self(t) # loc[t].pid
    BY <1>0 DEF TablesOK, RolesOK, Creating
  <2> QED BY <1>0, <1>1, <1>2, <1>a, <2>1, ZenonT(30) DEF TablesOK, RolesOK, Self
<1>7. RolesOK'
  BY <1>1, <1>2, <1>5, <1>6, SameRoles DEF TablesOK
<1> QED BY <1>3, <1>4, <1>7 DEF TablesOK

(* Panic changes nothing but halted. *)
LEMMA PanicKeeps ==
    ASSUME TablesOK, NEW cause, cause # "", Panic(cause)
    PROVE  TablesOK'
<1>1. /\ UNCHANGED <<pcb, thread, next_tid, sems, files, pc, loc, signalled, kids, lost>>
      /\ halted' # ""
  BY DEF Panic
<1>2. TypeOK'
  BY <1>1 DEF TablesOK, TypeOK
<1>3. ThreadsOK'
  BY <1>1 DEF TablesOK, ThreadsOK, ThreadOK, Self
<1>4. RolesOK'
  <2>1. \A u \in Tids : \A q \in Pids : Works(u, q)' <=> Works(u, q)
    BY <1>1 DEF Works, Self
  <2>2. \A u \in Tids : u # Startup /\ pc'[u] \in Creating => thread'[u].process_id # loc'[u].pid
    BY <1>1 DEF TablesOK, RolesOK, Self
  <2> QED BY <1>1, <2>1, <2>2, SameRoles DEF TablesOK
<1> QED BY <1>2, <1>3, <1>4 DEF TablesOK

(* The thread table is full: the process is lost. *)
LEMMA CreateFails ==
    ASSUME TablesOK, NEW t \in Tids, pc[t] \in {"spawn_create", "fork_create"}, halted = "",
           lost' = lost \union {loc[t].pid}, loc' = [loc EXCEPT ![t] = NoLocals], Goto(t, "run"),
           UNCHANGED <<thread, next_tid, signalled, kids, pcb, sems, files, halted>>
    PROVE  TablesOK'
<1>0. t # Startup /\ Self(t) \in Pids /\ loc[t].pid \in Pids /\ thread[t].state = "LIVE"
  BY Mover DEF Creating
<1>1. /\ pc'[t] = "run" /\ \A u \in Tids : u # t => pc'[u] = pc[u]
      /\ loc'[t].pid = NoPid /\ \A u \in Tids : u # t => loc'[u] = loc[u]
      /\ pc' \in [Tids -> Labels]
      /\ loc' \in [Tids -> [pid : Pids \union {NoPid}, null : BOOLEAN]]
  BY DEF TablesOK, TypeOK, Goto, Labels, NoLocals
<1>2. TypeOK'
  BY <1>0, <1>1 DEF TablesOK, TypeOK
<1>3. ThreadsOK'
  <2>1. ThreadOK(t)'
    BY <1>0, <1>1, Pids_NoPid DEF ThreadOK, Self, Creating
  <2> QED BY <1>1, <2>1, OthersThreadOK DEF TablesOK
<1>4. RolesOK'
  <2>1. Works(t, loc[t].pid) /\ Self(t) # loc[t].pid
    BY <1>0 DEF Works, TablesOK, RolesOK, Creating
  <2>2. \A u \in Tids : \A q \in Pids : Works(u, q)' <=> Works(u, q) /\ ~(u = t /\ q = loc[t].pid)
    BY <1>0, <1>1, <2>1 DEF Works, Self, Creating
  <2>3. \A u \in Tids : u # Startup /\ pc'[u] \in Creating => Self(u)' # loc'[u].pid
    BY <1>1 DEF TablesOK, RolesOK, Self, Creating
  <2>4. \A q \in Pids : pcb'[q].state = "RUNNING" /\ q \notin lost' => \E u \in Tids : Works(u, q)'
    BY <2>2 DEF TablesOK, RolesOK
  <2>5. ASSUME NEW q \in Pids, NEW u \in Tids, Works(u, q)'
        PROVE  pcb'[q].state = "RUNNING" /\ q \notin lost'
    <3>1. Works(u, q) /\ ~(u = t /\ q = loc[t].pid)
      BY <2>2, <2>5
    <3>2. Works(t, q) => u = t
      BY <3>1 DEF TablesOK, RolesOK
    <3>3. q # loc[t].pid
      BY <2>1, <3>1, <3>2
    <3> QED BY <3>1, <3>3 DEF TablesOK, RolesOK
  <2>6. \A q \in Pids : \A u, v \in Tids : Works(u, q)' /\ Works(v, q)' => u = v
    BY <2>2 DEF TablesOK, RolesOK
  <2>7. \A q \in lost' : pcb'[q].state = "RUNNING"
    BY <1>0, <2>1 DEF TablesOK, RolesOK
  <2> QED BY <2>3, <2>4, <2>5, <2>6, <2>7 DEF RolesOK
<1> QED BY <1>2, <1>3, <1>4 DEF TablesOK

(* The new thread takes over the process. *)
LEMMA CreateSucceeds ==
    ASSUME TablesOK, NEW t \in Tids, pc[t] \in {"spawn_create", "fork_create"}, halted = "",
           NEW u \in FreeTids, NEW label \in {"start", "setup"}, NEW after \in {"run", "fork_wait"},
           thread' = [thread EXCEPT ![u] = [state |-> "LIVE", process_id |-> NoPid, pagetable |-> FALSE]],
           next_tid' = NextTid(u),
           pc' = [pc EXCEPT ![u] = label, ![t] = after],
           loc' = [loc EXCEPT ![u] = loc[t], ![t] = IF after = "run" THEN NoLocals ELSE @],
           kids' = [kids EXCEPT ![u] = {}, ![t] = @ \union {loc[t].pid}],
           signalled' = [signalled EXCEPT ![t] = FALSE],
           UNCHANGED <<lost, pcb, sems, files, halted>>
    PROVE  TablesOK'
<1>0. t # Startup /\ Self(t) \in Pids /\ loc[t].pid \in Pids /\ thread[t].state = "LIVE"
  BY Mover DEF Creating
<1>a. u \in Tids /\ u # t /\ pc[u] = "none" /\ u # Startup /\ next_tid' \in 0 .. (MaxThreads - 1)
  BY TakenEntry
<1>1. /\ pc'[t] = after /\ pc'[u] = label /\ \A v \in Tids : v # t /\ v # u => pc'[v] = pc[v]
      /\ pc' \in [Tids -> Labels]
  BY <1>a DEF TablesOK, TypeOK, Labels
<1>2. /\ loc'[u] = loc[t] /\ \A v \in Tids : v # t /\ v # u => loc'[v] = loc[v]
      /\ after = "run" => loc'[t].pid = NoPid
      /\ after = "fork_wait" => loc'[t] = loc[t]
      /\ loc' \in [Tids -> [pid : Pids \union {NoPid}, null : BOOLEAN]]
  <2>1. CASE after = "run"
    BY <1>a, <2>1 DEF TablesOK, TypeOK, NoLocals
  <2>2. CASE after = "fork_wait"
    BY <1>a, <2>2 DEF TablesOK, TypeOK
  <2> QED BY <2>1, <2>2
<1>3. /\ thread'[u].state = "LIVE" /\ thread'[u].process_id = NoPid
      /\ \A v \in Tids : v # u => thread'[v] = thread[v]
      /\ thread' \in [Tids -> [state : {"FREE", "LIVE", "DYING"}, process_id : Pids \union {NoPid},
                               pagetable : BOOLEAN]]
  BY <1>a DEF TablesOK, TypeOK
<1>b. kids' \in [Tids -> SUBSET Pids] /\ signalled' \in [Tids -> BOOLEAN]
  BY <1>0, <1>a DEF TablesOK, TypeOK
<1>4. TypeOK'
  BY <1>a, <1>1, <1>2, <1>3, <1>b DEF TablesOK, TypeOK
<1>5. ThreadsOK'
  <2>1. ThreadOK(t)'
    BY <1>0, <1>a, <1>1, <1>2, <1>3, Pids_NoPid DEF ThreadOK, Self, Creating
  <2>2. ThreadOK(u)'
    BY <1>0, <1>a, <1>1, <1>2, <1>3, Pids_NoPid DEF ThreadOK, Self, Creating
  <2>3. ASSUME NEW v \in Tids, v # t, v # u PROVE ThreadOK(v)'
    BY <1>1, <1>2, <1>3, <2>3, ZenonT(30) DEF TablesOK, ThreadsOK, ThreadOK, Self
  <2> QED BY <2>1, <2>2, <2>3 DEF ThreadsOK
<1>6. RolesOK'
  <2>1. Works(t, loc[t].pid) /\ Self(t) # loc[t].pid
    BY <1>0 DEF Works, TablesOK, RolesOK, Creating
  <2>2. \A q \in Pids : Works(u, q)' <=> q = loc[t].pid
    BY <1>a, <1>1, <1>2, <1>3 DEF Works, Self, Creating
  <2>3. \A q \in Pids : Works(t, q)' <=> Works(t, q) /\ q # loc[t].pid
    BY <1>0, <1>a, <1>1, <1>2, <1>3, <2>1 DEF Works, Self, Creating
  <2>4. \A q \in Pids : \A v \in Tids : v # t /\ v # u => (Works(v, q)' <=> Works(v, q))
    BY <1>1, <1>2, <1>3 DEF Works, Self
  <2>5. \A q \in Pids : ~Works(u, q)
    BY <1>a DEF Works, Creating
  <2>6. \A v \in Tids : v # Startup /\ pc'[v] \in Creating => Self(v)' # loc'[v].pid
    BY <1>1, <1>2, <1>3, ZenonT(30) DEF TablesOK, RolesOK, Self, Creating
  <2>7. ASSUME NEW q \in Pids, pcb'[q].state = "RUNNING", q \notin lost'
        PROVE  \E v \in Tids : Works(v, q)'
    <3>1. PICK v \in Tids : Works(v, q)
      BY <2>7 DEF TablesOK, RolesOK
    <3>2. CASE q = loc[t].pid
      BY <1>a, <2>2, <3>2
    <3>3. CASE q # loc[t].pid
      BY <2>3, <2>4, <2>5, <3>1, <3>3
    <3> QED BY <3>2, <3>3
  <2>8. ASSUME NEW q \in Pids, NEW v \in Tids, Works(v, q)'
        PROVE  pcb'[q].state = "RUNNING" /\ q \notin lost'
    <3>1. \E w \in Tids : Works(w, q)
      BY <2>1, <2>2, <2>3, <2>4, <2>8
    <3> QED BY <3>1 DEF TablesOK, RolesOK
  <2>9. ASSUME NEW q \in Pids, NEW v \in Tids, NEW w \in Tids, Works(v, q)', Works(w, q)'
        PROVE  v = w
    <3>1. CASE q = loc[t].pid
      <4>1. \A x \in Tids : Works(x, q) => x = t
        BY <2>1, <3>1 DEF TablesOK, RolesOK
      <4> QED BY <2>3, <2>4, <2>9, <3>1, <4>1
    <3>2. CASE q # loc[t].pid
      <4>1. Works(v, q) /\ Works(w, q)
        BY <2>2, <2>3, <2>4, <2>9, <3>2
      <4> QED BY <4>1 DEF TablesOK, RolesOK
    <3> QED BY <3>1, <3>2
  <2>10. \A q \in lost' : pcb'[q].state = "RUNNING"
    BY DEF TablesOK, RolesOK
  <2> QED BY <2>6, <2>7, <2>8, <2>9, <2>10 DEF RolesOK
<1> QED BY <1>4, <1>5, <1>6 DEF TablesOK

(* thread_create hands the slot to the new thread, or the slot is lost. *)
LEMMA CreateKeeps ==
    ASSUME TablesOK, NEW t \in Tids, SpawnCreate(t) \/ ForkCreate(t)
    PROVE  TablesOK'
<1>0. /\ pc[t] \in {"spawn_create", "fork_create"} /\ halted = ""
      /\ UNCHANGED <<pcb, sems, files, halted>>
  BY DEF SpawnCreate, ForkCreate, At
<1>1. PICK label \in {"start", "setup"}, after \in {"run", "fork_wait"} : ThreadCreate(t, label, after)
  BY DEF SpawnCreate, ForkCreate
<1>2. CASE FreeTids = {}
  <2>1. /\ lost' = lost \union {loc[t].pid} /\ loc' = [loc EXCEPT ![t] = NoLocals] /\ Goto(t, "run")
        /\ UNCHANGED <<thread, next_tid, signalled, kids>>
    BY <1>1, <1>2 DEF ThreadCreate
  <2> QED BY <1>0, <2>1, CreateFails
<1>3. CASE FreeTids # {}
  BY <1>0, <1>1, <1>3, CreateSucceeds DEF ThreadCreate
<1> QED BY <1>2, <1>3

(* Two fields of a thread are stored. *)
LEMMA ThreadStored ==
    ASSUME TypeOK, NEW t \in Tids, NEW pid \in Pids \union {NoPid}, NEW set \in BOOLEAN,
           \/ thread' = [thread EXCEPT ![t].process_id = pid, ![t].pagetable = set]
           \/ pid = thread[t].process_id /\ thread' = [thread EXCEPT ![t].state = "DYING", ![t].pagetable = set]
    PROVE  /\ thread'[t].process_id = pid
           /\ \A u \in Tids : u # t => thread'[u] = thread[u]
           /\ thread' \in [Tids -> [state : {"FREE", "LIVE", "DYING"}, process_id : Pids \union {NoPid}, pagetable : BOOLEAN]]
<1>1. CASE thread' = [thread EXCEPT ![t].process_id = pid, ![t].pagetable = set]
  <2> DEFINE first == [thread EXCEPT ![t].process_id = pid]
  <2>1. /\ first[t].process_id = pid
        /\ \A u \in Tids : u # t => first[u] = thread[u]
        /\ first \in [Tids -> [state : {"FREE", "LIVE", "DYING"}, process_id : Pids \union {NoPid}, pagetable : BOOLEAN]]
    BY DEF TypeOK
  <2>2. thread' = [first EXCEPT ![t].pagetable = set]
    BY <1>1 DEF TypeOK
  <2> HIDE DEF first
  <2> QED BY <2>1, <2>2
<1>2. CASE thread' # [thread EXCEPT ![t].process_id = pid, ![t].pagetable = set]
  <2> DEFINE first == [thread EXCEPT ![t].state = "DYING"]
  <2>1. /\ first[t].process_id = pid
        /\ \A u \in Tids : u # t => first[u] = thread[u]
        /\ first \in [Tids -> [state : {"FREE", "LIVE", "DYING"}, process_id : Pids \union {NoPid}, pagetable : BOOLEAN]]
    BY <1>2, SMTT(20) DEF TypeOK
  <2>2. thread' = [first EXCEPT ![t].pagetable = set]
    BY <1>2 DEF TypeOK
  <2> HIDE DEF first
  <2> QED BY <2>1, <2>2
<1> QED BY <1>1, <1>2

(* A new thread takes its process: what it works on stays the same. *)
LEMMA StartKeeps ==
    ASSUME TablesOK, NEW t \in Tids, process_start(t) \/ SetupStart(t)
    PROVE  TablesOK'
<1>0. /\ pc[t] \in {"start", "setup"} /\ halted = "" /\ thread[t].state = "LIVE"
      /\ t # Startup /\ loc[t].pid \in Pids
  BY Mover DEF process_start, SetupStart, At
<1>1. CASE process_start(t) /\ files = MaxOpenFiles
  BY <1>1, PanicKeeps DEF process_start
<1>2. CASE ~(process_start(t) /\ files = MaxOpenFiles)
  <2>1. /\ thread' = [thread EXCEPT ![t].process_id = loc[t].pid, ![t].pagetable = TRUE]
        /\ UNCHANGED <<pcb, next_tid, sems, signalled, halted, kids, lost>>
    BY <1>2 DEF process_start, SetupStart, Associate, Associated
  <2>2. \/ pc' = [pc EXCEPT ![t] = "run"] /\ loc' = [loc EXCEPT ![t] = NoLocals]
        \/ pc' = [pc EXCEPT ![t] = "copy"] /\ loc' = loc
    BY <1>2 DEF process_start, SetupStart, Goto
  <2>3. /\ pc'[t] \in {"run", "copy"} /\ \A u \in Tids : u # t => pc'[u] = pc[u]
        /\ pc' \in [Tids -> Labels]
        /\ pc'[t] = "run" => loc'[t].pid = NoPid
        /\ pc'[t] = "copy" => loc'[t].pid = loc[t].pid
        /\ \A u \in Tids : u # t => loc'[u] = loc[u]
        /\ loc' \in [Tids -> [pid : Pids \union {NoPid}, null : BOOLEAN]]
    <3>1. CASE pc' = [pc EXCEPT ![t] = "run"] /\ loc' = [loc EXCEPT ![t] = NoLocals]
      BY <3>1 DEF TablesOK, TypeOK, Labels, NoLocals
    <3>2. CASE pc' = [pc EXCEPT ![t] = "copy"] /\ loc' = loc
      BY <3>2 DEF TablesOK, TypeOK, Labels
    <3> QED BY <2>2, <3>1, <3>2
  <2>4. /\ thread'[t].process_id = loc[t].pid /\ thread'[t].state = "LIVE"
        /\ \A u \in Tids : u # t => thread'[u] = thread[u]
        /\ thread' \in [Tids -> [state : {"FREE", "LIVE", "DYING"}, process_id : Pids \union {NoPid},
                                 pagetable : BOOLEAN]]
    <3>1. PICK p \in Pids : p = loc[t].pid
      BY <1>0
    <3>2. thread' = [thread EXCEPT ![t].process_id = p, ![t].pagetable = TRUE]
      BY <2>1, <3>1
    <3>3. thread'[t].state = thread[t].state
      BY <3>2 DEF TablesOK, TypeOK
    <3>4. /\ thread'[t].process_id = p /\ \A u \in Tids : u # t => thread'[u] = thread[u]
          /\ thread' \in [Tids -> [state : {"FREE", "LIVE", "DYING"}, process_id : Pids \union {NoPid},
                                   pagetable : BOOLEAN]]
      BY <3>2, ThreadStored DEF TablesOK
    <3> QED BY <1>0, <3>1, <3>3, <3>4
  <2>5. files' \in 0 .. MaxOpenFiles
    <3>1. CASE process_start(t)
      <4>1. files' = files + 1 /\ files # MaxOpenFiles
        BY <1>2, <3>1 DEF process_start
      <4> QED BY <4>1, BoundsAssumption DEF TablesOK, TypeOK
    <3>2. CASE SetupStart(t)
      BY <3>2 DEF SetupStart, TablesOK, TypeOK
    <3> QED BY <3>1, <3>2
  <2>6. TypeOK'
    BY <2>1, <2>3, <2>4, <2>5 DEF TablesOK, TypeOK
  <2>7. ThreadsOK'
    <3>1. ThreadOK(t)'
      BY <1>0, <2>3, <2>4, Pids_NoPid DEF ThreadOK, Self, Creating
    <3> QED BY <2>1, <2>3, <2>4, <3>1, OthersThreadOK DEF TablesOK
  <2>8. \A u \in Tids : \A q \in Pids : Works(u, q)' <=> Works(u, q)
    <3>1. \A q \in Pids : Works(t, q)' <=> q = loc[t].pid
      BY <1>0, <2>3, <2>4 DEF Works, Self, Creating
    <3>2. \A q \in Pids : Works(t, q) <=> q = loc[t].pid
      BY <1>0 DEF Works, Creating
    <3>3. \A u \in Tids : u # t => \A q \in Pids : Works(u, q)' <=> Works(u, q)
      BY <2>3, <2>4 DEF Works, Self
    <3> QED BY <3>1, <3>2, <3>3
  <2>9. \A u \in Tids : u # Startup /\ pc'[u] \in Creating => thread'[u].process_id # loc'[u].pid
    BY <2>3, <2>4 DEF TablesOK, RolesOK, Self, Creating
  <2>10. RolesOK'
    BY <2>1, <2>8, <2>9, SameRoles DEF TablesOK
  <2> QED BY <2>6, <2>7, <2>10 DEF TablesOK
<1> QED BY <1>1, <1>2

(* A thread goes back to its program. *)
LEMMA ReturnKeeps ==
    ASSUME TablesOK, NEW t \in Tids, pc[t] \in {"fork_wait", "copy"}, halted = "",
           loc' = [loc EXCEPT ![t] = NoLocals], Goto(t, "run"), signalled' \in [Tids -> BOOLEAN],
           UNCHANGED <<pcb, thread, next_tid, sems, files, halted, kids, lost>>
    PROVE  TablesOK'
<1>0. thread[t].state = "LIVE" /\ t # Startup /\ Self(t) \in Pids
  BY Mover
<1>1. /\ pc'[t] = "run" /\ \A u \in Tids : u # t => pc'[u] = pc[u]
      /\ loc'[t].pid = NoPid /\ \A u \in Tids : u # t => loc'[u] = loc[u]
      /\ pc' \in [Tids -> Labels]
      /\ loc' \in [Tids -> [pid : Pids \union {NoPid}, null : BOOLEAN]]
  BY DEF TablesOK, TypeOK, Goto, Labels, NoLocals
<1>2. TypeOK'
  BY <1>1 DEF TablesOK, TypeOK
<1>3. ThreadsOK'
  <2>1. ThreadOK(t)'
    BY <1>0, <1>1, Pids_NoPid DEF ThreadOK, Self, Creating
  <2> QED BY <1>1, <2>1, OthersThreadOK DEF TablesOK
<1>4. \A u \in Tids : \A q \in Pids : Works(u, q)' <=> Works(u, q)
  BY <1>0, <1>1 DEF Works, Self, Creating
<1>5. \A u \in Tids : u # Startup /\ pc'[u] \in Creating => thread'[u].process_id # loc'[u].pid
  BY <1>1 DEF TablesOK, RolesOK, Self, Creating
<1>6. RolesOK'
  BY <1>4, <1>5, SameRoles DEF TablesOK
<1> QED BY <1>2, <1>3, <1>6 DEF TablesOK

(* The child copies and raises the semaphore; the parent then returns from fork. *)
LEMMA ForkReturnKeeps ==
    ASSUME TablesOK, NEW t \in Tids, ForkWait(t) \/ SetupCopy(t)
    PROVE  TablesOK'
<1>0. pc[t] \in {"fork_wait", "copy"} /\ halted = ""
  BY DEF ForkWait, SetupCopy, At
<1>1. CASE \E cause \in {"no semaphore", "no page table"} : Panic(cause)
  BY <1>1, PanicKeeps
<1>2. CASE ~\E cause \in {"no semaphore", "no page table"} : Panic(cause)
  <2>1. /\ loc' = [loc EXCEPT ![t] = NoLocals] /\ Goto(t, "run")
        /\ signalled' = signalled \/ signalled' = Raised(t)
        /\ UNCHANGED <<pcb, thread, next_tid, sems, files, halted, kids, lost>>
    BY <1>2 DEF ForkWait, SetupCopy
  <2>2. Raised(t) \in [Tids -> BOOLEAN]
    BY DEF Raised, TablesOK, TypeOK
  <2>3. signalled' \in [Tids -> BOOLEAN]
    BY <2>1, <2>2 DEF TablesOK, TypeOK
  <2> QED BY <1>0, <2>1, <2>3, ReturnKeeps
<1> QED BY <1>1, <1>2

(* process_finish gives up the slot and the page table before the thread ends. *)
LEMMA FinishKeeps ==
    ASSUME TablesOK, NEW t \in Tids, process_finish(t)
    PROVE  TablesOK'
<1>0. pc[t] = "run" /\ halted = "" /\ thread[t].state = "LIVE" /\ t # Startup /\ Self(t) \in Pids
  BY Mover DEF process_finish, At
<1> DEFINE p == Self(t)
<1>1. /\ pcb' = Finished(p)
      /\ thread' = [thread EXCEPT ![t].state = "DYING", ![t].pagetable = FALSE]
      /\ kids' = [kids EXCEPT ![t] = {}] /\ pc' = [pc EXCEPT ![t] = "none"]
      /\ UNCHANGED <<next_tid, sems, files, loc, signalled, halted, lost>>
  BY DEF process_finish, Goto
<1> HIDE DEF p
<1>2. /\ pcb'[p].state = "ZOMBIE" /\ \A q \in Pids : q # p => pcb'[q].state = pcb[q].state
      /\ pcb' \in [Pids -> [state : {"FREE", "RUNNING", "ZOMBIE"}, parent : Pids \union {NoPid}]]
  BY <1>0, <1>1 DEF TablesOK, TypeOK, Finished, p
<1>3. /\ pc'[t] = "none" /\ \A u \in Tids : u # t => pc'[u] = pc[u]
      /\ thread'[t].state = "DYING" /\ thread'[t].process_id = thread[t].process_id
      /\ \A u \in Tids : u # t => thread'[u] = thread[u]
      /\ pc' \in [Tids -> Labels]
      /\ thread' \in [Tids -> [state : {"FREE", "LIVE", "DYING"}, process_id : Pids \union {NoPid},
                               pagetable : BOOLEAN]]
  <2>1. /\ pc'[t] = "none" /\ \A u \in Tids : u # t => pc'[u] = pc[u]
        /\ pc' \in [Tids -> Labels]
    BY <1>1 DEF TablesOK, TypeOK, Labels
  <2>2. PICK q \in Pids : q = thread[t].process_id
    BY <1>0 DEF Self
  <2>3. /\ thread'[t].process_id = q /\ \A u \in Tids : u # t => thread'[u] = thread[u]
        /\ thread' \in [Tids -> [state : {"FREE", "LIVE", "DYING"}, process_id : Pids \union {NoPid},
                                 pagetable : BOOLEAN]]
    BY <1>1, <2>2, ThreadStored DEF TablesOK
  <2>4. thread'[t].state = "DYING"
    BY <1>1 DEF TablesOK, TypeOK
  <2> QED BY <2>1, <2>2, <2>3, <2>4
<1>4. TypeOK'
  BY <1>1, <1>2, <1>3 DEF TablesOK, TypeOK
<1>5. ThreadsOK'
  <2>1. ThreadOK(t)'
    BY <1>0, <1>3 DEF ThreadOK, Self, Creating
  <2> QED BY <1>1, <1>3, <2>1, OthersThreadOK DEF TablesOK
<1>6. RolesOK'
  <2>1. Works(t, p)
    BY <1>0 DEF Works, p
  <2>2. p \in Pids /\ p \notin lost /\ \A u \in Tids : Works(u, p) => u = t
    BY <1>0, <2>1 DEF TablesOK, RolesOK, p
  <2>3. \A u \in Tids : \A q \in Pids : Works(u, q)' <=> Works(u, q) /\ q # p
    <3>1. \A q \in Pids : ~Works(t, q)' /\ (Works(t, q) => q = p)
      BY <1>0, <1>3 DEF Works, Creating, p
    <3>2. \A u \in Tids : u # t => \A q \in Pids : Works(u, q)' <=> Works(u, q)
      BY <1>1, <1>3 DEF Works, Self
    <3> QED BY <2>2, <3>1, <3>2
  <2>4. \A u \in Tids : u # Startup /\ pc'[u] \in Creating => Self(u)' # loc'[u].pid
    BY <1>1, <1>3 DEF TablesOK, RolesOK, Self, Creating
  <2>5. \A q \in Pids : pcb'[q].state = "RUNNING" <=> pcb[q].state = "RUNNING" /\ q # p
    BY <1>2, <2>2
  <2>6. \A q \in Pids : pcb'[q].state = "RUNNING" /\ q \notin lost' => \E u \in Tids : Works(u, q)'
    BY <1>1, <2>3, <2>5 DEF TablesOK, RolesOK
  <2>7. \A q \in Pids : \A u \in Tids : Works(u, q)' => pcb'[q].state = "RUNNING" /\ q \notin lost'
    BY <1>1, <2>3, <2>5 DEF TablesOK, RolesOK
  <2>8. \A q \in Pids : \A u, v \in Tids : Works(u, q)' /\ Works(v, q)' => u = v
    BY <2>3 DEF TablesOK, RolesOK
  <2>9. \A q \in lost' : pcb'[q].state = "RUNNING"
    BY <1>1, <2>2, <2>5 DEF TablesOK, RolesOK, TypeOK
  <2> QED BY <2>4, <2>6, <2>7, <2>8, <2>9 DEF RolesOK
<1> QED BY <1>4, <1>5, <1>6 DEF TablesOK

(* A finished thread entry is free when its thread is off the CPU. *)
LEMMA FreedKeeps ==
    ASSUME TablesOK, NEW t \in Tids, ThreadFreed(t)
    PROVE  TablesOK'
<1>0. /\ thread[t].state = "DYING" /\ halted = ""
      /\ thread' = [thread EXCEPT ![t].state = "FREE"]
      /\ UNCHANGED <<pcb, next_tid, sems, files, pc, loc, signalled, halted, kids, lost>>
  BY DEF ThreadFreed
<1>1. /\ thread'[t].state = "FREE" /\ \A u \in Tids : thread'[u].process_id = thread[u].process_id
      /\ \A u \in Tids : u # t => thread'[u] = thread[u]
      /\ thread' \in [Tids -> [state : {"FREE", "LIVE", "DYING"}, process_id : Pids \union {NoPid},
                               pagetable : BOOLEAN]]
  <2>1. thread \in [Tids -> [state : {"FREE", "LIVE", "DYING"}, process_id : Pids \union {NoPid},
                             pagetable : BOOLEAN]]
    BY DEF TablesOK, TypeOK
  <2>2. [thread[t] EXCEPT !.state = "FREE"] \in [state : {"FREE", "LIVE", "DYING"},
                                                process_id : Pids \union {NoPid}, pagetable : BOOLEAN]
    BY <2>1
  <2>3. thread'[t] = [thread[t] EXCEPT !.state = "FREE"] /\ \A u \in Tids : u # t => thread'[u] = thread[u]
    BY <1>0, <2>1
  <2> QED BY <1>0, <2>1, <2>2, <2>3
<1>2. TypeOK'
  BY <1>0, <1>1 DEF TablesOK, TypeOK
<1>3. ThreadsOK'
  <2>1. ThreadOK(t) /\ pc[t] = "none"
    BY <1>0 DEF TablesOK, ThreadsOK, ThreadOK
  <2>2. ThreadOK(t)'
    BY <1>0, <1>1, <2>1 DEF ThreadOK, Self
  <2> QED BY <1>0, <1>1, <2>2, OthersThreadOK DEF TablesOK
<1>4. \A u \in Tids : \A q \in Pids : Works(u, q)' <=> Works(u, q)
  BY <1>0, <1>1 DEF Works, Self
<1>5. \A u \in Tids : u # Startup /\ pc'[u] \in Creating => thread'[u].process_id # loc'[u].pid
  <2>1. \A u \in Tids : u # Startup /\ pc[u] \in Creating => thread[u].process_id # loc[u].pid
    BY DEF TablesOK, RolesOK, Self
  <2> QED BY <1>0, <1>1, <2>1
<1>6. RolesOK'
  BY <1>0, <1>4, <1>5, SameRoles DEF TablesOK
<1> QED BY <1>2, <1>3, <1>6 DEF TablesOK

(* process_join refuses what is not a child, and sleeps or goes on. *)
LEMMA JoinCheckKeeps ==
    ASSUME TablesOK, NEW t \in Tids, JoinCheck(t)
    PROVE  TablesOK'
<1>0. pc[t] = "run" /\ halted = "" /\ thread[t].state = "LIVE" /\ t # Startup /\ Self(t) \in Pids
  BY Mover DEF JoinCheck, At
<1>1. PICK p \in Pids : loc' = [loc EXCEPT ![t].pid = p]
  BY DEF JoinCheck
<1>2. /\ pc' = [pc EXCEPT ![t] = "join"]
      /\ UNCHANGED <<pcb, thread, next_tid, sems, files, signalled, halted, kids, lost>>
  BY DEF JoinCheck, Goto
<1>3. /\ pc'[t] = "join" /\ \A u \in Tids : u # t => pc'[u] = pc[u]
      /\ loc'[t].pid = p /\ \A u \in Tids : u # t => loc'[u] = loc[u]
      /\ pc' \in [Tids -> Labels]
      /\ loc' \in [Tids -> [pid : Pids \union {NoPid}, null : BOOLEAN]]
  BY <1>1, <1>2, SMTT(20) DEF TablesOK, TypeOK, Labels
<1>4. TypeOK'
  BY <1>2, <1>3 DEF TablesOK, TypeOK
<1>5. ThreadsOK'
  <2>1. ThreadOK(t)'
    BY <1>0, <1>2, <1>3, Pids_NoPid DEF ThreadOK, Self, Creating
  <2> QED BY <1>2, <1>3, <2>1, OthersThreadOK DEF TablesOK
<1>6. \A u \in Tids : \A q \in Pids : Works(u, q)' <=> Works(u, q)
  BY <1>0, <1>2, <1>3 DEF Works, Self, Creating
<1>7. \A u \in Tids : u # Startup /\ pc'[u] \in Creating => thread'[u].process_id # loc'[u].pid
  BY <1>2, <1>3 DEF TablesOK, RolesOK, Self, Creating
<1>8. RolesOK'
  BY <1>2, <1>6, <1>7, SameRoles DEF TablesOK
<1> QED BY <1>4, <1>5, <1>8 DEF TablesOK

(* process_join frees a zombie, which no thread works for. *)
LEMMA JoinReapKeeps ==
    ASSUME TablesOK, NEW t \in Tids, JoinReap(t)
    PROVE  TablesOK'
<1>0. pc[t] = "join" /\ halted = "" /\ thread[t].state = "LIVE" /\ loc[t].pid \in Pids
  BY Mover DEF JoinReap, At
<1>1. PICK p \in Pids : p = loc[t].pid
  BY <1>0
<1>2. /\ pcb[p].state = "ZOMBIE"
      /\ pcb' = [pcb EXCEPT ![p] = [state |-> "FREE", parent |-> NoPid]]
      /\ kids' = [kids EXCEPT ![t] = @ \ {p}]
      /\ loc' = [loc EXCEPT ![t] = NoLocals]
      /\ pc' = [pc EXCEPT ![t] = "run"]
      /\ halted' = IF t = Startup THEN "halt" ELSE ""
      /\ UNCHANGED <<thread, next_tid, sems, files, signalled, lost>>
  BY <1>1 DEF JoinReap, Goto
<1>3. /\ pc'[t] = "run" /\ \A u \in Tids : u # t => pc'[u] = pc[u]
      /\ loc'[t].pid = NoPid /\ \A u \in Tids : u # t => loc'[u] = loc[u]
      /\ pc' \in [Tids -> Labels]
      /\ loc' \in [Tids -> [pid : Pids \union {NoPid}, null : BOOLEAN]]
  BY <1>2 DEF TablesOK, TypeOK, Labels, NoLocals
<1>4. /\ pcb'[p].state = "FREE" /\ \A q \in Pids : q # p => pcb'[q] = pcb[q]
      /\ pcb' \in [Pids -> [state : {"FREE", "RUNNING", "ZOMBIE"}, parent : Pids \union {NoPid}]]
      /\ kids' \in [Tids -> SUBSET Pids]
  BY <1>2 DEF TablesOK, TypeOK
<1>5. TypeOK'
  BY <1>2, <1>3, <1>4 DEF TablesOK, TypeOK
<1>6. ThreadsOK'
  <2>1. ThreadOK(t)
    BY DEF TablesOK, ThreadsOK
  <2>2. ThreadOK(t)'
    BY <1>0, <1>2, <1>3, <2>1 DEF ThreadOK, Self, Creating
  <2> QED BY <1>0, <1>2, <1>3, <2>2, OthersThreadOK DEF TablesOK
<1>7. \A u \in Tids : \A q \in Pids : Works(u, q)' <=> Works(u, q)
  BY <1>0, <1>2, <1>3 DEF Works, Self, Creating
<1>8. \A u \in Tids : u # Startup /\ pc'[u] \in Creating => thread'[u].process_id # loc'[u].pid
  BY <1>2, <1>3 DEF TablesOK, RolesOK, Self, Creating
<1>9. \A q \in Pids : pcb'[q].state = "RUNNING" <=> pcb[q].state = "RUNNING"
  BY <1>2, <1>4
<1>10. RolesOK'
  BY <1>2, <1>7, <1>8, <1>9, SameRoles DEF TablesOK
<1> QED BY <1>5, <1>6, <1>10 DEF TablesOK

(* Every step preserves the tables. *)
LEMMA TablesStep == TablesOK /\ [Next]_vars => TablesOK'
<1> SUFFICES ASSUME TablesOK, [Next]_vars PROVE TablesOK'
  OBVIOUS
<1>1. CASE UNCHANGED vars
  <2>1. UNCHANGED <<pcb, thread, next_tid, sems, files, pc, loc, signalled, halted, kids, lost>>
    BY <1>1 DEF vars
  <2>2. TypeOK' /\ ThreadsOK'
    BY <2>1 DEF TablesOK, TypeOK, ThreadsOK, ThreadOK, Self
  <2>3. \A u \in Tids : \A q \in Pids : Works(u, q)' <=> Works(u, q)
    BY <2>1 DEF Works, Self
  <2>4. \A u \in Tids : u # Startup /\ pc'[u] \in Creating => thread'[u].process_id # loc'[u].pid
    BY <2>1 DEF TablesOK, RolesOK, Self
  <2>5. RolesOK'
    BY <2>1, <2>3, <2>4, SameRoles DEF TablesOK
  <2> QED BY <2>2, <2>5 DEF TablesOK
<1>2. CASE \E t \in Tids : Step(t)
  <2>1. PICK t \in Tids : Step(t)
    BY <1>2
  <2>2. CASE \E label \in {"spawn_set", "fork_set"} : alloc_process_id(t, label)
    BY <2>2, AllocKeeps
  <2>3. CASE SpawnSet(t) \/ ForkSet(t)
    BY <2>3, SetParentKeeps
  <2>4. CASE SpawnCreate(t) \/ ForkCreate(t)
    BY <2>4, CreateKeeps
  <2>5. CASE process_start(t) \/ SetupStart(t)
    BY <2>5, StartKeeps
  <2>6. CASE ForkWait(t) \/ SetupCopy(t)
    BY <2>6, ForkReturnKeeps
  <2> QED BY <2>1, <2>2, <2>3, <2>4, <2>5, <2>6, FinishKeeps, FreedKeeps, JoinCheckKeeps, JoinReapKeeps
          DEF Step, process_spawn, process_fork, process_fork_setup, process_join
<1> QED BY <1>1, <1>2 DEF Next, Stopped

(* TablesOK is ProcessInv, put so that the provers can use it. *)
LEMMA TablesMeaning == TablesOK <=> ProcessInv
BY RolesOfThreads, ThreadsOfRoles DEF TablesOK, ProcessInv

(* Every process of the table has one thread, which runs it, is about to or  *)
(* is being made for it by one other process, whatever the sizes of the      *)
(* tables and whoever runs when: process_spawn, process_fork, process_finish *)
(* and process_join never leave a process with two threads or none, except   *)
(* the slots that were given up.                                             *)
THEOREM ProcessInvariant == Spec => []ProcessInv
<1>1. Spec => []TablesOK
  BY TablesInitial, TablesStep, PTL DEF Spec
<1> QED BY <1>1, TablesMeaning, PTL

----------------------------------------------------------------------------
(* A process is run by one thread, made by one, and has one thread that was  *)
(* told of it.                                                               *)
LEMMA OneRuns ==
    ASSUME TablesOK, NEW p \in Pids, NEW t \in Running(p), NEW u \in Running(p)
    PROVE  t = u
<1>1. t \in Tids /\ u \in Tids /\ Works(t, p) /\ Works(u, p)
  BY DEF Running, Works
<1> QED BY <1>1 DEF TablesOK, RolesOK

(* Two threads never create the same process. *)
LEMMA OneMakes ==
    ASSUME TablesOK, NEW t \in Tids, NEW u \in Tids, pc[t] \in Creating, pc[u] \in Creating,
           loc[t].pid = loc[u].pid, loc[t].pid \in Pids
    PROVE  t = u
<1>1. Works(t, loc[t].pid) /\ Works(u, loc[t].pid)
  BY DEF Works
<1> QED BY <1>1 DEF TablesOK, RolesOK

(* A pid was returned to one living thread only. *)
LEMMA OneTold ==
    ASSUME TablesOK, FamilyOK, NEW t \in Tids, NEW u \in Tids, NEW p \in kids[t], p \in kids[u]
    PROVE  t = u
<1>1. Self(t) = Self(u) /\ Self(t) \in Pids \union {NoPid}
  BY DEF FamilyOK, KidsStay, TablesOK, TypeOK, Self
<1>2. pc[t] \notin {"none", "start", "setup"} /\ pc[u] \notin {"none", "start", "setup"}
  BY DEF FamilyOK, MadeOnce
<1>3. ThreadOK(t) /\ ThreadOK(u)
  BY DEF TablesOK, ThreadsOK
<1>4. CASE Self(t) = NoPid
  BY <1>1, <1>2, <1>3, <1>4 DEF ThreadOK
<1>5. CASE Self(t) # NoPid
  <2>1. t \in Running(Self(t)) /\ u \in Running(Self(t))
    BY <1>1, <1>2, <1>3, <1>5 DEF ThreadOK, Running
  <2> QED BY <1>1, <1>5, <2>1, OneRuns
<1> QED BY <1>4, <1>5

(* Nobody has been given a pid at the beginning. *)
LEMMA FamilyInitial == Init => FamilyOK
<1> SUFFICES ASSUME Init PROVE FamilyOK
  OBVIOUS
<1>1. /\ 0 \in Pids /\ 1 \in Tids /\ 2 \in Tids
  BY BoundsAssumption DEF Pids, Tids
<1>2. pc = [t \in Tids |-> IF t = 1 THEN "join" ELSE IF t = 2 THEN "start" ELSE "none"]
  BY DEF Init
<1>3. /\ \A t \in Tids : pc[t] \in {"join", "start", "none"} /\ (pc[t] = "join" <=> t = 1)
      /\ \A t \in Tids : kids[t] = IF t = 1 THEN {0} ELSE {}
      /\ loc[1].pid = 0 /\ pcb[0].state = "RUNNING" /\ \A p \in Pids : pcb[p].parent = NoPid
      /\ \A t \in Tids : Self(t) = NoPid
  <2>1. \A t \in Tids : pc[t] \in {"join", "start", "none"} /\ (pc[t] = "join" <=> t = 1)
    BY <1>2
  <2>2. \A t \in Tids : kids[t] = IF t = 1 THEN {0} ELSE {}
    BY DEF Init, Startup
  <2>3. loc[1].pid = 0 /\ pcb[0].state = "RUNNING" /\ \A p \in Pids : pcb[p].parent = NoPid
    BY <1>1 DEF Init, NoLocals
  <2>4. \A t \in Tids : Self(t) = NoPid
    BY DEF Init, Self
  <2> QED BY <2>1, <2>2, <2>3, <2>4
<1>4. \A p \in Pids : ParentMadeIt(p)
  BY <1>3 DEF ParentMadeIt
<1>5. \A t \in Tids : KidsStay(t)
  BY <1>1, <1>3 DEF KidsStay
<1>6. \A t \in Tids : MadeOnce(t)
  BY <1>1, <1>3 DEF MadeOnce, Creating
<1> QED BY <1>4, <1>5, <1>6 DEF FamilyOK

(* A slot that is taken was given to nobody before. *)
LEMMA AllocFamily ==
    ASSUME TablesOK, FamilyOK, NEW t \in Tids, NEW label \in {"spawn_set", "fork_set"},
           alloc_process_id(t, label)
    PROVE  FamilyOK'
<1>0. t # Startup /\ Self(t) \in Pids /\ pc[t] = "run" /\ halted = "" /\ loc[t].pid = NoPid
  BY Mover DEF alloc_process_id, At, TablesOK, ThreadsOK, ThreadOK
<1>1. PICK p \in FreePids : pcb' = Allocated(p) /\ loc' = [loc EXCEPT ![t].pid = p]
  BY DEF alloc_process_id
<1>2. p \in Pids /\ pcb[p].state = "FREE"
  BY DEF FreePids
<1>3. /\ pc' = [pc EXCEPT ![t] = label]
      /\ UNCHANGED <<thread, next_tid, sems, files, signalled, halted, kids, lost>>
  BY DEF alloc_process_id, Goto
<1>4. /\ loc'[t].pid = p /\ \A u \in Tids : u # t => loc'[u] = loc[u]
      /\ pc'[t] = label /\ \A u \in Tids : u # t => pc'[u] = pc[u]
      /\ pcb'[p].state = "RUNNING" /\ pcb'[p].parent = pcb[p].parent
      /\ \A q \in Pids : q # p => pcb'[q] = pcb[q]
  BY <1>1, <1>2, <1>3 DEF TablesOK, TypeOK, Allocated
<1>5. pcb[p].parent = NoPid /\ \A u \in Tids : p \notin kids[u]
  BY <1>2 DEF FamilyOK, ParentMadeIt, KidsStay
<1>7. ASSUME NEW q \in Pids PROVE ParentMadeIt(q)'
  <2> SUFFICES ASSUME pcb'[q].parent # NoPid PROVE ParentMadeIt(q)'
    BY DEF ParentMadeIt
  <2>1. q # p /\ pcb'[q] = pcb[q] /\ ParentMadeIt(q)
    BY <1>4, <1>5 DEF FamilyOK
  <2>2. PICK u \in Running(pcb[q].parent) : q \in kids[u] \union lost \union {loc[u].pid}
    BY <2>1 DEF ParentMadeIt
  <2>3. u \in Running(pcb[q].parent)' /\ u \in Tids
    BY <1>0, <1>3, <1>4, <2>1, <2>2 DEF Running, Self
  <2>4. q \in kids'[u] \union lost' \union {loc'[u].pid}
    <3>1. CASE u = t
      BY <1>0, <1>3, <2>2, <3>1, Pids_NoPid
    <3>2. CASE u # t
      BY <1>3, <1>4, <2>2, <2>3, <3>2
    <3> QED BY <3>1, <3>2
  <2> QED BY <2>1, <2>3, <2>4 DEF ParentMadeIt
<1>8. ASSUME NEW u \in Tids PROVE KidsStay(u)'
  <2>1. KidsStay(u) /\ kids[u] \subseteq Pids
    BY DEF FamilyOK, TablesOK, TypeOK
  <2> QED BY <1>3, <1>4, <1>5, <2>1 DEF KidsStay, Self
<1>9. ASSUME NEW u \in Tids PROVE MadeOnce(u)'
  <2>1. CASE u = t
    BY <1>3, <1>4, <1>5, <2>1 DEF MadeOnce, Creating
  <2>2. CASE u # t
    <3>1. pc[u] \in Creating => loc[u].pid \in Pids /\ pcb[loc[u].pid].state = "RUNNING"
      <4>1. pc[u] \in Creating => loc[u].pid \in Pids /\ Works(u, loc[u].pid)
        BY <1>0, Mover DEF Works, Creating
      <4> QED BY <4>1 DEF TablesOK, RolesOK
    <3>2. pc[u] \in Creating => pcb'[loc[u].pid] = pcb[loc[u].pid]
      BY <1>2, <1>4, <3>1
    <3>3. MadeOnce(u)
      BY DEF FamilyOK
    <3> QED BY <1>3, <1>4, <2>2, <3>2, <3>3 DEF MadeOnce, Self, Creating
  <2> QED BY <2>1, <2>2
<1> QED BY <1>7, <1>8, <1>9 DEF FamilyOK

(* Thread t moves, stays in its process, and neither the process table nor   *)
(* what programs were told changes; a slot may be lost.                      *)
LEMMA QuietFamily ==
    ASSUME TablesOK, FamilyOK, NEW t \in Tids, pcb' = pcb, kids' = kids, lost \subseteq lost',
           \A u \in Tids : u # t => /\ pc'[u] = pc[u] /\ loc'[u].pid = loc[u].pid
                                    /\ thread'[u].process_id = thread[u].process_id,
           \A q \in Pids : t \in Running(q) => t \in Running(q)',
           \A q \in Pids : t \in Running(pcb[q].parent) /\ q = loc[t].pid =>
               q \in kids[t] \union lost' \union {loc'[t].pid} \/ pcb[q].parent = q,
           kids[t] = {} \/ thread'[t].process_id = thread[t].process_id,
           MadeOnce(t)'
    PROVE  FamilyOK'
<1>1. ASSUME NEW q \in Pids PROVE ParentMadeIt(q)'
  <2> SUFFICES ASSUME pcb[q].parent # NoPid PROVE ParentMadeIt(q)'
    BY DEF ParentMadeIt
  <2>1. ParentMadeIt(q) /\ pcb[q].parent \in Pids
    BY DEF FamilyOK, TablesOK, TypeOK
  <2>2. PICK u \in Running(pcb[q].parent) : q \in kids[u] \union lost \union {loc[u].pid}
    BY <2>1 DEF ParentMadeIt
  <2>3. u \in Tids
    BY <2>2 DEF Running
  <2>4. u \in Running(pcb[q].parent)'
    <3>1. CASE u = t
      BY <2>1, <2>2, <3>1
    <3>2. CASE u # t
      BY <2>2, <2>3, <3>2 DEF Running, Self
    <3> QED BY <3>1, <3>2
  <2>5. q \in kids'[u] \union lost' \union {loc'[u].pid}
    <3>1. CASE u = t
      BY <2>1, <2>2, <3>1 DEF ParentMadeIt
    <3>2. CASE u # t
      BY <2>2, <2>3, <3>2
    <3> QED BY <3>1, <3>2
  <2> QED BY <2>1, <2>4, <2>5 DEF ParentMadeIt
<1>2. ASSUME NEW u \in Tids PROVE KidsStay(u)'
  <2>1. KidsStay(u)
    BY DEF FamilyOK
  <2> QED BY <2>1 DEF KidsStay, Self
<1>3. ASSUME NEW u \in Tids, u # t PROVE MadeOnce(u)'
  <2>1. MadeOnce(u)
    BY DEF FamilyOK
  <2> QED BY <1>3, <2>1 DEF MadeOnce, Self
<1> QED BY <1>1, <1>2, <1>3 DEF FamilyOK

(* A step that changes no table keeps the families. *)
LEMMA PanicFamily ==
    ASSUME FamilyOK, UNCHANGED <<pcb, thread, pc, loc, kids, lost>>
    PROVE  FamilyOK'
<1>1. ASSUME NEW q \in Pids PROVE ParentMadeIt(q)'
  <2>1. ParentMadeIt(q)
    BY DEF FamilyOK
  <2>2. \A r : Running(r)' = Running(r)
    BY DEF Running, Self
  <2> QED BY <2>1, <2>2 DEF ParentMadeIt
<1>2. ASSUME NEW u \in Tids PROVE KidsStay(u)' /\ MadeOnce(u)'
  <2>1. KidsStay(u) /\ MadeOnce(u)
    BY DEF FamilyOK
  <2> QED BY <2>1 DEF KidsStay, MadeOnce, Self
<1> QED BY <1>1, <1>2 DEF FamilyOK

(* Without a thread entry the slot is lost and nobody learns its pid. *)
LEMMA CreateFailsFamily ==
    ASSUME TablesOK, FamilyOK, NEW t \in Tids, pc[t] \in {"spawn_create", "fork_create"}, halted = "",
           lost' = lost \union {loc[t].pid}, loc' = [loc EXCEPT ![t] = NoLocals], Goto(t, "run"),
           UNCHANGED <<thread, kids, pcb>>
    PROVE  FamilyOK'
<1>1. /\ pc'[t] = "run" /\ \A u \in Tids : u # t => pc'[u] = pc[u]
      /\ \A u \in Tids : u # t => loc'[u] = loc[u]
  BY DEF TablesOK, TypeOK, Goto
<1>2. MadeOnce(t)'
  BY <1>1 DEF MadeOnce, Creating
<1>3. \A q \in Pids : t \in Running(q) => t \in Running(q)'
  BY <1>1 DEF Running, Self
<1> QED BY <1>1, <1>2, <1>3, QuietFamily

(* The new thread takes over its process. *)
LEMMA StartFamily ==
    ASSUME TablesOK, FamilyOK, NEW t \in Tids, process_start(t) \/ SetupStart(t)
    PROVE  FamilyOK'
<1>0. pc[t] \in {"start", "setup"}
  BY DEF process_start, SetupStart, At
<1>1. CASE process_start(t) /\ files = MaxOpenFiles
  BY <1>1, PanicFamily DEF process_start, Panic
<1>2. CASE ~(process_start(t) /\ files = MaxOpenFiles)
  <2>1. /\ thread' = [thread EXCEPT ![t].process_id = loc[t].pid, ![t].pagetable = TRUE]
        /\ \/ pc' = [pc EXCEPT ![t] = "run"] /\ loc' = [loc EXCEPT ![t] = NoLocals]
           \/ pc' = [pc EXCEPT ![t] = "copy"] /\ loc' = loc
        /\ UNCHANGED <<pcb, kids, lost>>
    BY <1>2 DEF process_start, SetupStart, Associate, Associated, Goto
  <2>2. /\ pc'[t] \in {"run", "copy"} /\ \A u \in Tids : u # t => pc'[u] = pc[u]
        /\ \A u \in Tids : u # t => loc'[u] = loc[u]
    BY <2>1 DEF TablesOK, TypeOK
  <2>3. \A u \in Tids : u # t => thread'[u] = thread[u]
    BY <2>1 DEF TablesOK, TypeOK
  <2>4. kids[t] = {}
    BY <1>0 DEF FamilyOK, MadeOnce
  <2>5. MadeOnce(t)'
    BY <2>2 DEF MadeOnce, Creating
  <2>6. \A q : t \notin Running(q)
    BY <1>0 DEF Running
  <2> QED BY <2>1, <2>2, <2>3, <2>4, <2>5, <2>6, QuietFamily
<1> QED BY <1>1, <1>2

(* The two sides of fork meet without touching the families. *)
LEMMA ForkReturnFamily ==
    ASSUME TablesOK, FamilyOK, NEW t \in Tids, ForkWait(t) \/ SetupCopy(t)
    PROVE  FamilyOK'
<1>0. pc[t] \in {"fork_wait", "copy"} /\ halted = ""
  BY DEF ForkWait, SetupCopy, At
<1>1. CASE \E cause \in {"no semaphore", "no page table"} : Panic(cause)
  BY <1>1, PanicFamily DEF Panic
<1>2. CASE ~\E cause \in {"no semaphore", "no page table"} : Panic(cause)
  <2>1. /\ loc' = [loc EXCEPT ![t] = NoLocals] /\ pc' = [pc EXCEPT ![t] = "run"]
        /\ UNCHANGED <<pcb, thread, kids, lost>>
    BY <1>2 DEF ForkWait, SetupCopy, Goto
  <2>2. /\ pc'[t] = "run" /\ \A u \in Tids : u # t => pc'[u] = pc[u]
        /\ \A u \in Tids : u # t => loc'[u] = loc[u]
    BY <2>1 DEF TablesOK, TypeOK
  <2>3. MadeOnce(t)'
    BY <2>2 DEF MadeOnce, Creating
  <2>4. \A q \in Pids : t \in Running(q) => t \in Running(q)'
    BY <2>1, <2>2 DEF Running, Self
  <2>5. ASSUME NEW q \in Pids, t \in Running(pcb[q].parent), q = loc[t].pid
        PROVE  q \in kids[t] \/ pcb[q].parent = q
    <3>1. CASE pc[t] = "fork_wait"
      BY <2>5, <3>1 DEF FamilyOK, MadeOnce
    <3>2. CASE pc[t] = "copy"
      BY <2>5, <3>2 DEF TablesOK, ThreadsOK, ThreadOK, Running
    <3> QED BY <1>0, <3>1, <3>2
  <2> QED BY <2>1, <2>2, <2>3, <2>4, <2>5, QuietFamily
<1> QED BY <1>1, <1>2

(* A freed thread entry belongs to no process and to no family. *)
LEMMA FreedFamily ==
    ASSUME TablesOK, FamilyOK, NEW t \in Tids, ThreadFreed(t)
    PROVE  FamilyOK'
<1>1. /\ thread' = [thread EXCEPT ![t].state = "FREE"]
      /\ UNCHANGED <<pcb, pc, loc, kids, lost>>
  BY DEF ThreadFreed
<1>2. \A u \in Tids : thread'[u].process_id = thread[u].process_id
  BY <1>1 DEF TablesOK, TypeOK
<1>3. MadeOnce(t)'
  <2>1. MadeOnce(t)
    BY DEF FamilyOK
  <2> QED BY <1>1, <1>2, <2>1 DEF MadeOnce, Self
<1>4. \A q \in Pids : t \in Running(q) => t \in Running(q)'
  BY <1>1, <1>2 DEF Running, Self
<1> QED BY <1>1, <1>2, <1>3, <1>4, QuietFamily

(* The test of process_join finds a child that this program made: another    *)
(* thread of the same process does not exist.                                *)
LEMMA JoinCheckFamily ==
    ASSUME TablesOK, FamilyOK, NEW t \in Tids, JoinCheck(t)
    PROVE  FamilyOK'
<1>0. /\ pc[t] = "run" /\ halted = "" /\ t # Startup /\ Self(t) \in Pids /\ loc[t].pid = NoPid
  BY Mover DEF JoinCheck, At, TablesOK, ThreadsOK, ThreadOK
<1>1. PICK p \in Pids : pcb[p].parent = Self(t) /\ loc' = [loc EXCEPT ![t].pid = p]
  BY DEF JoinCheck, JoinAllowed
<1>2. pc' = [pc EXCEPT ![t] = "join"] /\ UNCHANGED <<pcb, thread, kids, lost>>
  BY DEF JoinCheck, Goto
<1>3. /\ pc'[t] = "join" /\ \A u \in Tids : u # t => pc'[u] = pc[u]
      /\ loc'[t].pid = p /\ \A u \in Tids : u # t => loc'[u] = loc[u]
  BY <1>1, <1>2 DEF TablesOK, TypeOK
<1>4. p \in kids[t] \union lost
  <2>1. PICK u \in Running(Self(t)) : p \in kids[u] \union lost \union {loc[u].pid}
    BY <1>0, <1>1, Pids_NoPid DEF FamilyOK, ParentMadeIt
  <2>2. t \in Running(Self(t))
    BY <1>0 DEF Running
  <2>3. u = t
    BY <1>0, <2>1, <2>2, OneRuns
  <2> QED BY <1>0, <2>1, <2>3, Pids_NoPid
<1>5. MadeOnce(t)'
  BY <1>2, <1>3, <1>4 DEF MadeOnce, Creating
<1>6. \A q \in Pids : t \in Running(q) => t \in Running(q)'
  BY <1>2, <1>3 DEF Running, Self
<1>7. \A q \in Pids : q # loc[t].pid
  BY <1>0, Pids_NoPid
<1> QED BY <1>2, <1>3, <1>5, <1>6, <1>7, QuietFamily

(* The parent in the table is the process of the thread that was told the pid. *)
LEMMA SetParentFamily ==
    ASSUME TablesOK, FamilyOK, NEW t \in Tids, SpawnSet(t) \/ ForkSet(t)
    PROVE  FamilyOK'
<1>0. /\ t # Startup /\ Self(t) \in Pids /\ pc[t] \in {"spawn_set", "fork_set"} /\ halted = ""
      /\ loc[t].pid \in Pids
  BY Mover DEF SpawnSet, ForkSet, At, Creating
<1>1. PICK p \in Pids, q \in Pids : p = loc[t].pid /\ q = Self(t)
  BY <1>0
<1>2. /\ pcb' = [pcb EXCEPT ![p].parent = q]
      /\ \E label \in {"spawn_create", "fork_create"} : pc' = [pc EXCEPT ![t] = label]
      /\ UNCHANGED <<thread, kids, lost>>
  BY <1>1 DEF SpawnSet, ForkSet, SetParent, Goto
<1>3. /\ pc'[t] \in {"spawn_create", "fork_create"} /\ \A u \in Tids : u # t => pc'[u] = pc[u]
  BY <1>2 DEF TablesOK, TypeOK
<1>4. \A u \in Tids : loc'[u].pid = loc[u].pid
  BY DEF SpawnSet, ForkSet, TablesOK, TypeOK
<1>5. /\ pcb'[p].parent = q
      /\ \A r \in Pids : pcb'[r].state = pcb[r].state /\ (r # p => pcb'[r] = pcb[r])
  BY <1>2, ParentSet DEF TablesOK
<1>6. Works(t, p) /\ q # p
  BY <1>0, <1>1 DEF Works, Creating, TablesOK, RolesOK
<1>7. pcb[p].state = "RUNNING" /\ \A u \in Tids : p \notin kids[u]
  BY <1>0, <1>1, <1>6 DEF TablesOK, RolesOK, FamilyOK, MadeOnce, Creating
<1>9. ParentMadeIt(p)'
  <2>1. t \in Running(q)'
    BY <1>0, <1>1, <1>2, <1>3 DEF Running, Self
  <2> QED BY <1>1, <1>4, <1>5, <1>6, <1>7, <2>1 DEF ParentMadeIt
<1>10. ASSUME NEW r \in Pids, r # p PROVE ParentMadeIt(r)'
  <2> SUFFICES ASSUME pcb'[r].parent # NoPid PROVE ParentMadeIt(r)'
    BY DEF ParentMadeIt
  <2>1. ParentMadeIt(r) /\ pcb'[r] = pcb[r]
    BY <1>5, <1>10 DEF FamilyOK
  <2>2. PICK u \in Running(pcb[r].parent) : r \in kids[u] \union lost \union {loc[u].pid}
    BY <2>1 DEF ParentMadeIt
  <2>3. u \in Running(pcb[r].parent)' /\ u \in Tids
    BY <1>0, <1>2, <1>3, <2>1, <2>2 DEF Running, Self
  <2> QED BY <1>2, <1>4, <2>1, <2>2, <2>3 DEF ParentMadeIt
<1>11. ASSUME NEW u \in Tids PROVE KidsStay(u)'
  <2>1. KidsStay(u) /\ kids[u] \subseteq Pids
    BY DEF FamilyOK, TablesOK, TypeOK
  <2> QED BY <1>2, <1>5, <1>7, <2>1 DEF KidsStay, Self
<1>12. ASSUME NEW u \in Tids PROVE MadeOnce(u)'
  <2>1. CASE u = t
    BY <1>1, <1>2, <1>3, <1>4, <1>5, <1>7, <2>1 DEF MadeOnce, Creating, Self
  <2>2. CASE u # t
    <3>1. pc[u] \in Creating => loc[u].pid \in Pids /\ loc[u].pid # p
      BY <1>0, <1>1, <2>2, OneMakes, Mover DEF Creating
    <3>2. pc[u] \in Creating => pcb'[loc[u].pid] = pcb[loc[u].pid]
      BY <1>5, <3>1
    <3>3. MadeOnce(u)
      BY DEF FamilyOK
    <3> QED BY <1>2, <1>3, <1>4, <2>2, <3>2, <3>3 DEF MadeOnce, Self, Creating
  <2> QED BY <2>1, <2>2
<1> QED BY <1>9, <1>10, <1>11, <1>12 DEF FamilyOK

(* A thread entry is found: the creator is told the pid of its child. *)
LEMMA CreateSucceedsFamily ==
    ASSUME TablesOK, FamilyOK, NEW t \in Tids, pc[t] \in {"spawn_create", "fork_create"}, halted = "",
           NEW u \in FreeTids, NEW label \in {"start", "setup"}, NEW after \in {"run", "fork_wait"},
           thread' = [thread EXCEPT ![u] = [state |-> "LIVE", process_id |-> NoPid, pagetable |-> FALSE]],
           pc' = [pc EXCEPT ![u] = label, ![t] = after],
           loc' = [loc EXCEPT ![u] = loc[t], ![t] = IF after = "run" THEN NoLocals ELSE @],
           kids' = [kids EXCEPT ![u] = {}, ![t] = @ \union {loc[t].pid}],
           UNCHANGED <<lost, pcb>>
    PROVE  FamilyOK'
<1>0. t # Startup /\ Self(t) \in Pids /\ loc[t].pid \in Pids
  BY Mover DEF Creating
<1>a. u \in Tids /\ u # t /\ pc[u] = "none"
  BY TakenEntry
<1>b. PICK p \in Pids : p = loc[t].pid
  BY <1>0
<1>1. /\ pc'[t] = after /\ pc'[u] = label /\ \A v \in Tids : v # t /\ v # u => pc'[v] = pc[v]
      /\ kids'[u] = {} /\ kids'[t] = kids[t] \union {p}
      /\ \A v \in Tids : v # t /\ v # u => kids'[v] = kids[v]
      /\ \A v \in Tids : v # u => thread'[v] = thread[v]
  BY <1>a, <1>b DEF TablesOK, TypeOK
<1>2. /\ loc'[u] = loc[t] /\ \A v \in Tids : v # t /\ v # u => loc'[v] = loc[v]
      /\ after = "fork_wait" => loc'[t] = loc[t]
  <2>1. CASE after = "run"
    BY <1>a, <2>1 DEF TablesOK, TypeOK
  <2>2. CASE after = "fork_wait"
    BY <1>a, <2>2 DEF TablesOK, TypeOK
  <2> QED BY <2>1, <2>2
<1>3. pcb[p].state = "RUNNING" /\ pcb[p].parent = Self(t)
  <2>1. Works(t, p)
    BY <1>b DEF Works, Creating
  <2>2. pcb[p].parent = Self(t)
    BY <1>b DEF FamilyOK, MadeOnce
  <2> QED BY <2>1, <2>2 DEF TablesOK, RolesOK
<1>4. \A v \in Tids : v # u => kids[v] \subseteq kids'[v]
  BY <1>1
<1>5. ASSUME NEW q \in Pids PROVE ParentMadeIt(q)'
  <2> SUFFICES ASSUME pcb[q].parent # NoPid PROVE ParentMadeIt(q)'
    BY DEF ParentMadeIt
  <2>1. ParentMadeIt(q)
    BY DEF FamilyOK
  <2>2. PICK v \in Running(pcb[q].parent) : q \in kids[v] \union lost \union {loc[v].pid}
    BY <2>1 DEF ParentMadeIt
  <2>3. v \in Tids /\ v # u
    BY <1>a, <2>2 DEF Running
  <2>4. v \in Running(pcb[q].parent)'
    BY <1>1, <2>2, <2>3 DEF Running, Self
  <2>5. q \in kids'[v] \union lost' \union {loc'[v].pid}
    <3>1. CASE v = t
      BY <1>b, <1>1, <2>2, <3>1
    <3>2. CASE v # t
      BY <1>1, <1>2, <2>2, <2>3, <3>2
    <3> QED BY <3>1, <3>2
  <2> QED BY <2>1, <2>4, <2>5 DEF ParentMadeIt
<1>6. ASSUME NEW v \in Tids PROVE KidsStay(v)'
  <2>1. KidsStay(v)
    BY DEF FamilyOK
  <2>2. CASE v = u
    BY <1>1, <2>2 DEF KidsStay
  <2>3. CASE v # u
    <3>1. Self(v)' = Self(v) /\ \A q \in kids'[v] : q \in kids[v] \/ (v = t /\ q = p)
      BY <1>1, <2>3 DEF Self
    <3> QED BY <1>3, <2>1, <3>1 DEF KidsStay
  <2> QED BY <2>2, <2>3
<1>7. ASSUME NEW v \in Tids, v # t, v # u PROVE MadeOnce(v)'
  <2>1. MadeOnce(v)
    BY DEF FamilyOK
  <2>2. pc[v] \in Creating => loc[v].pid # p
    BY <1>0, <1>b, <1>7, OneMakes DEF Creating
  <2>3. pc[v] \in Creating => \A w \in Tids : loc[v].pid \notin kids'[w]
    BY <1>1, <2>1, <2>2 DEF MadeOnce
  <2> QED BY <1>1, <1>2, <1>7, <2>1, <2>3 DEF MadeOnce, Self, Creating
<1>8. MadeOnce(t)' /\ MadeOnce(u)'
  BY <1>a, <1>b, <1>1, <1>2 DEF MadeOnce, Creating
<1> QED BY <1>5, <1>6, <1>7, <1>8 DEF FamilyOK

(* thread_create keeps the families, in spawn and in fork. *)
LEMMA CreateFamily ==
    ASSUME TablesOK, FamilyOK, NEW t \in Tids, SpawnCreate(t) \/ ForkCreate(t)
    PROVE  FamilyOK'
<1>0. /\ pc[t] \in {"spawn_create", "fork_create"} /\ halted = "" /\ pcb' = pcb
  BY DEF SpawnCreate, ForkCreate, At
<1>1. PICK label \in {"start", "setup"}, after \in {"run", "fork_wait"} : ThreadCreate(t, label, after)
  BY DEF SpawnCreate, ForkCreate
<1>2. CASE FreeTids = {}
  <2>1. /\ lost' = lost \union {loc[t].pid} /\ loc' = [loc EXCEPT ![t] = NoLocals] /\ Goto(t, "run")
        /\ UNCHANGED <<thread, kids>>
    BY <1>1, <1>2 DEF ThreadCreate
  <2> QED BY <1>0, <2>1, CreateFailsFamily
<1>3. CASE FreeTids # {}
  <2>1. PICK u \in FreeTids :
          /\ thread' = [thread EXCEPT ![u] = [state |-> "LIVE", process_id |-> NoPid, pagetable |-> FALSE]]
          /\ pc' = [pc EXCEPT ![u] = label, ![t] = after]
          /\ loc' = [loc EXCEPT ![u] = loc[t], ![t] = IF after = "run" THEN NoLocals ELSE @]
          /\ kids' = [kids EXCEPT ![u] = {}, ![t] = @ \union {loc[t].pid}]
          /\ UNCHANGED lost
    BY <1>1, <1>3 DEF ThreadCreate
  <2> QED BY <1>0, <2>1, CreateSucceedsFamily
<1> QED BY <1>2, <1>3

(* process_finish: the children of the process are nobody's, and they were   *)
(* this thread's.                                                            *)
LEMMA FinishFamily ==
    ASSUME TablesOK, FamilyOK, NEW t \in Tids, process_finish(t)
    PROVE  FamilyOK'
<1>0. pc[t] = "run" /\ halted = "" /\ t # Startup /\ Self(t) \in Pids
  BY Mover DEF process_finish, At
<1>a. PICK p \in Pids : p = Self(t)
  BY <1>0
<1>1. /\ pcb' = Finished(p)
      /\ thread' = [thread EXCEPT ![t].state = "DYING", ![t].pagetable = FALSE]
      /\ kids' = [kids EXCEPT ![t] = {}] /\ pc' = [pc EXCEPT ![t] = "none"]
      /\ UNCHANGED <<loc, lost>>
  BY <1>a DEF process_finish, Goto
<1>2. /\ pcb'[p].state = "ZOMBIE" /\ \A q \in Pids : q # p => pcb'[q].state = pcb[q].state
      /\ \A q \in Pids : pcb[q].parent # p => pcb'[q].parent = pcb[q].parent
      /\ \A q \in Pids : pcb[q].parent = p => pcb'[q].parent = NoPid
  BY <1>1 DEF Finished
<1>3. /\ pc'[t] = "none" /\ \A u \in Tids : u # t => pc'[u] = pc[u]
      /\ kids'[t] = {} /\ \A u \in Tids : u # t => kids'[u] = kids[u]
      /\ \A u \in Tids : u # t => thread'[u] = thread[u]
  BY <1>1 DEF TablesOK, TypeOK
<1>4. t \in Running(p) /\ \A u \in Running(p) : u = t
  <2>1. t \in Running(p)
    BY <1>0, <1>a DEF Running
  <2> QED BY <2>1, OneRuns
<1>5. ASSUME NEW u \in Tids, u # t, pc[u] \notin {"none", "start", "setup"}
      PROVE  Self(u) # p
  <2>1. u = Startup => Self(u) = NoPid
    BY DEF TablesOK, ThreadsOK, ThreadOK
  <2> QED BY <1>4, <1>5, <2>1, Pids_NoPid DEF Running
<1>6. ASSUME NEW q \in Pids PROVE ParentMadeIt(q)'
  <2> SUFFICES ASSUME pcb'[q].parent # NoPid PROVE ParentMadeIt(q)'
    BY DEF ParentMadeIt
  <2>1. pcb'[q].parent = pcb[q].parent /\ pcb[q].parent # p /\ ParentMadeIt(q)
    BY <1>2 DEF FamilyOK
  <2>2. PICK u \in Running(pcb[q].parent) : q \in kids[u] \union lost \union {loc[u].pid}
    BY <2>1 DEF ParentMadeIt
  <2>3. u \in Tids /\ u # t
    BY <1>a, <2>1, <2>2 DEF Running
  <2>4. u \in Running(pcb[q].parent)'
    BY <1>3, <2>1, <2>2, <2>3 DEF Running, Self
  <2>5. pcb'[q].state # "FREE" /\ pcb'[q].parent # q
    BY <1>2, <2>1 DEF ParentMadeIt
  <2>6. q \in kids'[u] \union lost' \union {loc'[u].pid}
    BY <1>1, <1>3, <2>2, <2>3
  <2> QED BY <2>1, <2>4, <2>5, <2>6 DEF ParentMadeIt
<1>7. ASSUME NEW u \in Tids PROVE KidsStay(u)'
  <2>1. CASE u = t
    BY <1>3, <2>1 DEF KidsStay
  <2>2. CASE u # t
    <3> SUFFICES ASSUME NEW q \in kids[u] PROVE pcb'[q].state # "FREE" /\ pcb'[q].parent = Self(u)'
      BY <1>3, <2>2 DEF KidsStay
    <3>1. KidsStay(u) /\ MadeOnce(u) /\ q \in Pids
      BY DEF FamilyOK, TablesOK, TypeOK
    <3>2. pcb[q].state # "FREE" /\ pcb[q].parent = Self(u) /\ Self(u) # p
      BY <1>5, <2>2, <3>1 DEF KidsStay, MadeOnce
    <3>3. Self(u)' = Self(u)
      BY <1>3, <2>2 DEF Self
    <3> QED BY <1>2, <3>1, <3>2, <3>3
  <2> QED BY <2>1, <2>2
<1>8. ASSUME NEW u \in Tids PROVE MadeOnce(u)'
  <2>1. CASE u = t
    BY <1>3, <2>1 DEF MadeOnce, Creating
  <2>2. CASE u # t
    <3>1. MadeOnce(u) /\ Self(u)' = Self(u)
      BY <1>3, <2>2 DEF FamilyOK, Self
    <3>2. pc[u] \in Creating => Self(u) # p /\ loc[u].pid \in Pids
      BY <1>0, <1>5, <2>2, Mover DEF Creating
    <3>3. pc[u] \in {"spawn_set", "fork_set"} => pcb'[loc[u].pid].parent = NoPid
      BY <1>2, <3>1, <3>2, Pids_NoPid DEF MadeOnce, Creating
    <3>4. pc[u] \in {"spawn_create", "fork_create"} => pcb'[loc[u].pid].parent = Self(u)
      BY <1>2, <3>1, <3>2 DEF MadeOnce, Creating
    <3>5. pc[u] \in Creating => \A v \in Tids : loc[u].pid \notin kids'[v]
      BY <1>3, <3>1 DEF MadeOnce
    <3> QED BY <1>1, <1>3, <2>2, <3>1, <3>3, <3>4, <3>5 DEF MadeOnce
  <2> QED BY <2>1, <2>2
<1> QED BY <1>6, <1>7, <1>8 DEF FamilyOK

(* process_join: the slot that is freed is that of a zombie, which was not   *)
(* lost, so it is a child that this thread was told of.                      *)
LEMMA JoinReapFamily ==
    ASSUME TablesOK, FamilyOK, NEW t \in Tids, JoinReap(t)
    PROVE  FamilyOK'
<1>0. pc[t] = "join" /\ halted = "" /\ loc[t].pid \in Pids
  BY Mover DEF JoinReap, At
<1>1. PICK p \in Pids : p = loc[t].pid
  BY <1>0
<1>2. /\ pcb[p].state = "ZOMBIE"
      /\ pcb' = [pcb EXCEPT ![p] = [state |-> "FREE", parent |-> NoPid]]
      /\ kids' = [kids EXCEPT ![t] = @ \ {p}]
      /\ loc' = [loc EXCEPT ![t] = NoLocals]
      /\ pc' = [pc EXCEPT ![t] = "run"]
      /\ UNCHANGED <<thread, lost>>
  BY <1>1 DEF JoinReap, Goto
<1>3. /\ pc'[t] = "run" /\ \A u \in Tids : u # t => pc'[u] = pc[u] /\ loc'[u] = loc[u] /\ kids'[u] = kids[u]
      /\ kids'[t] = kids[t] \ {p}
      /\ pcb'[p].parent = NoPid /\ \A q \in Pids : q # p => pcb'[q] = pcb[q]
  BY <1>2 DEF TablesOK, TypeOK
<1>4. p \notin lost /\ p \in kids[t]
  <2>1. p \notin lost
    BY <1>2 DEF TablesOK, RolesOK
  <2> QED BY <1>0, <1>1, <2>1 DEF FamilyOK, MadeOnce
<1>5. \A u \in Tids : p \notin kids'[u]
  <2>1. \A u \in Tids : p \in kids[u] => u = t
    BY <1>4, OneTold
  <2> QED BY <1>3, <2>1
<1>6. ASSUME NEW q \in Pids PROVE ParentMadeIt(q)'
  <2> SUFFICES ASSUME pcb'[q].parent # NoPid PROVE ParentMadeIt(q)'
    BY DEF ParentMadeIt
  <2>1. q # p /\ pcb'[q] = pcb[q] /\ ParentMadeIt(q)
    BY <1>3 DEF FamilyOK
  <2>2. PICK u \in Running(pcb[q].parent) : q \in kids[u] \union lost \union {loc[u].pid}
    BY <2>1 DEF ParentMadeIt
  <2>3. u \in Tids /\ u \in Running(pcb[q].parent)'
    BY <1>2, <1>3, <2>2 DEF Running, Self
  <2>4. q \in kids'[u] \union lost' \union {loc'[u].pid}
    <3>1. CASE u = t
      BY <1>1, <1>2, <1>3, <2>1, <2>2, <3>1
    <3>2. CASE u # t
      BY <1>2, <1>3, <2>2, <2>3, <3>2
    <3> QED BY <3>1, <3>2
  <2> QED BY <2>1, <2>3, <2>4 DEF ParentMadeIt
<1>7. ASSUME NEW u \in Tids PROVE KidsStay(u)'
  <2>1. KidsStay(u) /\ kids[u] \subseteq Pids /\ kids'[u] \subseteq kids[u]
    BY <1>3 DEF FamilyOK, TablesOK, TypeOK
  <2> QED BY <1>2, <1>3, <1>5, <2>1 DEF KidsStay, Self
<1>8. ASSUME NEW u \in Tids PROVE MadeOnce(u)'
  <2>1. CASE u = t
    BY <1>3, <2>1 DEF MadeOnce, Creating
  <2>2. CASE u # t
    <3>1. MadeOnce(u) /\ Self(u)' = Self(u)
      BY <1>2 DEF FamilyOK, Self
    <3>2. pc[u] \in Creating => loc[u].pid \in Pids /\ loc[u].pid # p
      BY <1>0, <1>4, <3>1, Mover DEF MadeOnce, Creating
    <3>3. pc[u] \in Creating => pcb'[loc[u].pid] = pcb[loc[u].pid]
      BY <1>3, <3>2
    <3>4. pc[u] \in Creating => \A v \in Tids : loc[u].pid \notin kids'[v]
      BY <1>3, <3>1 DEF MadeOnce
    <3> QED BY <1>2, <1>3, <2>2, <3>1, <3>3, <3>4 DEF MadeOnce, Creating
  <2> QED BY <2>1, <2>2
<1> QED BY <1>6, <1>7, <1>8 DEF FamilyOK

(* Every step preserves the families. *)
LEMMA FamilyStep == TablesOK /\ FamilyOK /\ [Next]_vars => FamilyOK'
<1> SUFFICES ASSUME TablesOK, FamilyOK, [Next]_vars PROVE FamilyOK'
  OBVIOUS
<1>1. CASE UNCHANGED vars
  BY <1>1, PanicFamily DEF vars
<1>2. CASE \E t \in Tids : Step(t)
  <2>1. PICK t \in Tids : Step(t)
    BY <1>2
  <2>2. CASE \E label \in {"spawn_set", "fork_set"} : alloc_process_id(t, label)
    BY <2>2, AllocFamily
  <2>3. CASE SpawnSet(t) \/ ForkSet(t)
    BY <2>3, SetParentFamily
  <2>4. CASE SpawnCreate(t) \/ ForkCreate(t)
    BY <2>4, CreateFamily
  <2>5. CASE process_start(t) \/ SetupStart(t)
    BY <2>5, StartFamily
  <2>6. CASE ForkWait(t) \/ SetupCopy(t)
    BY <2>6, ForkReturnFamily
  <2> QED BY <2>1, <2>2, <2>3, <2>4, <2>5, <2>6, FinishFamily, FreedFamily, JoinCheckFamily, JoinReapFamily
          DEF Step, process_spawn, process_fork, process_fork_setup, process_join
<1> QED BY <1>1, <1>2 DEF Next, Stopped

(* Whatever the sizes of the tables: a process has the parent that made it   *)
(* for as long as that one runs, although pids are used again, a slot is     *)
(* freed by process_join of that parent only, and a program can join every   *)
(* child it was told of.                                                     *)
THEOREM FamilyInvariant == Spec => []FamilyOK
<1>1. Spec => []TablesOK
  BY TablesInitial, TablesStep, PTL DEF Spec
<1> QED BY <1>1, FamilyInitial, FamilyStep, PTL DEF Spec
=============================================================================
