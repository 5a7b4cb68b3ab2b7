------------------------------- MODULE Process -------------------------------
(***************************************************************************)
(* The process table (proc/process.c) over the thread table's process       *)
(* fields: process_spawn, process_start, process_fork and                   *)
(* process_fork_setup, process_join, process_finish.                        *)
(*                                                                          *)
(* What process_table_slock or thread_table_slock protects is one step; the *)
(* unlocked stores between them are steps of their own.  Sleeping and       *)
(* waking are module Kernel's subject: here process_join and the wait of    *)
(* process_fork are guards.  Programs exist and fit in memory.              *)
(***************************************************************************)
EXTENDS Integers

CONSTANTS
    MaxProcesses,   \* PROCESS_MAX_PROCESSES
    MaxThreads,     \* CONFIG_MAX_THREADS
    MaxSems,        \* semaphores left for process_fork
    MaxOpenFiles    \* CONFIG_MAX_OPEN_FILES

VARIABLES
    pcb,            \* process_table: state and parent
    thread,         \* thread_table: state, process_id, whether pagetable is set
    next_tid,       \* the static variable of thread_create
    sems, files,    \* semaphores and open files in use
    pc, loc,        \* where each thread is; its pid, and whether sem_wait is NULL
    signalled,      \* the sem_wait of the thread's process_fork has been raised
    halted,         \* "" or what stopped the system
    kids,           \* history: the pids a program was given and has not joined
    lost            \* history: slots given up when the thread table was full

vars == <<pcb, thread, next_tid, sems, files, pc, loc, signalled, halted, kids, lost>>

Pids == 0 .. (MaxProcesses - 1)
Tids == 1 .. (MaxThreads - 1)       \* without the idle thread
Startup == 1
NoPid == -1
NoLocals == [pid |-> NoPid, null |-> FALSE]

ASSUME BoundsAssumption ==
    /\ MaxProcesses \in Nat \ {0} /\ MaxThreads \in Nat /\ MaxThreads > 2
    /\ MaxSems \in Nat /\ MaxOpenFiles \in Nat

(* init_startup_thread has spawned the initial program and joins it. *)
Init ==
    /\ pcb = [p \in Pids |-> [state |-> IF p = 0 THEN "RUNNING" ELSE "FREE", parent |-> NoPid]]
    /\ thread = [t \in Tids |-> [state |-> IF t \in {1, 2} THEN "LIVE" ELSE "FREE",
                                 process_id |-> NoPid, pagetable |-> FALSE]]
    /\ next_tid = 3 % MaxThreads
    /\ sems = 0 /\ files = 0
    /\ pc = [t \in Tids |-> IF t = 1 THEN "join" ELSE IF t = 2 THEN "start" ELSE "none"]
    /\ loc = [t \in Tids |-> IF t \in {1, 2} THEN [NoLocals EXCEPT !.pid = 0] ELSE NoLocals]
    /\ signalled = [t \in Tids |-> FALSE]
    /\ halted = ""
    /\ kids = [t \in Tids |-> IF t = Startup THEN {0} ELSE {}]
    /\ lost = {}

At(t, label) == pc[t] = label /\ halted = ""
Goto(t, label) == pc' = [pc EXCEPT ![t] = label]
Panic(cause) == halted' = cause
          /\ UNCHANGED <<pcb, thread, next_tid, sems, files, pc, loc, signalled, kids, lost>>

(* process_get_current_process *)
Self(t) == thread[t].process_id

----------------------------------------------------------------------------
(* Mutant: the slot found is not marked. *)
Allocated_unmarked(p) == pcb

(* alloc_process_id: the first free slot. *)
Allocated(p) == [pcb EXCEPT ![p].state = "RUNNING"]
FreePids == {p \in Pids : pcb[p].state = "FREE"}

alloc_process_id(t, label) ==
    /\ At(t, "run")
    /\ \E p \in FreePids :
         /\ \A q \in FreePids : p <= q
         /\ pcb' = Allocated(p)
         /\ loc' = [loc EXCEPT ![t].pid = p]
    /\ Goto(t, label)
    /\ UNCHANGED <<thread, next_tid, sems, files, signalled, halted, kids, lost>>

(* thread_create: the first free entry from next_tid on, cleared. *)
NextTid(u) == (u + 1) % MaxThreads
Order(u) == (u - next_tid) % MaxThreads
FreeTids == {u \in Tids : thread[u].state = "FREE"}

(* thread_create and thread_run by thread t for process loc[t].pid, which    *)
(* begins at label while t goes on at after; if the table is full the slot   *)
(* stays RUNNING and the system call fails.                                  *)
ThreadCreate(t, label, after) ==
    IF FreeTids = {}
    THEN /\ lost' = lost \union {loc[t].pid}
         /\ loc' = [loc EXCEPT ![t] = NoLocals]
         /\ Goto(t, "run")
         /\ UNCHANGED <<thread, next_tid, signalled, kids>>
    ELSE \E u \in FreeTids :
         /\ \A v \in FreeTids : Order(u) <= Order(v)
         /\ thread' = [thread EXCEPT ![u] = [state |-> "LIVE", process_id |-> NoPid,
                                             pagetable |-> FALSE]]
         /\ next_tid' = NextTid(u)
         /\ pc' = [pc EXCEPT ![u] = label, ![t] = after]
         /\ loc' = [loc EXCEPT ![u] = loc[t], ![t] = IF after = "run" THEN NoLocals ELSE @]
         /\ kids' = [kids EXCEPT ![u] = {}, ![t] = @ \union {loc[t].pid}]
         /\ signalled' = [signalled EXCEPT ![t] = FALSE]
         /\ UNCHANGED lost

SetParent(t) == pcb' = [pcb EXCEPT ![loc[t].pid].parent = Self(t)]

----------------------------------------------------------------------------
(* process_spawn *)
SpawnSet(t) ==
    /\ At(t, "spawn_set")
    /\ SetParent(t)
    /\ Goto(t, "spawn_create")
    /\ UNCHANGED <<thread, next_tid, sems, files, loc, signalled, halted, kids, lost>>

SpawnCreate(t) ==
    /\ At(t, "spawn_create")
    /\ ThreadCreate(t, "start", "run")
    /\ UNCHANGED <<pcb, sems, files, halted>>

process_spawn(t) == alloc_process_id(t, "spawn_set") \/ SpawnSet(t) \/ SpawnCreate(t)

(* The process_id a new thread gives itself. *)
Associated(t) == loc[t].pid

Associate(t) == thread' = [thread EXCEPT ![t].process_id = Associated(t), ![t].pagetable = TRUE]

(* process_start: the executable is opened, loaded and left open. *)
process_start(t) ==
    /\ At(t, "start")
    /\ IF files = MaxOpenFiles THEN Panic("no file")
       ELSE /\ Associate(t)
            /\ files' = files + 1
            /\ loc' = [loc EXCEPT ![t] = NoLocals]
            /\ Goto(t, "run")
            /\ UNCHANGED <<pcb, next_tid, sems, signalled, halted, kids, lost>>

----------------------------------------------------------------------------
(* process_fork: sem_wait is NULL when no semaphore is left. *)
ForkSet(t) ==
    /\ At(t, "fork_set")
    /\ SetParent(t)
    /\ sems' = IF sems < MaxSems THEN sems + 1 ELSE sems
    /\ loc' = [loc EXCEPT ![t].null = sems = MaxSems]
    /\ Goto(t, "fork_create")
    /\ UNCHANGED <<thread, next_tid, files, signalled, halted, kids, lost>>

ForkCreate(t) ==
    /\ At(t, "fork_create")
    /\ ThreadCreate(t, "setup", "fork_wait")
    /\ UNCHANGED <<pcb, sems, files, halted>>

(* semaphore_P(sem_wait), which is never destroyed. *)
ForkWait(t) ==
    /\ At(t, "fork_wait")
    /\ \/ loc[t].null /\ Panic("no semaphore")
       \/ /\ ~loc[t].null /\ signalled[t]
          /\ loc' = [loc EXCEPT ![t] = NoLocals]
          /\ Goto(t, "run")
          /\ UNCHANGED <<pcb, thread, next_tid, sems, files, signalled, halted, kids, lost>>

process_fork(t) ==
    alloc_process_id(t, "fork_set") \/ ForkSet(t) \/ ForkCreate(t) \/ ForkWait(t)

(* thread_get_thread_entry_by_pid: the first entry with the pid, whatever    *)
(* its state.                                                                *)
thread_get_thread_entry_by_pid(p) ==
    CHOOSE u \in Tids : thread[u].process_id = p
                        /\ \A v \in Tids : thread[v].process_id = p => u <= v

(* process_fork_setup in the thread of the child. *)
SetupStart(t) ==
    /\ At(t, "setup")
    /\ Associate(t)
    /\ Goto(t, "copy")
    /\ UNCHANGED <<pcb, next_tid, sems, files, loc, signalled, halted, kids, lost>>

(* Mutant: the parent is not told. *)
Raised_not(t) == signalled

(* semaphore_V(sem_wait): the fork that waits for the process of t. *)
Raised(t) == [u \in Tids |-> signalled[u] \/ (pc[u] = "fork_wait" /\ loc[u].pid = loc[t].pid)]

SetupCopy(t) ==
    LET entry_parent == thread_get_thread_entry_by_pid(pcb[Self(t)].parent)
    IN /\ At(t, "copy")
       /\ \/ ~thread[entry_parent].pagetable /\ Panic("no page table")
          \/ thread[entry_parent].pagetable /\ loc[t].null /\ Panic("no semaphore")
          \/ /\ thread[entry_parent].pagetable /\ ~loc[t].null
             /\ signalled' = Raised(t)
             /\ loc' = [loc EXCEPT ![t] = NoLocals]
             /\ Goto(t, "run")
             /\ UNCHANGED <<pcb, thread, next_tid, sems, files, halted, kids, lost>>

process_fork_setup(t) == SetupStart(t) \/ SetupCopy(t)

----------------------------------------------------------------------------
(* Mutant: the children keep the parent. *)
Finished_parent(p) == [pcb EXCEPT ![p].state = "ZOMBIE"]

(* The process table after process_finish: a zombie without children. *)
Finished(p) ==
    [q \in Pids |-> [state  |-> IF q = p THEN "ZOMBIE" ELSE pcb[q].state,
                     parent |-> IF pcb[q].parent = p THEN NoPid ELSE pcb[q].parent]]

process_finish(t) ==
    /\ At(t, "run")
    /\ pcb' = Finished(Self(t))
    /\ thread' = [thread EXCEPT ![t].state = "DYING", ![t].pagetable = FALSE]
    /\ kids' = [kids EXCEPT ![t] = {}]
    /\ Goto(t, "none")
    /\ UNCHANGED <<next_tid, sems, files, loc, signalled, halted, lost>>

(* The scheduler frees the entry (module Kernel), but not its process_id. *)
ThreadFreed(t) ==
    /\ thread[t].state = "DYING" /\ halted = ""
    /\ thread' = [thread EXCEPT ![t].state = "FREE"]
    /\ UNCHANGED <<pcb, next_tid, sems, files, pc, loc, signalled, halted, kids, lost>>

(* The test of process_join, made without the lock; otherwise it returns     *)
(* PROCESS_ILLEGAL_JOIN.                                                     *)
JoinAllowed(t, p) == pcb[p].parent = Self(t)

JoinCheck(t) ==
    /\ At(t, "run")
    /\ \E p \in Pids : JoinAllowed(t, p) /\ loc' = [loc EXCEPT ![t].pid = p]
    /\ Goto(t, "join")
    /\ UNCHANGED <<pcb, thread, next_tid, sems, files, signalled, halted, kids, lost>>

(* The loop of process_join ends and process_reset frees the slot.  The      *)
(* startup thread then halts the system.                                     *)
JoinReap(t) ==
    LET p == loc[t].pid
    IN /\ At(t, "join")
       /\ pcb[p].state = "ZOMBIE"
       /\ pcb' = [pcb EXCEPT ![p] = [state |-> "FREE", parent |-> NoPid]]
       /\ kids' = [kids EXCEPT ![t] = @ \ {p}]
       /\ loc' = [loc EXCEPT ![t] = NoLocals]
       /\ Goto(t, "run")
       /\ halted' = IF t = Startup THEN "halt" ELSE ""
       /\ UNCHANGED <<thread, next_tid, sems, files, signalled, lost>>

process_join(t) == JoinCheck(t) \/ JoinReap(t)

----------------------------------------------------------------------------
Step(t) == process_spawn(t) \/ process_start(t) \/ process_fork(t) \/ process_fork_setup(t)
           \/ process_finish(t) \/ ThreadFreed(t) \/ process_join(t)

Stopped == halted # "" /\ UNCHANGED vars

Next == Stopped \/ \E t \in Tids : Step(t)

(* A thread inside a system call goes on (ReadyRuns of module MCLiveness). *)
Fairness == \A t \in Tids : WF_vars(pc[t] # "run" /\ Step(t))

Spec == Init /\ [][Next]_vars /\ Fairness

----------------------------------------------------------------------------
Labels == {"none", "start", "run", "spawn_set", "spawn_create", "fork_set", "fork_create",
           "fork_wait", "setup", "copy", "join"}

(* The variables have their types. *)
TypeOK ==
    /\ pcb \in [Pids -> [state : {"FREE", "RUNNING", "ZOMBIE"}, parent : Pids \union {NoPid}]]
    /\ thread \in [Tids -> [state : {"FREE", "LIVE", "DYING"}, process_id : Pids \union {NoPid},
                            pagetable : BOOLEAN]]
    /\ next_tid \in 0 .. (MaxThreads - 1)
    /\ sems \in 0 .. MaxSems /\ files \in 0 .. MaxOpenFiles
    /\ pc \in [Tids -> Labels]
    /\ loc \in [Tids -> [pid : Pids \union {NoPid}, null : BOOLEAN]]
    /\ signalled \in [Tids -> BOOLEAN]
    /\ kids \in [Tids -> SUBSET Pids] /\ lost \subseteq Pids

(* The threads that run a process, and those that are about to. *)
Creating == {"spawn_set", "spawn_create", "fork_set", "fork_create"}
Running(p) == {t \in Tids \ {Startup} : pc[t] \notin {"none", "start", "setup"} /\ Self(t) = p}
Starting(p) == {t \in Tids : pc[t] \in {"start", "setup"} /\ loc[t].pid = p}
Making(p) == {t \in Tids : pc[t] \in Creating /\ loc[t].pid = p}

(* Every process has one thread, which is running, about to start or being   *)
(* made by one other process; a zombie and a free slot have none.  Only a    *)
(* slot that was given up because the thread table was full has none either  *)
(* (process.c:254-257, 386-388), and it is never given to another process.   *)
OneThreadPerProcess ==
    \A p \in Pids :
        LET threads == Running(p) \union Starting(p) \union Making(p)
        IN /\ IF pcb[p].state = "RUNNING" /\ p \notin lost
              THEN \E t \in Tids : threads = {t}
              ELSE threads = {}
           /\ Running(p) \intersect Making(p) = {}
           /\ p \in lost => pcb[p].state = "RUNNING"

(* A thread is live when it has something to do, and works for a process and *)
(* on a process; the startup thread only joins.                              *)
ThreadOK(t) ==
    /\ thread[t].state = "LIVE" <=> pc[t] # "none"
    /\ t # Startup /\ pc[t] \notin {"none", "start", "setup"} => Self(t) # NoPid
    /\ t = Startup => Self(t) = NoPid /\ (pc[t] = "join" \/ halted # "")
    /\ pc[t] \in {"start", "setup", "copy", "fork_wait", "join"} \union Creating => loc[t].pid # NoPid
    /\ pc[t] = "copy" => loc[t].pid = Self(t)
    /\ pc[t] = "run" => loc[t].pid = NoPid

ThreadsOK == \A t \in Tids : ThreadOK(t)

(* The process table and the thread table agree (proc/process.c). *)
ProcessInv == TypeOK /\ OneThreadPerProcess /\ ThreadsOK

(* The parent of a process is a running process, the one that made it, even  *)
(* when pids are used again: process_finish leaves no child behind with a    *)
(* pid that another process may get.                                         *)
ParentMadeIt(p) ==
    pcb[p].parent # NoPid =>
        /\ pcb[p].state # "FREE" /\ pcb[p].parent # p
        /\ \E t \in Running(pcb[p].parent) : p \in kids[t] \union lost \union {loc[t].pid}

(* A program can join each child it was told of: the slot stays taken, and   *)
(* the program stays its parent, until it does.                              *)
KidsStay(t) == \A p \in kids[t] : pcb[p].state # "FREE" /\ pcb[p].parent = Self(t)

(* A process is handed to its parent once, when its thread has been made;    *)
(* process_join waits for one that was.                                      *)
MadeOnce(t) ==
    LET p == loc[t].pid
    IN /\ pc[t] \in Creating => \A u \in Tids : p \notin kids[u]
       /\ pc[t] \in {"spawn_set", "fork_set"} => pcb[p].parent = NoPid
       /\ pc[t] \in {"spawn_create", "fork_create"} => pcb[p].parent = Self(t)
       /\ pc[t] = "fork_wait" => p \in kids[t]
       /\ pc[t] = "join" => p \in kids[t] \union lost
       /\ pc[t] \in {"none", "start", "setup"} => kids[t] = {}

(* Parents and children know each other through exit and reuse of pids, so   *)
(* that a slot is freed by the parent of its process and nobody else.        *)
FamilyOK ==
    /\ \A p \in Pids : ParentMadeIt(p)
    /\ \A t \in Tids : KidsStay(t) /\ MadeOnce(t)

(* What the child copies is on the stack of its parent: as long as the child *)
(* needs it the parent waits in process_fork, whatever other processes end,   *)
(* are made in the same slots and raise.                                      *)
ParentStays ==
    \A t \in Tids : pc[t] \in {"setup", "copy"} =>
        \E u \in Tids : pc[u] = "fork_wait" /\ loc[u].pid = loc[t].pid /\ ~signalled[u]

(* process_fork returns, and not before the child has what it needs: the      *)
(* child raises sem_wait although it may run, and its thread be started, at   *)
(* any time.                                                                  *)
ForkReturns ==
    /\ []ParentStays
    /\ \A t \in Tids : pc[t] = "fork_wait" ~> (pc[t] # "fork_wait" \/ halted # "")
=============================================================================
