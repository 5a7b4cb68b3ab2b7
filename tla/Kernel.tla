------------------------------- MODULE Kernel -------------------------------
(***************************************************************************)
(* The kernel's blocking primitives over the thread table: semaphores       *)
(* (kernel/semaphore.c) used by threads and by interrupt handlers, and the  *)
(* wait loop of process_join with the sleepq_wake_all of process_finish     *)
(* (proc/process.c).  Threads call these operations, create threads, yield  *)
(* and finish in any order, on several CPUs, preempted at any step at which *)
(* interrupts are enabled.                                                  *)
(***************************************************************************)
EXTENDS ThreadTable

CONSTANTS
    Sems,           \* semaphores
    Events,         \* process table slots, which process_join sleeps on
    InitValue,      \* the value semaphore_create gave each semaphore
    MaxValue,       \* bound: V is called only while the value is below it
    DeviceSems      \* the semaphores that interrupt handlers raise

VARIABLES
    value,          \* sem->value
    slock,          \* sem->slock: the context that holds it
    zombie,         \* process_table[e].state = PROCESS_ZOMBIE
    ptable_slock    \* process_table_slock

semVars == <<value, slock>>
procVars == <<zombie, ptable_slock>>
vars == <<state, sleeps_on, next, head, tail, current, next_tid, hashtable,
          sleepq_slock, in_interrupt, pc, res, tid, resched, value, slock,
          zombie, ptable_slock>>

ASSUME ResourcesAssumption ==
    Resources = Sems \union Events /\ Sems \intersect Events = {}
ASSUME InitValueAssumption == InitValue \in [Sems -> Nat] /\ MaxValue \in Nat
ASSUME DeviceSemsAssumption == DeviceSems \subseteq Sems

Init ==
    /\ InitThreads
    /\ value = InitValue
    /\ slock = [s \in Sems |-> NoCtx]
    /\ zombie = [e \in Events |-> FALSE]
    /\ ptable_slock = NoCtx

(* A call: interrupts are disabled, the argument is noted. *)
Call(t, s, label) ==
    /\ At(t, "run")
    /\ res' = [res EXCEPT ![t] = s]
    /\ Goto(t, label)
    /\ UNCHANGED <<tableVars, listVars, queueVars, current, next_tid,
                   in_interrupt, tid, resched, semVars, procVars>>

(* A step that changes only locks, counters and pc. *)
OnlyPc == UNCHANGED <<tableVars, listVars, queueVars, current, next_tid,
                      in_interrupt, tid, resched>>

----------------------------------------------------------------------------
(* semaphore.c *)
P_Acquire(t) ==
    LET s == res[t]
    IN /\ At(t, "P_acquire")
       /\ slock[s] = NoCtx
       /\ slock' = [slock EXCEPT ![s] = t]
       /\ value' = [value EXCEPT ![s] = @ - 1]
       /\ Goto(t, IF value[s] - 1 < 0 THEN "sleepq_mark" ELSE "sem_release")
       /\ UNCHANGED <<res, procVars>> /\ OnlyPc

(* Mutant: V looks for a sleeper only while the value stays negative. *)
V_Acquire_off_by_one(c) ==
    LET s == res[c]
    IN /\ At(c, "V_acquire")
       /\ slock[s] = NoCtx
       /\ slock' = [slock EXCEPT ![s] = c]
       /\ value' = [value EXCEPT ![s] = @ + 1]
       /\ Goto(c, IF value[s] + 1 < 0 THEN "wake_find" ELSE "sem_release")
       /\ UNCHANGED <<res, procVars>> /\ OnlyPc

V_Acquire(c) ==
    LET s == res[c]
    IN /\ At(c, "V_acquire")
       /\ slock[s] = NoCtx
       /\ slock' = [slock EXCEPT ![s] = c]
       /\ value' = [value EXCEPT ![s] = @ + 1]
       /\ Goto(c, IF value[s] + 1 <= 0 THEN "wake_find" ELSE "sem_release")
       /\ UNCHANGED <<res, procVars>> /\ OnlyPc

(* The end of semaphore_V, and of a semaphore_P that did not block. *)
SemRelease(c) ==
    /\ At(c, "sem_release")
    /\ slock' = [slock EXCEPT ![res[c]] = NoCtx]
    /\ Goto(c, IF c \in Cpus THEN "intr_exit" ELSE "run")
    /\ res' = [res EXCEPT ![c] = NoRes]
    /\ UNCHANGED <<value, procVars>> /\ OnlyPc

(* After sleepq_add: semaphore_P releases the semaphore's lock, process_join *)
(* the process table's; both go on to thread_switch.                         *)
SleepRelease(t) ==
    /\ At(t, "sleep_release")
    /\ IF res[t] \in Sems
       THEN slock' = [slock EXCEPT ![res[t]] = NoCtx] /\ UNCHANGED ptable_slock
       ELSE ptable_slock' = NoCtx /\ UNCHANGED slock
    /\ Goto(t, "sw0")
    /\ UNCHANGED <<res, value, zombie>> /\ OnlyPc

(* thread_switch: a blocked semaphore_P returns when it is over, the loop of *)
(* process_join goes round, a yielding thread goes on.                       *)
Switch(cpu, t) ==
    /\ At(t, "sw0")
    /\ SoftwareInterrupt(cpu, t, IF res[t] \in Events THEN "join_acquire" ELSE "run")
    /\ UNCHANGED <<semVars, procVars>>

----------------------------------------------------------------------------
(* process.c: the sleeping of process_join and the waking of process_finish *)
(* Mutant: the lock is released before the thread is in the sleep queue. *)
JoinAcquire_unlocked(t) ==
    LET e == res[t]
    IN /\ At(t, "join_acquire")
       /\ ptable_slock = NoCtx
       /\ IF zombie[e]
          THEN /\ zombie' = [zombie EXCEPT ![e] = FALSE]
               /\ res' = [res EXCEPT ![t] = NoRes]
               /\ Goto(t, "run")
          ELSE Goto(t, "sleepq_mark") /\ UNCHANGED <<res, zombie>>
       /\ UNCHANGED <<semVars, ptable_slock>> /\ OnlyPc

JoinAcquire(t) ==
    LET e == res[t]
    IN /\ At(t, "join_acquire")
       /\ ptable_slock = NoCtx
       /\ IF zombie[e]
          THEN /\ zombie' = [zombie EXCEPT ![e] = FALSE]
               /\ res' = [res EXCEPT ![t] = NoRes]
               /\ Goto(t, "run")
               /\ UNCHANGED ptable_slock
          ELSE /\ ptable_slock' = t
               /\ Goto(t, "sleepq_mark")
               /\ UNCHANGED <<res, zombie>>
       /\ UNCHANGED semVars /\ OnlyPc

(* Mutant: process_finish wakes nobody. *)
ExitAcquire_no_wake(t) ==
    /\ At(t, "exit_acquire")
    /\ ptable_slock = NoCtx
    /\ ptable_slock' = t
    /\ zombie' = [zombie EXCEPT ![res[t]] = TRUE]
    /\ Goto(t, "exit_release")
    /\ UNCHANGED <<res, semVars>> /\ OnlyPc

ExitAcquire(t) ==
    /\ At(t, "exit_acquire")
    /\ ptable_slock = NoCtx
    /\ ptable_slock' = t
    /\ zombie' = [zombie EXCEPT ![res[t]] = TRUE]
    /\ Goto(t, "wakeall_find")
    /\ UNCHANGED <<res, semVars>> /\ OnlyPc

ExitRelease(t) ==
    /\ At(t, "exit_release")
    /\ ptable_slock' = NoCtx
    /\ Goto(t, "thread_finish")
    /\ UNCHANGED <<res, semVars, zombie>> /\ OnlyPc

----------------------------------------------------------------------------
(* The operations as the threads and the handlers perform them. *)
semaphore_P(t) ==
    \/ \E s \in Sems : Call(t, s, "P_acquire")
    \/ P_Acquire(t)

semaphore_V(c) ==
    \/ \E s \in Sems : value[s] < MaxValue /\ Call(c, s, "V_acquire")
    \/ V_Acquire(c)
    \/ /\ WakeFind(c, "wake_find", "wake_ready", "sem_release")
       /\ UNCHANGED <<semVars, procVars>>
    \/ /\ WakeReady(c, "wake_ready", "sem_release", NoCtx)
       /\ UNCHANGED <<semVars, procVars>>

sleepq_add(t) ==
    /\ SleepqMark(t) \/ SleepqAppend(t)
    /\ UNCHANGED <<semVars, procVars>>

process_join(t) ==
    \/ \E e \in Events : Call(t, e, "join_acquire")
    \/ JoinAcquire(t)

process_finish(t) ==
    \/ \E e \in Events : ~zombie[e] /\ Call(t, e, "exit_acquire")
    \/ ExitAcquire(t)
    \/ /\ WakeFind(t, "wakeall_find", "wakeall_ready", "exit_release")
       /\ UNCHANGED <<semVars, procVars>>
    \/ /\ WakeReady(t, "wakeall_ready", "wakeall_find", t)
       /\ UNCHANGED <<semVars, procVars>>
    \/ ExitRelease(t)
    \/ /\ \/ FinishMark(t, "thread_finish", "exit_finish")
          \/ \E cpu \in Cpus : FinishSwitch(cpu, t, "exit_finish")
          \/ FinishReturn(t)
       /\ UNCHANGED <<semVars, procVars>>

thread_create(t) ==
    /\ CreateReserve(t) \/ CreateInit(t) \/ CreateRun(t)
    /\ UNCHANGED <<semVars, procVars>>

thread_switch(t) ==
    \/ Call(t, NoRes, "sw0")
    \/ \E cpu \in Cpus : Switch(cpu, t)

thread_finish(t) ==
    /\ FinishMark(t, "run", "finish") \/ \E cpu \in Cpus : FinishSwitch(cpu, t, "finish")
    /\ UNCHANGED <<semVars, procVars>>

(* A device interrupt: the handler raises one semaphore, as the disk, tty    *)
(* and network drivers do.                                                   *)
DeviceInterrupt(cpu) ==
    /\ \E s \in DeviceSems, timer \in BOOLEAN :
         value[s] < MaxValue /\ InterruptEnter(cpu, s, timer)
    /\ Goto(cpu, "V_acquire")
    /\ UNCHANGED <<semVars, procVars>>

interrupt_handle(cpu) ==
    \/ (TimerInterrupt(cpu) \/ InterruptExit(cpu)) /\ UNCHANGED <<semVars, procVars>>
    \/ DeviceInterrupt(cpu)

ThreadStep(t) ==
    \/ semaphore_P(t) \/ semaphore_V(t) \/ sleepq_add(t) \/ SleepRelease(t)
    \/ SemRelease(t) \/ process_join(t) \/ process_finish(t)
    \/ thread_create(t) \/ thread_switch(t) \/ thread_finish(t)

HandlerStep(cpu) == semaphore_V(cpu) \/ SemRelease(cpu)

Next ==
    \/ \E t \in Threads : ThreadStep(t)
    \/ \E cpu \in Cpus : HandlerStep(cpu) \/ interrupt_handle(cpu)

Spec == Init /\ [][Next]_vars

----------------------------------------------------------------------------
Labels == Preemptible \union
    {"none", "intr_exit", "P_acquire", "V_acquire", "sem_release", "sleepq_mark",
     "sleepq_append", "sleep_release", "wake_find", "wake_ready", "join_acquire",
     "exit_acquire", "wakeall_find", "wakeall_ready", "exit_release"}

(* The variables have their types. *)
TypeOK ==
    /\ ThreadTypeOK
    /\ pc \in [Ctx -> Labels]
    /\ value \in [Sems -> Int]
    /\ slock \in [Sems -> Ctx \union {NoCtx}]
    /\ zombie \in [Events -> BOOLEAN]
    /\ ptable_slock \in Ctx \union {NoCtx}

(* While its lock is free, a semaphore's negative value counts exactly the   *)
(* threads that sleep on it: no waiter is forgotten by semaphore_V, no thread *)
(* passes semaphore_P without a unit.                                        *)
SemaphoreCountOK ==
    \A s \in Sems : slock[s] = NoCtx =>
        Cardinality({t \in Threads : sleeps_on[t] = s}) = IF value[s] < 0 THEN -value[s] ELSE 0

(* No wake-up is lost between the test of process_join and its sleep: once   *)
(* process_finish has made the slot a zombie and let go of the lock, nobody  *)
(* sleeps on it.                                                             *)
JoinWakeupOK ==
    \A e \in Events : zombie[e] /\ ptable_slock = NoCtx =>
        \A t \in Threads : sleeps_on[t] # e

----------------------------------------------------------------------------
(* The rest of the inductive invariant: where a context is when it holds a   *)
(* thread, a resource or the sleep queue's lock.                             *)

(* Threads and handlers stay at their own labels. *)
HandlerLabels == {"none", "intr_exit", "V_acquire", "wake_find", "wake_ready", "sem_release"}
LabelsOK ==
    /\ \A cpu \in Cpus : pc[cpu] \in HandlerLabels
    /\ \A t \in Tid : pc[t] \notin {"none", "intr_exit"}
    /\ pc[Idle] = "run"

(* The argument of a call is there while the call uses it. *)
ArgumentsOK ==
    /\ \A c \in Ctx : pc[c] \in {"P_acquire", "V_acquire", "sem_release", "wake_find", "wake_ready"}
                        => res[c] \in Sems
    /\ \A c \in Ctx : pc[c] \in {"join_acquire", "exit_acquire", "wakeall_find", "wakeall_ready",
                                   "exit_release"}
                        => res[c] \in Events
    /\ \A c \in Ctx : pc[c] \in {"sleepq_mark", "sleepq_append", "sleep_release"}
                        => res[c] \in Resources

(* A thread that runs with interrupts disabled is on a CPU and not interrupted; *)
(* only the loop of process_join is left and resumed with interrupts disabled.  *)
InterruptsOffOK ==
    \A t \in Threads : pc[t] \notin Preemptible \union {"join_acquire"} => Runs(t)

(* A thread that a CPU is about to take off in interrupt_handle. *)
SwitchedOff(t) ==
    \E cpu \in Cpus : current[cpu] = t /\ pc[cpu] = "intr_exit" /\ resched[cpu]

(* A thread sleeps on a resource only between sleepq_add and its thread_switch. *)
SleepLabelsOK ==
    \A t \in Threads : sleeps_on[t] # NoRes =>
        \/ pc[t] \in {"sleepq_append", "sleep_release", "sw0"}
        \/ pc[t] \in {"run", "join_acquire"} /\ (state[t] = "SLEEPING" \/ SwitchedOff(t))

(* A thread between the two halves of sleepq_add is linked to nothing. *)
AppendOK ==
    \A t \in Threads : pc[t] = "sleepq_append" => sleeps_on[t] = res[t] /\ next[t] = Nil

(* A thread being woken has been taken out by the holder of sleepq_slock. *)
WakingOK ==
    \A c \in Ctx : pc[c] \in {"wake_ready", "wakeall_ready"} =>
        /\ sleepq_slock = c
        /\ tid[c] \in Threads
        /\ sleeps_on[tid[c]] # NoRes
        /\ pc[tid[c]] # "sleepq_append"

(* A thread being created belongs to one creator, and starts at its beginning. *)
CreateOK ==
    /\ \A c \in Ctx : pc[c] \in {"create_init", "create_run"} =>
          tid[c] \in Threads /\ state[tid[c]] = "NONREADY"
    /\ \A c \in Ctx : pc[c] = "create_run" => pc[tid[c]] = "run"
    /\ \A c, d \in Ctx : /\ pc[c] \in {"create_init", "create_run"}
                          /\ pc[d] \in {"create_init", "create_run"}
                          /\ tid[c] = tid[d]
                          => c = d

(* Only live threads are inside a call; a thread that has marked itself DYING *)
(* is in thread_finish, and after its software interrupt it is taken off.     *)
LifeOK ==
    /\ \A t \in Threads : pc[t] \notin {"run", "finish", "exit_finish", "returned", "panic"}
                            => state[t] \in {"RUNNING", "READY", "SLEEPING"}
    /\ \A t \in Threads : pc[t] \in {"finish", "exit_finish", "returned", "panic"}
                            => state[t] \in {"DYING", "FREE", "NONREADY"}
    /\ \A t \in Threads : state[t] = "DYING" => pc[t] \in {"finish", "exit_finish", "returned", "panic"}
    /\ \A t \in Threads : pc[t] = "panic" /\ state[t] = "DYING" => SwitchedOff(t)

(* The thread table, its lists and the labels of the contexts.               *)
TableInv ==
    /\ TypeOK
    /\ ReadyListOK /\ CurrentOK /\ SleepQueueOK /\ SleepStateOK
    /\ LabelsOK /\ ArgumentsOK /\ InterruptsOffOK /\ SleepLabelsOK
    /\ AppendOK /\ WakingOK /\ CreateOK /\ LifeOK

----------------------------------------------------------------------------
(* Who waits for what: the locks of semaphores and of the process table.     *)
SleepLabels == {"sleepq_mark", "sleepq_append", "sleep_release"}
SemLabels == {"sem_release", "wake_find", "wake_ready"}
TableLabels == {"wakeall_find", "wakeall_ready", "exit_release"}

HoldsSem(c, s) == pc[c] \in SleepLabels \union SemLabels /\ res[c] = s
HoldsTable(c) == pc[c] \in TableLabels \/ (pc[c] \in SleepLabels /\ res[c] \in Events)

(* A lock is held exactly by the context whose label is inside its section. *)
LocksOK ==
    /\ \A s \in Sems, c \in Ctx : HoldsSem(c, s) <=> slock[s] = c
    /\ \A c \in Ctx : HoldsTable(c) <=> ptable_slock = c

Sleeping(r) == {t \in Threads : sleeps_on[t] = r}
Owed(s) == IF value[s] < 0 THEN -value[s] ELSE 0

(* The holder of a semaphore's lock is one sleeper short between the test of *)
(* semaphore_P and its sleepq_add, and has one too many from the test of     *)
(* semaphore_V until the thread is woken.                                    *)
Pending(c) ==
    IF pc[c] = "sleepq_mark" THEN 1 ELSE IF pc[c] \in {"wake_find", "wake_ready"} THEN -1 ELSE 0

CountsOK ==
    \A s \in Sems :
        /\ slock[s] = NoCtx => Cardinality(Sleeping(s)) = Owed(s)
        /\ \A c \in Ctx : slock[s] = c => Cardinality(Sleeping(s)) + Pending(c) = Owed(s)

(* The thread that sleepq_wake has taken out slept on what is being woken. *)
WokenOK ==
    \A c \in Ctx : pc[c] \in {"wake_ready", "wakeall_ready"} => sleeps_on[tid[c]] = res[c]

(* Nobody sleeps, or is about to, on a zombie but for the threads that       *)
(* process_finish is just waking.                                            *)
JoinersOK ==
    \A e \in Events : zombie[e] =>
        /\ \/ Sleeping(e) = {}
           \/ \E c \in Ctx : pc[c] \in {"wakeall_find", "wakeall_ready"} /\ res[c] = e
        /\ \A c \in Ctx : pc[c] \in SleepLabels => res[c] # e

WaitInv == LocksOK /\ CountsOK /\ WokenOK /\ JoinersOK

(* The inductive invariant of the kernel. *)
KernelInv == TableInv /\ WaitInv

----------------------------------------------------------------------------
(* The kernel's semaphores implement CountingSemaphore.  P and V take effect *)
(* when they change a non-negative value; a P that blocks takes effect when  *)
(* sleepq_add links the thread, a V that wakes when sleepq_wake unlinks one. *)
Units == [s \in Sems |-> IF value[s] > 0 THEN value[s] ELSE 0]

(* The threads linked into a chain to wait for s; t and those before it.     *)
Line(s) == {t \in Queued(Hash[s]) : sleeps_on[t] = s}
UpTo(s, t) == {u \in Line(s) : t \in ListFrom(Queued(Hash[s]), u, next)}

(* The thread at place i of the line, and the line in order. *)
Place(s, i) == {t \in Line(s) : Cardinality(UpTo(s, t)) = i}
Waiting == [s \in Sems |-> [i \in 1 .. Cardinality(Line(s)) |-> CHOOSE t \in Place(s, i) : TRUE]]

CS == INSTANCE CountingSemaphore WITH units <- Units, waiting <- Waiting

(* Every step of semaphore.c and sleepq.c, on all CPUs and in interrupt      *)
(* handlers, is a step of a counting semaphore with a first-come             *)
(* first-served queue, or none: no unit is lost, made up or taken past a     *)
(* waiting thread.                                                           *)
ImplementsCountingSemaphore == CS!Spec
=============================================================================
