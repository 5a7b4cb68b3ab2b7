----------------------------- MODULE ThreadTable -----------------------------
(***************************************************************************)
(* The thread table, the scheduler's ready list and the sleep queue of the  *)
(* BUENOS kernel (kernel/thread.c, scheduler.c, sleepq.c, interrupt.c), as  *)
(* shared state and the steps that change it.  The clients of these steps   *)
(* are semaphores and process_join/process_finish: see module Kernel.       *)
(*                                                                          *)
(* A context is a thread, identified by its index in thread_table, or a     *)
(* CPU, which stands for the interrupt handler running on that CPU.  Every  *)
(* context has a program counter.  What thread_table_slock protects is one  *)
(* step, because nothing else is acquired while it is held and interrupts   *)
(* are disabled; sleepq_slock is held across two steps in sleepq_wake and   *)
(* is therefore a variable.                                                 *)
(***************************************************************************)
EXTENDS LinkedList, FiniteSets

CONSTANTS
    MaxThreads,     \* CONFIG_MAX_THREADS
    Cpus,           \* the processors, also the contexts of their handlers
    Resources,      \* addresses threads sleep on
    NoRes,          \* sleeps_on = 0
    Buckets,        \* indexes of sleepq_hashtable
    Hash,           \* SLEEPQ_HASH
    NoCtx           \* nobody: the holder of a free spinlock

VARIABLES
    state,          \* thread_table[t].state
    sleeps_on,      \* thread_table[t].sleeps_on
    next,           \* thread_table[t].next, shared by both kinds of list
    head, tail,     \* scheduler_ready_to_run
    current,        \* scheduler_current_thread
    next_tid,       \* the static variable of thread_create
    hashtable,      \* sleepq_hashtable
    sleepq_slock,   \* the context that holds it
    in_interrupt,   \* _is_in_interrupt, one flag for all CPUs
    pc,             \* where each context is
    res,            \* the resource argument of the call it is in
    tid,            \* the local variable tid (thread_create), first (sleepq_wake)
    resched         \* the cause of the interrupt a CPU handles asks to schedule

tableVars == <<state, sleeps_on, next>>
listVars  == <<head, tail>>
queueVars == <<hashtable, sleepq_slock>>

Idle == 0                           \* IDLE_THREAD_TID
Tid  == 0 .. (MaxThreads - 1)
Threads == Tid \ {Idle}
Ctx  == Tid \union Cpus

ThreadStates == {"FREE", "RUNNING", "READY", "SLEEPING", "NONREADY", "DYING"}

ASSUME MaxThreadsAssumption == MaxThreads \in Nat /\ MaxThreads > 1
ASSUME CpusAssumption == Cpus \intersect Int = {} /\ NoCtx \notin Tid \union Cpus
ASSUME NoResAssumption == NoRes \notin Resources
ASSUME HashAssumption == Hash \in [Resources -> Buckets]

----------------------------------------------------------------------------
(* Boot: init() creates the startup thread, then every CPU enters the       *)
(* context switch with the idle thread as its current thread.               *)
InitThreads ==
    /\ state = [t \in Tid |-> IF t \in {Idle, 1} THEN "READY" ELSE "FREE"]
    /\ sleeps_on = [t \in Tid |-> NoRes]
    /\ next = [t \in Tid |-> Nil]
    /\ head = 1 /\ tail = 1
    /\ current = [cpu \in Cpus |-> Idle]
    /\ next_tid = 2 % MaxThreads
    /\ hashtable = [b \in Buckets |-> Nil]
    /\ sleepq_slock = NoCtx
    /\ in_interrupt = FALSE
    /\ pc = [c \in Ctx |-> IF c \in Tid THEN "run" ELSE "none"]
    /\ res = [c \in Ctx |-> NoRes]
    /\ tid = [c \in Ctx |-> Nil]
    /\ resched = [cpu \in Cpus |-> FALSE]

(* A thread executes on the CPU whose current thread it is, unless that CPU *)
(* is in an interrupt handler; a handler executes while its pc is set.      *)
Runs(t) == t \in Threads /\ \E cpu \in Cpus : current[cpu] = t /\ pc[cpu] = "none"
At(c, label) == pc[c] = label /\ (c \in Cpus \/ Runs(c))
Goto(c, label) == pc' = [pc EXCEPT ![c] = label]

(* Mutant: semaphores are used with interrupts enabled. *)
Preemptible_in_sem == {"run", "sw0", "create_init", "create_run", "thread_finish",
                       "finish", "exit_finish", "returned", "panic", "sem_release"}

(* The labels at which a thread runs with interrupts enabled. *)
Preemptible == {"run", "sw0", "create_init", "create_run", "thread_finish",
                "finish", "exit_finish", "returned", "panic"}

----------------------------------------------------------------------------
(* scheduler.c.  The ready list is the record [head, tail, next].           *)
ReadyList == [head |-> head, tail |-> tail, next |-> next]

(* Mutant: the thread is put first. *)
scheduler_add_to_ready_list_first(q, t) ==
    [head |-> t, tail |-> IF q.tail < 0 THEN t ELSE q.tail,
     next |-> [q.next EXCEPT ![t] = q.head]]

scheduler_add_to_ready_list(q, t) ==
    IF q.tail < 0
    THEN [head |-> t, tail |-> t, next |-> [q.next EXCEPT ![t] = Nil]]
    ELSE [head |-> q.head, tail |-> t,
          next |-> [q.next EXCEPT ![q.tail] = t, ![t] = Nil]]

(* Mutant: the tail of an emptied list is not reset. *)
scheduler_remove_first_ready_stale_tail(q) ==
    IF q.head >= 0 THEN [head |-> q.next[q.head], tail |-> q.tail, next |-> q.next] ELSE q

(* The list without its first thread; the thread itself is FirstReady(q). *)
scheduler_remove_first_ready(q) ==
    IF q.head >= 0
    THEN [head |-> q.next[q.head],
          tail |-> IF q.tail = q.head THEN Nil ELSE q.tail,
          next |-> q.next]
    ELSE q

FirstReady(q) == IF q.head < 0 THEN Idle ELSE q.head

SetReadyList(q) == head' = q.head /\ tail' = q.tail /\ next' = q.next

(* Mutant: a dying thread is treated as any other. *)
StateAfter_no_dying(t) == IF sleeps_on[t] # NoRes THEN "SLEEPING" ELSE "READY"

(* What becomes of the thread a CPU stops running. *)
StateAfter(t) ==
    IF state[t] = "DYING" THEN "FREE"
    ELSE IF sleeps_on[t] # NoRes THEN "SLEEPING" ELSE "READY"

scheduler_schedule(cpu) ==
    LET t == current[cpu]
        q == IF StateAfter(t) = "READY" /\ t # Idle
             THEN scheduler_add_to_ready_list(ReadyList, t) ELSE ReadyList
        u == FirstReady(q)
    IN /\ state' = [state EXCEPT ![t] = StateAfter(t), ![u] = "RUNNING"]
       /\ SetReadyList(scheduler_remove_first_ready(q))
       /\ current' = [current EXCEPT ![cpu] = u]

----------------------------------------------------------------------------
(* interrupt.c.  An interrupt is taken by a CPU whose thread has interrupts *)
(* enabled.  s is the argument of the device handler it runs, if any, and   *)
(* sched says that the cause includes HW5 or SW0.                           *)
InterruptEnter(cpu, s, sched) ==
    /\ pc[cpu] = "none"
    /\ pc[current[cpu]] \in Preemptible
    /\ in_interrupt' = TRUE
    /\ res' = [res EXCEPT ![cpu] = s]
    /\ resched' = [resched EXCEPT ![cpu] = sched]
    /\ UNCHANGED <<tableVars, listVars, queueVars, current, next_tid, tid>>

(* The time slice of the current thread is over, or the idle thread is woken. *)
TimerInterrupt(cpu) ==
    /\ InterruptEnter(cpu, NoRes, TRUE)
    /\ Goto(cpu, "intr_exit")

(* Software interrupt 0, raised by the current thread, which continues at   *)
(* the label resume when it runs again.                                     *)
SoftwareInterrupt(cpu, t, resume) ==
    /\ current[cpu] = t /\ t \in Threads
    /\ InterruptEnter(cpu, NoRes, TRUE)
    /\ pc' = [pc EXCEPT ![t] = resume, ![cpu] = "intr_exit"]

(* The end of interrupt_handle, after the device handlers. *)
InterruptExit(cpu) ==
    /\ pc[cpu] = "intr_exit"
    /\ in_interrupt' = FALSE
    /\ IF resched[cpu] \/ current[cpu] = Idle
       THEN scheduler_schedule(cpu)
       ELSE UNCHANGED <<tableVars, listVars, current>>
    /\ Goto(cpu, "none")
    /\ resched' = [resched EXCEPT ![cpu] = FALSE]
    /\ res' = [res EXCEPT ![cpu] = NoRes]
    /\ UNCHANGED <<sleeps_on, queueVars, next_tid, tid>>

----------------------------------------------------------------------------
(* thread.c: thread_create in two steps, thread_run, thread_finish.  When   *)
(* the table is full thread_create returns -1 and changes nothing.          *)

(* The order in which thread_create tries the entries, idle skipped. *)
Candidate(i) == (i + next_tid) % MaxThreads
FreeAt(i) == Candidate(i) # Idle /\ state[Candidate(i)] = "FREE"

TidAfter(t) == (t + 1) % MaxThreads

CreateReserve(c) ==
    /\ At(c, "run")
    /\ \E i \in Tid :
         /\ FreeAt(i)
         /\ \A j \in Tid : j < i => ~FreeAt(j)
         /\ tid' = [tid EXCEPT ![c] = Candidate(i)]
         /\ next_tid' = TidAfter(Candidate(i))
         /\ state' = [state EXCEPT ![Candidate(i)] = "NONREADY"]
    /\ Goto(c, "create_init")
    /\ UNCHANGED <<sleeps_on, next, listVars, queueVars, current, in_interrupt,
                   res, resched>>

(* The entry is filled in after thread_table_slock has been released. *)
CreateInit(c) ==
    /\ At(c, "create_init")
    /\ sleeps_on' = [sleeps_on EXCEPT ![tid[c]] = NoRes]
    /\ next' = [next EXCEPT ![tid[c]] = Nil]
    /\ pc' = [pc EXCEPT ![tid[c]] = "run", ![c] = "create_run"]
    /\ UNCHANGED <<state, listVars, queueVars, current, next_tid, in_interrupt,
                   res, tid, resched>>

(* thread_run, that is scheduler_add_ready. *)
CreateRun(c) ==
    /\ At(c, "create_run")
    /\ SetReadyList(scheduler_add_to_ready_list(ReadyList, tid[c]))
    /\ state' = [state EXCEPT ![tid[c]] = "READY"]
    /\ tid' = [tid EXCEPT ![c] = Nil]
    /\ Goto(c, "run")
    /\ UNCHANGED <<sleeps_on, queueVars, current, next_tid, in_interrupt, res,
                   resched>>

(* thread_finish up to the moment interrupts are enabled again. *)
FinishMark(c, from, to) ==
    /\ At(c, from)
    /\ state' = [state EXCEPT ![c] = "DYING"]
    /\ Goto(c, to)
    /\ res' = [res EXCEPT ![c] = NoRes]
    /\ UNCHANGED <<sleeps_on, next, listVars, queueVars, current, next_tid,
                   in_interrupt, tid, resched>>

(* The rest of it.  While some CPU is inside an interrupt handler the       *)
(* function returns instead: to itself, for a thread whose main function    *)
(* has returned, because its return address is thread_finish.               *)
FinishSwitch(cpu, t, label) ==
    /\ At(t, label)
    /\ ~in_interrupt
    /\ SoftwareInterrupt(cpu, t, "panic")

(* To process_finish, and from there to userland, when it was called to end *)
(* a process: the program goes on without a page table until the timer.     *)
FinishReturn(t) ==
    /\ At(t, "exit_finish")
    /\ in_interrupt
    /\ Goto(t, "returned")
    /\ UNCHANGED <<tableVars, listVars, queueVars, current, next_tid, in_interrupt,
                   res, tid, resched>>

----------------------------------------------------------------------------
(* sleepq.c.  The threads of a chain, from its first one up to the one at   *)
(* which the traversal stops: the least set that holds the first and, with  *)
(* every thread that does not sleep on stop, the next one.                  *)
Follows(S, b, stop) ==
    /\ hashtable[b] > 0 => hashtable[b] \in S
    /\ \A t \in S : sleeps_on[t] # stop /\ next[t] > 0 => next[t] \in S

Walk(b, stop) == {t \in Threads : \A S \in SUBSET Threads : Follows(S, b, stop) => t \in S}

(* sleepq_add up to the acquisition of sleepq_slock. *)
SleepqMark(t) ==
    /\ At(t, "sleepq_mark")
    /\ next' = [next EXCEPT ![t] = Nil]
    /\ sleeps_on' = [sleeps_on EXCEPT ![t] = res[t]]
    /\ Goto(t, "sleepq_append")
    /\ UNCHANGED <<state, listVars, queueVars, current, next_tid, in_interrupt,
                   res, tid, resched>>

(* The rest of sleepq_add: chain the thread to the end of the list. *)
SleepqAppend(t) ==
    LET b == Hash[res[t]]
    IN /\ At(t, "sleepq_append")
       /\ sleepq_slock = NoCtx
       /\ IF hashtable[b] <= 0
          THEN hashtable' = [hashtable EXCEPT ![b] = t] /\ UNCHANGED next
          ELSE /\ \E last \in Walk(b, NoRes) :
                    next[last] <= 0 /\ next' = [next EXCEPT ![last] = t]
               /\ UNCHANGED hashtable
       /\ Goto(t, "sleep_release")
       /\ UNCHANGED <<state, sleeps_on, listVars, sleepq_slock, current,
                      next_tid, in_interrupt, res, tid, resched>>

(* Mutant: the threads before the one found are cut off with it. *)
Unlink_head_only(c, first) ==
    /\ hashtable' = [hashtable EXCEPT ![Hash[res[c]]] = next[first]]
    /\ tid' = [tid EXCEPT ![c] = first]
    /\ sleepq_slock' = c
    /\ UNCHANGED next

(* Take the first thread that sleeps on res[c] out of its chain. *)
Unlink(c, first) ==
    LET b == Hash[res[c]]
    IN /\ IF hashtable[b] = first
          THEN hashtable' = [hashtable EXCEPT ![b] = next[first]] /\ UNCHANGED next
          ELSE /\ \E prev \in Walk(b, res[c]) :
                    next[prev] = first /\ next' = [next EXCEPT ![prev] = next[first]]
               /\ UNCHANGED hashtable
       /\ tid' = [tid EXCEPT ![c] = first]
       /\ sleepq_slock' = c

Sleeper(c, t) == t \in Walk(Hash[res[c]], res[c]) /\ sleeps_on[t] = res[c]

(* sleepq_wake (and each round of sleepq_wake_all): the search.  A context  *)
(* that finds a thread keeps sleepq_slock; one that does not releases it.   *)
WakeFind(c, label, found, done) ==
    /\ At(c, label)
    /\ sleepq_slock \in {NoCtx, c}
    /\ \/ \E first \in Threads : Sleeper(c, first) /\ Unlink(c, first)
          /\ Goto(c, found)
       \/ /\ \A t \in Threads : ~Sleeper(c, t)
          /\ sleepq_slock' = NoCtx
          /\ Goto(c, done)
          /\ UNCHANGED <<hashtable, next, tid>>
    /\ UNCHANGED <<state, sleeps_on, listVars, current, next_tid, in_interrupt,
                   res, resched>>

(* Mutant: a thread that has not been switched off yet is made ready as well. *)
WakeReady_unconditional(c, label, done, holder) ==
    LET w == tid[c]
        q == [head |-> head, tail |-> tail, next |-> [next EXCEPT ![w] = Nil]]
    IN /\ At(c, label)
       /\ sleeps_on' = [sleeps_on EXCEPT ![w] = NoRes]
       /\ state' = [state EXCEPT ![w] = "READY"]
       /\ SetReadyList(scheduler_add_to_ready_list(q, w))
       /\ tid' = [tid EXCEPT ![c] = Nil]
       /\ sleepq_slock' = holder
       /\ Goto(c, done)
       /\ UNCHANGED <<hashtable, current, next_tid, in_interrupt, res, resched>>

(* The part of sleepq_wake and sleepq_wake_all under thread_table_slock. *)
WakeReady(c, label, done, holder) ==
    LET w == tid[c]
        cleared == [next EXCEPT ![w] = Nil]
        q == [head |-> head, tail |-> tail, next |-> cleared]
    IN /\ At(c, label)
       /\ sleeps_on' = [sleeps_on EXCEPT ![w] = NoRes]
       /\ IF state[w] = "SLEEPING"
          THEN /\ state' = [state EXCEPT ![w] = "READY"]
               /\ SetReadyList(scheduler_add_to_ready_list(q, w))
          ELSE next' = cleared /\ UNCHANGED <<state, listVars>>
       /\ tid' = [tid EXCEPT ![c] = Nil]
       /\ sleepq_slock' = holder
       /\ Goto(c, done)
       /\ UNCHANGED <<hashtable, current, next_tid, in_interrupt, res, resched>>
----------------------------------------------------------------------------
(* What the thread table must satisfy. *)

ThreadTypeOK ==
    /\ state \in [Tid -> ThreadStates]
    /\ sleeps_on \in [Tid -> Resources \union {NoRes}]
    /\ next \in [Tid -> Threads \union {Nil}]
    /\ head \in Threads \union {Nil} /\ tail \in Threads \union {Nil}
    /\ current \in [Cpus -> Tid]
    /\ next_tid \in Tid
    /\ hashtable \in [Buckets -> Threads \union {Nil}]
    /\ sleepq_slock \in Ctx \union {NoCtx}
    /\ in_interrupt \in BOOLEAN
    /\ res \in [Ctx -> Resources \union {NoRes}]
    /\ tid \in [Ctx -> Threads \union {Nil}]
    /\ resched \in [Cpus -> BOOLEAN]

ReadyThreads == {t \in Threads : state[t] = "READY"}

(* The ready list holds exactly the threads in state READY, each once, and   *)
(* tail is its last one.  scheduler_remove_first_ready asserts a consequence *)
(* (scheduler.c:121-125); a thread dropped from the list never runs again.   *)
ReadyListOK == IsQueue(ReadyThreads, head, tail, next)

(* No thread runs on two CPUs, a CPU runs only threads marked RUNNING or     *)
(* DYING, and every thread so marked has a CPU (scheduler_schedule).         *)
CurrentOK ==
    /\ \A cpu \in Cpus : current[cpu] # Idle => state[current[cpu]] \in {"RUNNING", "DYING"}
    /\ \A c1, c2 \in Cpus : current[c1] = current[c2] /\ current[c1] # Idle => c1 = c2
    /\ \A t \in Threads : state[t] \in {"RUNNING", "DYING"} => \E cpu \in Cpus : current[cpu] = t

(* The threads that the chain of bucket b must hold: they sleep, or are      *)
(* about to, on a resource of b, and are neither still to be appended nor    *)
(* already taken out by a context that wakes them.                           *)
Waking(t) == \E c \in Ctx : pc[c] \in {"wake_ready", "wakeall_ready"} /\ tid[c] = t
Queued(b) ==
    {t \in Threads : /\ sleeps_on[t] # NoRes /\ Hash[sleeps_on[t]] = b
                     /\ pc[t] # "sleepq_append" /\ ~Waking(t)}

(* Every chain of the sleep queue holds exactly the threads that sleep on    *)
(* its resources, although ready list and chains share the field next: no    *)
(* sleeper is out of reach of sleepq_wake.                                   *)
SleepQueueOK == \A b \in Buckets : IsList(Queued(b), hashtable[b], next)

(* A thread is SLEEPING only with a resource to wake it by, and a thread     *)
(* that could be put on the ready list, or has left, sleeps on nothing.      *)
SleepStateOK ==
    \A t \in Threads :
        IF sleeps_on[t] = NoRes THEN state[t] # "SLEEPING"
        ELSE state[t] \in {"RUNNING", "SLEEPING"}

(* thread_finish: "thread was not destroyed" (thread.c:335) is never reached: *)
(* a thread that marked itself DYING is not scheduled again.                  *)
PanicUnreachable == \A t \in Threads : ~At(t, "panic")

(* process_finish: "Stop the current process and the thread it runs in"       *)
(* (process.c:396): the process does not run on in userland.                  *)
ExitStopsProcess == \A t \in Threads : ~At(t, "returned")
=============================================================================
