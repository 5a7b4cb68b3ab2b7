----------------------------- MODULE MCLiveness -----------------------------
(* What must eventually happen in Kernel, for executions in which threads    *)
(* and devices start at most MaxOps operations.  The bound keeps the state   *)
(* space small and makes every lock free again in the end: the kernel's      *)
(* spinlocks are not fair, so nothing is claimed about a thread that spins   *)
(* against an endless succession of other holders.                           *)
EXTENDS MCKernel

CONSTANT MaxOps                     \* bound: operations started in all

VARIABLE ops

liveVars == <<vars, ops>>

(* The step starts an operation of a thread or of a device handler. *)
Starts ==
    \/ \E t \in Threads : Runs(t) /\ pc[t] = "run" /\ pc'[t] # "run"
    \/ \E cpu \in Cpus : pc[cpu] = "none" /\ pc'[cpu] = "V_acquire"

Count == ops' = (IF Starts THEN ops + 1 ELSE ops) /\ ops' <= MaxOps

LiveInit == Init /\ ops = 0

ThreadNext(t) == ThreadStep(t) /\ Count
CpuNext(cpu)  == (HandlerStep(cpu) \/ interrupt_handle(cpu)) /\ Count

LiveNext == (\E t \in Threads : ThreadNext(t)) \/ (\E cpu \in Cpus : CpuNext(cpu))

(* A thread inside an operation goes on each time it has the CPU, a handler  *)
(* runs to its end, and the timer interrupt, which stays pending until it is *)
(* served, is taken by a CPU whose interrupts are enabled again and again.   *)
Goes(t) == pc[t] # "run" /\ ThreadStep(t) /\ UNCHANGED ops
Handles(cpu) == (HandlerStep(cpu) \/ (InterruptExit(cpu) /\ UNCHANGED <<semVars, procVars>>))
                /\ UNCHANGED ops
Ticks(cpu) == TimerInterrupt(cpu) /\ UNCHANGED <<semVars, procVars, ops>>

Fairness ==
    /\ \A t \in Threads : SF_liveVars(Goes(t))
    /\ \A cpu \in Cpus : WF_liveVars(Handles(cpu)) /\ SF_liveVars(Ticks(cpu))

LiveSpec == LiveInit /\ [][LiveNext]_liveVars /\ Fairness

----------------------------------------------------------------------------
(* No thread starves: one on the ready list is given a CPU, since            *)
(* scheduler_schedule appends the preempted thread at the end of the list.   *)
ReadyRuns == \A t \in Threads : state[t] = "READY" ~> state[t] = "RUNNING"

(* A finished thread is freed even if thread_finish returns to itself        *)
(* because another CPU is in an interrupt handler (thread.c:331-335).        *)
DyingFreed == \A t \in Threads : state[t] = "DYING" ~> state[t] = "FREE"

(* A thread in process_join whose process has become a zombie is woken. *)
JoinerWoken ==
    \A t \in Threads, e \in Events : sleeps_on[t] = e /\ zombie[e] ~> sleeps_on[t] # e

(* No interrupt handler waits for ever for a semaphore's lock: its holder    *)
(* cannot be preempted, and is never the thread the handler interrupted.     *)
HandlerReturns == \A cpu \in Cpus : pc[cpu] # "none" ~> pc[cpu] = "none"
=============================================================================
