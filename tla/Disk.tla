--------------------------------- MODULE Disk ---------------------------------
(***************************************************************************)
(* The disk driver (drivers/disk.c) with its request queue                 *)
(* (drivers/disksched.c), between the threads that submit requests, the    *)
(* device, and the interrupt handler, which any CPU may run.               *)
(*                                                                         *)
(* A request is named by the thread that made it: its record lives on that *)
(* thread's stack.  Sections under the device's lock are one step, but for *)
(* the handler, which lets the waiting thread go in the middle of its own. *)
(* The semaphores are those of kernel/semaphore.c, as CountingSemaphore    *)
(* describes them; a request takes an entry of their table.                *)
(***************************************************************************)
EXTENDS Integers, Sequences, FiniteSets

CONSTANTS
    Clients,        \* the threads that use the disk
    Blocks, Values, \* the blocks and what a block may hold
    Readers,        \* the clients that read
    Written,        \* the values each client writes
    Handlers,       \* the CPUs
    Semaphores,     \* entries of semaphore_table
    Nobody          \* NULL

VARIABLES
    store,              \* the medium
    busy, irq,          \* the RBUSY/WBUSY and the RIRQ/WIRQ bits of the status port
    request_queue, request_served,
    slock,              \* the handler that holds the device's lock, or Nobody
    request,            \* the request of each client
    client,             \* where each client is in disk_submit_request
    handler,            \* where each CPU is in disk_interrupt_handle
    creator, units,     \* the semaphores: owner and value of each entry
    raising,            \* the semaphore the handler is in semaphore_V of, or none
    served              \* history: interrupts taken for the current request

diskVars == <<store, busy, irq, request_queue, request_served, slock, request,
              client, handler, creator, units, raising, served>>

ASSUME DiskAssumption ==
    /\ Nobody \notin Clients \union Handlers \union Semaphores
    /\ Readers \subseteq Clients /\ Written \in [Clients -> SUBSET Values]

NewRequest(op, b, v) == [op |-> op, block |-> b, buf |-> v, sem |-> Nobody,
                         return_value |-> -1, ret |-> 0]

(* disk_init. *)
DiskInit ==
    /\ store \in [Blocks -> Values]
    /\ busy = FALSE /\ irq = FALSE
    /\ request_queue = <<>> /\ request_served = Nobody
    /\ slock = Nobody
    /\ \E b \in Blocks, v \in Values : request = [t \in Clients |-> NewRequest("read", b, v)]
    /\ client = [t \in Clients |-> "idle"]
    /\ handler = [c \in Handlers |-> "none"]
    /\ creator = [s \in Semaphores |-> Nobody]
    /\ units = [s \in Semaphores |-> 0]
    /\ raising = Nobody
    /\ served = [t \in Clients |-> 0]

----------------------------------------------------------------------------
(* The callers. *)

(* disk_read_block and disk_write_block. *)
DiskCall(t) ==
    /\ client[t] = "idle"
    /\ \E b \in Blocks :
         \/ \E v \in Written[t] : request' = [request EXCEPT ![t] = NewRequest("write", b, v)]
         \/ t \in Readers /\ request' = [request EXCEPT ![t] = NewRequest("read", b, request[t].buf)]
    /\ client' = [client EXCEPT ![t] = "create"]
    /\ served' = [served EXCEPT ![t] = 0]
    /\ UNCHANGED <<store, busy, irq, request_queue, request_served, slock, handler, creator, units, raising>>

(* A synchronous request makes a semaphore.  The rest of the kernel uses the  *)
(* table as well, so that any entry may be the one that is found, or none.    *)
DiskCreate(t) ==
    /\ client[t] = "create"
    /\ \/ /\ client' = [client EXCEPT ![t] = "idle"]
          /\ UNCHANGED <<request, creator, units>>
       \/ \E s \in Semaphores :
            /\ creator[s] = Nobody
            /\ creator' = [creator EXCEPT ![s] = t]
            /\ units' = [units EXCEPT ![s] = 0]
            /\ request' = [request EXCEPT ![t].sem = s]
            /\ client' = [client EXCEPT ![t] = "submit"]
    /\ UNCHANGED <<store, busy, irq, request_queue, request_served, slock, handler, raising, served>>

(* Mutant: the new request goes to the front of the queue. *)
disksched_schedule_front(queue, t) == <<t>> \o queue

(* disksched_schedule: the queue with the request at its end. *)
disksched_schedule(queue, t) == Append(queue, t)

(* Mutant: the request that is put to work stays in the queue. *)
disk_next_request_kept(queue) ==
    /\ request_queue' = queue
    /\ request_served' = IF queue = <<>> THEN Nobody ELSE Head(queue)
    /\ busy' = (queue # <<>>)

(* disk_next_request: the first request of the queue is put to work, if      *)
(* there is one.                                                             *)
disk_next_request(queue) ==
    /\ request_queue' = IF queue = <<>> THEN <<>> ELSE Tail(queue)
    /\ request_served' = IF queue = <<>> THEN Nobody ELSE Head(queue)
    /\ busy' = (queue # <<>>)

(* A queued request is put to work at once if the driver is idle. *)
SubmitQueue(queue) ==
    IF request_served = Nobody
    THEN disk_next_request(queue)
    ELSE request_queue' = queue /\ UNCHANGED <<request_served, busy>>

(* Mutant: the queue is changed without the device's lock. *)
DiskSubmit_unlocked(t) ==
    /\ client[t] = "submit"
    /\ SubmitQueue(disksched_schedule(request_queue, t))
    /\ client' = [client EXCEPT ![t] = "wait"]
    /\ UNCHANGED <<store, irq, slock, request, handler, creator, units, raising, served>>

(* The section of disk_submit_request under the device's lock. *)
DiskSubmit(t) ==
    /\ client[t] = "submit"
    /\ slock = Nobody
    /\ SubmitQueue(disksched_schedule(request_queue, t))
    /\ client' = [client EXCEPT ![t] = "wait"]
    /\ UNCHANGED <<store, irq, slock, request, handler, creator, units, raising, served>>

(* Mutant: the caller does not wait for the request to be handled. *)
DiskWait_skipped(t) ==
    /\ client[t] = "wait"
    /\ client' = [client EXCEPT ![t] = "destroy"]
    /\ UNCHANGED <<store, busy, irq, request_queue, request_served, slock, request, handler,
                   creator, units, raising, served>>

(* The caller waits until the handler raises its semaphore. *)
DiskWait(t) ==
    /\ client[t] = "wait"
    /\ units[request[t].sem] > 0
    /\ units' = [units EXCEPT ![request[t].sem] = @ - 1]
    /\ client' = [client EXCEPT ![t] = "destroy"]
    /\ UNCHANGED <<store, busy, irq, request_queue, request_served, slock, request, handler,
                   creator, raising, served>>

(* The semaphore is given back and the return value is looked at. *)
DiskReturn(t) ==
    /\ client[t] = "destroy"
    /\ creator' = [creator EXCEPT ![request[t].sem] = Nobody]
    /\ request' = [request EXCEPT ![t].sem = Nobody,
                                  ![t].ret = IF request[t].return_value = 0 THEN 1 ELSE 0]
    /\ client' = [client EXCEPT ![t] = "idle"]
    /\ UNCHANGED <<store, busy, irq, request_queue, request_served, slock, handler, units, raising, served>>

disk_submit_request(t) ==
    DiskCall(t) \/ DiskCreate(t) \/ DiskSubmit(t) \/ DiskWait(t) \/ DiskReturn(t)

----------------------------------------------------------------------------
(* The device and its handler. *)

(* The device moves the data of the request it was given and raises its      *)
(* interrupt.                                                                *)
DiskTransfer ==
    LET r == request[request_served] IN
    /\ busy
    /\ IF r.op = "write"
       THEN store' = [store EXCEPT ![r.block] = r.buf] /\ UNCHANGED request
       ELSE request' = [request EXCEPT ![request_served].buf = store[r.block]] /\ UNCHANGED store
    /\ busy' = FALSE
    /\ irq' = TRUE
    /\ UNCHANGED <<request_queue, request_served, slock, client, handler, creator, units, raising, served>>

(* A CPU takes the interrupt, which is pending at all CPUs until it is reset. *)
DiskInterrupt(c) ==
    /\ handler[c] = "none"
    /\ irq
    /\ handler' = [handler EXCEPT ![c] = "acquire"]
    /\ UNCHANGED <<store, busy, irq, request_queue, request_served, slock, request, client,
                   creator, units, raising, served>>

ForUs == irq

(* The request as the handler leaves it. *)
HandledRequest(r) == [r EXCEPT !.return_value = 0]

(* The handler up to semaphore_V, which lets the caller go. *)
HandlerRaise(c) ==
    /\ handler[c] = "acquire"
    /\ slock = Nobody
    /\ IF ForUs
       THEN LET t == request_served IN
            /\ slock' = c
            /\ irq' = FALSE
            /\ handler' = [handler EXCEPT ![c] = "next"]
            /\ IF t = Nobody                     \* the kernel stops on an assertion
               THEN UNCHANGED <<request, units, raising, served>>
               ELSE /\ request' = [request EXCEPT ![t] = HandledRequest(@)]
                    /\ units' = [units EXCEPT ![request[t].sem] = @ + 1]
                    /\ raising' = request[t].sem
                    /\ served' = [served EXCEPT ![t] = @ + 1]
       ELSE /\ handler' = [handler EXCEPT ![c] = "none"]
            /\ UNCHANGED <<slock, irq, request, units, raising, served>>
    /\ UNCHANGED <<store, busy, request_queue, request_served, client, creator>>

(* The rest of the handler: the next request is put to work. *)
HandlerNext(c) ==
    /\ handler[c] = "next"
    /\ disk_next_request(request_queue)
    /\ slock' = Nobody /\ raising' = Nobody
    /\ handler' = [handler EXCEPT ![c] = "none"]
    /\ UNCHANGED <<store, irq, request, client, creator, units, served>>

disk_interrupt_handle(c) == DiskInterrupt(c) \/ HandlerRaise(c) \/ HandlerNext(c)

DiskNext ==
    \/ \E t \in Clients : disk_submit_request(t)
    \/ DiskTransfer
    \/ \E c \in Handlers : disk_interrupt_handle(c)

(* A thread that has made a request goes on, the device completes its work,  *)
(* a pending interrupt is taken and the handler runs to its end.             *)
DiskFairness ==
    /\ \A t \in Clients : WF_diskVars(client[t] # "idle" /\ disk_submit_request(t))
    /\ WF_diskVars(DiskTransfer)
    /\ \A c \in Handlers : WF_diskVars(disk_interrupt_handle(c))

DiskSpec == DiskInit /\ [][DiskNext]_diskVars /\ DiskFairness

----------------------------------------------------------------------------
(* gbd_request_t. *)
DiskRequests == [op : {"read", "write"}, block : Blocks, buf : Values,
                 sem : Semaphores \union {Nobody}, return_value : {-1, 0}, ret : {0, 1}]

(* The types of the driver's state. *)
DiskTypeOK ==
    /\ store \in [Blocks -> Values]
    /\ busy \in BOOLEAN /\ irq \in BOOLEAN
    /\ request_queue \in Seq(Clients) /\ request_served \in Clients \union {Nobody}
    /\ slock \in Handlers \union {Nobody}
    /\ request \in [Clients -> DiskRequests]
    /\ client \in [Clients -> {"idle", "create", "submit", "wait", "destroy"}]
    /\ handler \in [Handlers -> {"none", "acquire", "next"}]
    /\ creator \in [Semaphores -> Clients \union {Nobody}]
    /\ units \in [Semaphores -> Nat]
    /\ raising \in Semaphores \union {Nobody}
    /\ served \in [Clients -> Nat]

(* The assertions of disk_interrupt_handle and disk_next_request do not      *)
(* fail: no interrupt without a request being served, and no command to a    *)
(* device that is busy, from whichever CPU the handler runs.                 *)
DiskAssertions ==
    /\ \A c \in Handlers : handler[c] = "next" => request_served # Nobody /\ ~busy /\ ~irq
    /\ request_served = Nobody => ~busy /\ ~irq

(* The requests in the queue. *)
Queued == {request_queue[i] : i \in DOMAIN request_queue}

(* A request that waits is in the queue once, or being served, or has been   *)
(* handled, and its semaphore has been raised once then and not before: no   *)
(* request is lost, served twice or queued after its record has left the     *)
(* stack.                                                                    *)
DiskServedOnce ==
    /\ \A i, j \in DOMAIN request_queue : request_queue[i] = request_queue[j] => i = j
    /\ \A t \in Queued : client[t] = "wait" /\ served[t] = 0 /\ t # request_served
    /\ \A t \in Clients :
         client[t] = "wait" => /\ units[request[t].sem] = served[t]
                               /\ served[t] <= 1
                               /\ served[t] = 0 <=> \/ t = request_served /\ slock = Nobody
                                                    \/ t \in Queued

(* A request owns its semaphore from semaphore_create to semaphore_destroy,  *)
(* and no two requests share one.                                            *)
DiskSemaphoresOwned ==
    /\ \A t \in Clients : request[t].sem # Nobody <=> client[t] \in {"submit", "wait", "destroy"}
    /\ \A t \in Clients : request[t].sem # Nobody => creator[request[t].sem] = t
    /\ \A s \in Semaphores : creator[s] # Nobody => request[creator[s]].sem = s

(* One handler at a time is past the device's lock, inside semaphore_V; with *)
(* none there, the request being served is with the device, or its interrupt *)
(* is pending, and its caller waits.                                         *)
DiskLockOK ==
    /\ \A c \in Handlers : slock = c <=> handler[c] = "next"
    /\ raising = Nobody <=> slock = Nobody
    /\ ~(busy /\ irq)
    /\ request_served # Nobody /\ slock = Nobody => /\ busy \/ irq
                                                   /\ client[request_served] = "wait"

(* A request starts afresh, and return_value is set when its caller goes on, *)
(* so that disk_read_block and disk_write_block report the success.          *)
DiskResultsOK ==
    /\ \A t \in Clients : client[t] = "create" => served[t] = 0
    /\ \A t \in Clients : client[t] = "submit" => served[t] = 0 /\ units[request[t].sem] = 0
    /\ \A t \in Clients : client[t] = "destroy" \/ (client[t] = "wait" /\ served[t] = 1)
                             => request[t].return_value = 0

(* The driver's own invariant: types, assertions, every request served once  *)
(* with a semaphore of its own, one handler at a time, and the result set    *)
(* before the caller looks at it (drivers/disk.c, drivers/disksched.c).      *)
DiskInv == /\ DiskTypeOK /\ DiskAssertions /\ DiskServedOnce
           /\ DiskSemaphoresOwned /\ DiskLockOK /\ DiskResultsOK

(* While the handler is still inside semaphore_V, the thread it woke may      *)
(* have destroyed the semaphore and another thread may have made it anew; but *)
(* that one is not in semaphore_P, where the handler would release its lock   *)
(* for it: it has yet to pass the device's lock, which the handler holds.     *)
SemaphoreNotReentered ==
    \A s \in Semaphores :
        raising = s /\ creator[s] \in Clients \ {request_served} => client[creator[s]] = "submit"

(* What the callers see is a disk on which every request takes effect at     *)
(* once: reads return the last value written, requests that overlap are      *)
(* served in some order, and 1 is returned exactly for those that took       *)
(* effect.                                                                   *)
Transferred(t) ==
    \/ client[t] = "destroy"
    \/ client[t] = "wait" /\ t \notin Queued
                          /\ ~(t = request_served /\ busy)

CallsOf ==
    [t \in Clients |->
        [at |-> IF client[t] = "idle" THEN "idle" ELSE IF Transferred(t) THEN "done" ELSE "called",
         op |-> request[t].op, block |-> request[t].block, buf |-> request[t].buf,
         ok |-> request[t].ret = 1]]

AD == INSTANCE AtomicDisk WITH calls <- CallsOf

ImplementsAtomicDisk == AD!AtomicSpec

(* Every request that was queued returns, whatever the other threads do: it  *)
(* is put to work by its caller or by the handler of an earlier one, and no  *)
(* later request passes it.                                                  *)
DiskRequestsReturn == \A t \in Clients : client[t] = "wait" ~> client[t] = "idle"
=============================================================================
