---------------------------- MODULE DriverProofs ----------------------------
(***************************************************************************)
(* Proofs about two drivers: that of the disk (module Disk), for any number *)
(* of threads, CPUs, blocks and semaphores, and that of the terminal        *)
(* (module Tty), for buffers of any size, any number of readers, writers    *)
(* and CPUs, and characters told apart up to any number that is large       *)
(* enough.                                                                  *)
(***************************************************************************)
EXTENDS Disk, Tty, SequenceTheorems, TLAPS

(* Sequences as the queue uses them: what is in one, and that nothing is in  *)
(* it twice.                                                                 *)
Elements(q) == {q[i] : i \in DOMAIN q}
Distinct(q) == \A i, j \in DOMAIN q : q[i] = q[j] => i = j

(* disksched_schedule adds one request and keeps the others.                 *)
LEMMA ScheduleElements ==
    ASSUME NEW S, NEW q \in Seq(S), NEW t \in S
    PROVE  /\ disksched_schedule(q, t) \in Seq(S)
           /\ disksched_schedule(q, t) # <<>>
           /\ Elements(disksched_schedule(q, t)) = Elements(q) \union {t}
           /\ Distinct(q) /\ t \notin Elements(q) => Distinct(disksched_schedule(q, t))
<1> DEFINE a == disksched_schedule(q, t)
<1>1. /\ a \in Seq(S) /\ a # <<>>
      /\ Len(a) = Len(q) + 1 /\ DOMAIN a = 1 .. Len(a) /\ DOMAIN q = 1 .. Len(q)
      /\ \A i \in 1 .. Len(q) : a[i] = q[i]
      /\ a[Len(q) + 1] = t /\ Len(q) \in Nat
  BY AppendProperties, LenProperties DEF disksched_schedule
<1> HIDE DEF a
<1>2. Elements(a) = Elements(q) \union {t}
  <2>1. Elements(a) \subseteq Elements(q) \union {t}
    BY <1>1 DEF Elements
  <2>2. \A i \in DOMAIN q : i \in DOMAIN a /\ q[i] = a[i]
    BY <1>1
  <2>3. Elements(q) \subseteq Elements(a)
    BY <2>2 DEF Elements
  <2>4. Len(q) + 1 \in DOMAIN a
    BY <1>1
  <2>5. t \in Elements(a)
    BY <2>4, <1>1 DEF Elements
  <2> QED BY <2>1, <2>3, <2>5
<1>3. ASSUME Distinct(q), t \notin Elements(q) PROVE Distinct(a)
  <2>1. \A i \in 1 .. Len(q) : a[i] # t
    BY <1>1, <1>3 DEF Elements
  <2> QED BY <2>1, <1>1, <1>3 DEF Distinct
<1> QED BY <1>1, <1>2, <1>3 DEF a

(* Taking the first request leaves the others, and it is not among them.     *)
LEMMA NextElements ==
    ASSUME NEW S, NEW q \in Seq(S), q # <<>>, Distinct(q)
    PROVE  /\ Head(q) \in Elements(q) /\ Head(q) \in S
           /\ Tail(q) \in Seq(S)
           /\ Elements(Tail(q)) = Elements(q) \ {Head(q)}
           /\ Distinct(Tail(q))
<1>1. /\ Head(q) = q[1] /\ Head(q) \in S /\ Tail(q) \in Seq(S)
      /\ Len(q) \in Nat /\ Len(q) # 0 /\ Len(Tail(q)) = Len(q) - 1
      /\ DOMAIN Tail(q) = 1 .. Len(q) - 1 /\ DOMAIN q = 1 .. Len(q)
      /\ \A i \in 1 .. Len(q) - 1 : Tail(q)[i] = q[i + 1]
  BY HeadTailProperties, LenProperties, EmptySeq
<1>2. Head(q) \in Elements(q)
  BY <1>1 DEF Elements
<1>3. Distinct(Tail(q))
  BY <1>1 DEF Distinct
<1>4. Elements(Tail(q)) \subseteq Elements(q) \ {Head(q)}
  <2> SUFFICES ASSUME NEW i \in 1 .. Len(q) - 1
               PROVE  Tail(q)[i] \in Elements(q) /\ Tail(q)[i] # Head(q)
    BY <1>1 DEF Elements
  <2>1. i + 1 \in DOMAIN q /\ 1 \in DOMAIN q /\ i + 1 # 1
    BY <1>1
  <2> QED BY <2>1, <1>1 DEF Elements, Distinct
<1>5. Elements(q) \ {Head(q)} \subseteq Elements(Tail(q))
  <2> SUFFICES ASSUME NEW i \in DOMAIN q, q[i] # Head(q) PROVE q[i] \in Elements(Tail(q))
    BY DEF Elements
  <2>1. i - 1 \in DOMAIN Tail(q) /\ Tail(q)[i - 1] = q[i]
    BY <1>1
  <2> QED BY <2>1 DEF Elements
<1> QED BY <1>1, <1>2, <1>3, <1>4, <1>5

----------------------------------------------------------------------------
(* DiskInv, action by action. *)

LEMMA DiskInitial == DiskInit => DiskInv
<1> SUFFICES ASSUME DiskInit PROVE DiskInv
  OBVIOUS
<1> USE DiskAssumption
<1>1. DiskTypeOK
  <2>1. request \in [Clients -> DiskRequests]
    BY DEF DiskInit, NewRequest, DiskRequests
  <2> QED BY <2>1, EmptySeq DEF DiskInit, DiskTypeOK
<1>2. DiskAssertions /\ DiskLockOK
  BY DEF DiskInit, DiskAssertions, DiskLockOK
<1>3. DiskServedOnce
  BY EmptySeq DEF DiskInit, DiskServedOnce, Queued
<1>4. DiskSemaphoresOwned /\ DiskResultsOK
  BY DEF DiskInit, DiskSemaphoresOwned, DiskResultsOK, NewRequest
<1> QED BY <1>1, <1>2, <1>3, <1>4 DEF DiskInv

(* The parts of a request, as the type gives them. *)
LEMMA RequestParts ==
    ASSUME DiskTypeOK, NEW t \in Clients
    PROVE  /\ request[t] \in DiskRequests
           /\ request[t].sem \in Semaphores \union {Nobody}
           /\ request[t].op \in {"read", "write"}
           /\ request[t].block \in Blocks /\ request[t].buf \in Values
           /\ request[t].return_value \in {-1, 0} /\ request[t].ret \in {0, 1}
  BY DEF DiskTypeOK, DiskRequests

(* A request between semaphore_create and semaphore_destroy has a semaphore  *)
(* of its own.                                                               *)
LEMMA OwnSemaphore ==
    ASSUME DiskInv, NEW t \in Clients, client[t] \in {"submit", "wait", "destroy"}
    PROVE  /\ request[t].sem \in Semaphores /\ creator[request[t].sem] = t
           /\ \A u \in Clients : u # t => request[u].sem # request[t].sem
<1>1. request[t].sem \in Semaphores /\ creator[request[t].sem] = t
  BY RequestParts DEF DiskInv, DiskSemaphoresOwned
<1> QED BY <1>1, DiskAssumption DEF DiskInv, DiskSemaphoresOwned

(* A caller fills in its request: nothing of it is queued yet. *)
LEMMA CallKeeps ==
    ASSUME DiskInv, NEW t \in Clients, DiskCall(t) PROVE DiskInv'
<1> USE DiskAssumption DEF DiskInv
<1>1. PICK op \in {"read", "write"}, b \in Blocks, v \in Values :
           request' = [request EXCEPT ![t] = NewRequest(op, b, v)]
  <2>1. Written[t] \subseteq Values /\ request[t].buf \in Values
    BY RequestParts
  <2> QED BY <2>1 DEF DiskCall
<1>2. NewRequest(op, b, v) \in DiskRequests /\ NewRequest(op, b, v).sem = Nobody
  BY DEF NewRequest, DiskRequests
<1>3. DiskTypeOK'
  BY <1>1, <1>2 DEF DiskCall, DiskTypeOK
<1>4. DiskAssertions' /\ DiskLockOK'
  BY DEF DiskCall, DiskAssertions, DiskLockOK, DiskTypeOK
<1>5. DiskServedOnce'
  BY <1>1 DEF DiskCall, DiskServedOnce, Queued, DiskTypeOK
<1>6. DiskSemaphoresOwned'
  <2>1. request'[t].sem = Nobody /\ request[t].sem = Nobody
    BY <1>1, <1>2, ZenonT(30) DEF DiskTypeOK, DiskSemaphoresOwned, DiskCall
  <2>2. \A u \in Clients : u # t => request'[u] = request[u] /\ client'[u] = client[u]
    BY <1>1 DEF DiskCall, DiskTypeOK
  <2>3. client'[t] = "create" /\ creator' = creator /\ creator \in [Semaphores -> Clients \union {Nobody}]
    BY DEF DiskCall, DiskTypeOK
  <2> QED BY <2>1, <2>2, <2>3 DEF DiskSemaphoresOwned
<1>7. DiskResultsOK'
  BY <1>1 DEF DiskCall, DiskResultsOK, DiskTypeOK
<1> QED BY <1>3, <1>4, <1>5, <1>6, <1>7

(* semaphore_create takes an entry that no request or handler is using. *)
LEMMA CreateKeeps ==
    ASSUME DiskInv, NEW t \in Clients, DiskCreate(t) PROVE DiskInv'
<1> USE DiskAssumption DEF DiskInv
<1>1. DiskAssertions' /\ DiskLockOK'
  BY DEF DiskCreate, DiskAssertions, DiskLockOK, DiskTypeOK
<1>2. Queued' = Queued
  BY DEF DiskCreate, Queued
<1>3. CASE client' = [client EXCEPT ![t] = "idle"] /\ UNCHANGED <<request, creator, units>>
  <2>1. DiskTypeOK'
    BY <1>3 DEF DiskCreate, DiskTypeOK
  <2>2. DiskServedOnce'
    BY <1>2, <1>3 DEF DiskCreate, DiskServedOnce, DiskTypeOK
  <2>3. DiskSemaphoresOwned' /\ DiskResultsOK'
    BY <1>3 DEF DiskCreate, DiskSemaphoresOwned, DiskResultsOK, DiskTypeOK
  <2> QED BY <1>1, <2>1, <2>2, <2>3
<1>4. CASE \E s \in Semaphores :
             /\ creator[s] = Nobody
             /\ creator' = [creator EXCEPT ![s] = t]
             /\ units' = [units EXCEPT ![s] = 0]
             /\ request' = [request EXCEPT ![t].sem = s]
             /\ client' = [client EXCEPT ![t] = "submit"]
  <2>1. PICK s \in Semaphores :
             /\ creator[s] = Nobody
             /\ creator' = [creator EXCEPT ![s] = t]
             /\ units' = [units EXCEPT ![s] = 0]
             /\ request' = [request EXCEPT ![t].sem = s]
             /\ client' = [client EXCEPT ![t] = "submit"]
    BY <1>4
  <2>2. [request[t] EXCEPT !.sem = s] \in DiskRequests /\ [request[t] EXCEPT !.sem = s].sem = s
    BY RequestParts DEF DiskRequests
  <2>3. DiskTypeOK'
    BY <2>1, <2>2 DEF DiskCreate, DiskTypeOK
  <2>4. /\ request'[t].sem = s /\ client'[t] = "submit" /\ client[t] = "create"
        /\ \A u \in Clients : u # t => request'[u] = request[u] /\ client'[u] = client[u]
        /\ served' = served /\ request_served' = request_served /\ slock' = slock
        /\ request_queue' = request_queue
    <3> HIDE DEF DiskInv
    <3>1. request \in [Clients -> DiskRequests]
          /\ client \in [Clients -> {"idle", "create", "submit", "wait", "destroy"}]
      BY DEF DiskInv, DiskTypeOK
    <3>2. request'[t] = [request[t] EXCEPT !.sem = s]
          /\ \A u \in Clients : u # t => request'[u] = request[u]
      BY <3>1, <2>1
    <3> QED BY <3>1, <3>2, <2>1, <2>2 DEF DiskCreate
  <2>5. /\ creator'[s] = t /\ units'[s] = 0
        /\ \A z \in Semaphores : z # s => creator'[z] = creator[z] /\ units'[z] = units[z]
    <3> HIDE DEF DiskInv
    <3>1. creator \in [Semaphores -> Clients \union {Nobody}] /\ units \in [Semaphores -> Nat]
      BY DEF DiskInv, DiskTypeOK
    <3> QED BY <2>1, <3>1
  <2>6. ASSUME NEW u \in Clients, client[u] \in {"submit", "wait", "destroy"}
        PROVE  request[u].sem \in Semaphores /\ request[u].sem # s /\ u # t
    BY <2>6, <2>1, <2>4, OwnSemaphore
  <2>7. DiskServedOnce'
    <3>1. ASSUME NEW u \in Clients, client'[u] = "wait"
          PROVE  /\ u # t /\ client[u] = "wait" /\ request'[u] = request[u]
                 /\ units'[request'[u].sem] = units[request[u].sem]
      BY <3>1, <2>4, <2>5, <2>6
    <3>2. \A u \in Queued : u # t
      BY <2>4 DEF DiskServedOnce
    <3>3. Queued \subseteq Clients
      BY DEF Queued, DiskTypeOK
    <3> QED BY <3>1, <3>2, <3>3, <2>4, <1>2 DEF DiskServedOnce
  <2>8. DiskSemaphoresOwned'
    <3>1. \A u \in Clients : request'[u].sem # Nobody <=> client'[u] \in {"submit", "wait", "destroy"}
      BY <2>4 DEF DiskSemaphoresOwned
    <3>2. ASSUME NEW u \in Clients, request'[u].sem # Nobody PROVE creator'[request'[u].sem] = u
      <4>1. CASE u = t
        BY <4>1, <2>4, <2>5
      <4>2. CASE u # t
        <5>1. request'[u] = request[u] /\ client[u] \in {"submit", "wait", "destroy"}
          BY <4>2, <3>2, <2>4 DEF DiskSemaphoresOwned
        <5> QED BY <5>1, <2>5, <2>6, OwnSemaphore
      <4> QED BY <4>1, <4>2
    <3>3. ASSUME NEW z \in Semaphores, creator'[z] # Nobody PROVE request'[creator'[z]].sem = z
      <4>1. CASE z = s
        BY <4>1, <2>4, <2>5
      <4>2. CASE z # s
        <5>1. creator'[z] = creator[z] /\ creator[z] \in Clients
          BY <4>2, <3>3, <2>5 DEF DiskTypeOK
        <5>2. request[creator[z]].sem = z /\ request[t].sem = Nobody
          BY <5>1, <2>4 DEF DiskSemaphoresOwned
        <5> QED BY <5>1, <5>2, <2>4
      <4> QED BY <4>1, <4>2
    <3> QED BY <3>1, <3>2, <3>3 DEF DiskSemaphoresOwned
  <2>9. DiskResultsOK'
    BY <2>4, <2>5, OwnSemaphore DEF DiskResultsOK
  <2> QED BY <1>1, <2>3, <2>7, <2>8, <2>9
<1> QED BY <1>3, <1>4 DEF DiskCreate

(* What the section of disk_submit_request leaves in the queue. *)
LEMMA SubmittedQueue ==
    ASSUME DiskInv, NEW t \in Clients, DiskSubmit(t)
    PROVE  /\ request_queue' \in Seq(Clients) /\ Distinct(request_queue')
           /\ request_served' \in Clients
           /\ request_served' \notin Queued'
           /\ Queued' \union {request_served'} = Queued \union ({request_served, t} \ {Nobody})
           /\ request_served # Nobody => request_served' = request_served /\ busy' = busy
           /\ request_served = Nobody => busy'
<1> USE DiskAssumption DEF DiskInv
<1> DEFINE q == disksched_schedule(request_queue, t)
<1>1. /\ q \in Seq(Clients) /\ q # <<>> /\ Distinct(q)
      /\ Elements(q) = Queued \union {t}
  <2>1. t \notin Elements(request_queue) /\ Distinct(request_queue) /\ Elements(request_queue) = Queued
    BY DEF DiskServedOnce, DiskSubmit, Queued, Elements, Distinct
  <2> QED BY <2>1, ScheduleElements DEF DiskTypeOK
<1> HIDE DEF q
<1>2. CASE request_served = Nobody
  <2>1. request_queue' = Tail(q) /\ request_served' = Head(q) /\ busy'
    BY <1>1, <1>2 DEF DiskSubmit, SubmitQueue, disk_next_request, q
  <2>2. /\ Head(q) \in Elements(q) /\ Head(q) \in Clients /\ Tail(q) \in Seq(Clients)
        /\ Elements(Tail(q)) = Elements(q) \ {Head(q)} /\ Distinct(Tail(q))
    BY <1>1, NextElements
  <2>3. Queued' = Elements(q) \ {Head(q)}
    BY <2>1, <2>2 DEF Queued, Elements
  <2> QED BY <2>1, <2>2, <2>3, <1>1, <1>2
<1>3. CASE request_served # Nobody
  <2>1. request_queue' = q /\ request_served' = request_served /\ busy' = busy
    BY <1>3 DEF DiskSubmit, SubmitQueue, q
  <2>2. request_served \notin Queued /\ request_served # t
    BY <1>3 DEF DiskServedOnce, DiskLockOK, DiskSubmit
  <2>3. Queued' = Queued \union {t}
    BY <2>1, <1>1 DEF Queued, Elements
  <2>4. request_served \in Clients
    BY <1>3 DEF DiskTypeOK
  <2> QED BY <2>1, <2>2, <2>3, <2>4, <1>1, <1>3
<1> QED BY <1>2, <1>3

(* disk_submit_request appends under the lock; an idle device gets the first request. *)
LEMMA SubmitKeeps ==
    ASSUME DiskInv, NEW t \in Clients, DiskSubmit(t) PROVE DiskInv'
<1> USE DiskAssumption DEF DiskInv
<1>1. /\ request_queue' \in Seq(Clients) /\ Distinct(request_queue')
      /\ request_served' \in Clients
      /\ request_served' \notin Queued'
      /\ Queued' \union {request_served'} = Queued \union ({request_served, t} \ {Nobody})
      /\ request_served # Nobody => request_served' = request_served /\ busy' = busy
      /\ request_served = Nobody => busy'
  BY SubmittedQueue
<1>2. /\ client[t] = "submit" /\ client'[t] = "wait" /\ slock = Nobody /\ slock' = Nobody
      /\ \A u \in Clients : u # t => client'[u] = client[u]
      /\ UNCHANGED <<store, irq, request, handler, creator, units, raising, served>>
      /\ client' \in [Clients -> {"idle", "create", "submit", "wait", "destroy"}]
      /\ Nobody \notin Clients
  BY DEF DiskSubmit, DiskTypeOK
<1>3. DiskTypeOK'
  <2>1. busy' \in BOOLEAN
    BY DEF DiskSubmit, DiskTypeOK, SubmitQueue, disk_next_request
  <2> QED BY <1>1, <1>2, <2>1 DEF DiskTypeOK
<1>4. DiskAssertions'
  BY <1>1, <1>2 DEF DiskAssertions, DiskLockOK, DiskTypeOK
<1>5. \A u \in Queued' \union {request_served'} : u \in Clients /\ client'[u] = "wait" /\ served'[u] = 0
  <2>1. \A u \in Queued : u \in Clients /\ client[u] = "wait" /\ served[u] = 0
    BY DEF DiskServedOnce, Queued, DiskTypeOK
  <2>2. request_served # Nobody => /\ request_served \in Clients /\ client[request_served] = "wait"
                                   /\ served[request_served] = 0
    BY <1>2 DEF DiskLockOK, DiskServedOnce, DiskTypeOK
  <2>3. served[t] = 0
    BY <1>2 DEF DiskResultsOK
  <2> QED BY <1>1, <1>2, <2>1, <2>2, <2>3
<1>6. DiskLockOK'
  BY <1>1, <1>2, <1>5 DEF DiskAssertions, DiskLockOK
<1>7. DiskServedOnce'
  <2>1. ASSUME NEW u \in Clients, client'[u] = "wait"
        PROVE  /\ units'[request'[u].sem] = served'[u] /\ served'[u] <= 1
               /\ served'[u] = 0 <=> u = request_served' \/ u \in Queued'
    <3>1. CASE u = t
      BY <3>1, <1>1, <1>2, <1>5 DEF DiskResultsOK
    <3>2. CASE u # t
      <4>1. client[u] = "wait"
        BY <2>1, <3>2, <1>2
      <4>2. /\ units[request[u].sem] = served[u] /\ served[u] <= 1
            /\ served[u] = 0 <=> u = request_served \/ u \in Queued
        BY <4>1, <1>2 DEF DiskServedOnce
      <4>3. u = request_served \/ u \in Queued <=> u = request_served' \/ u \in Queued'
        BY <3>2, <1>1, <1>2
      <4> QED BY <4>2, <4>3, <1>2
    <3> QED BY <3>1, <3>2
  <2> QED BY <2>1, <1>1, <1>2, <1>5 DEF DiskServedOnce, Distinct
<1>8. DiskSemaphoresOwned'
  BY <1>2 DEF DiskSemaphoresOwned
<1>9. DiskResultsOK'
  <2>1. served[t] # 1
    BY <1>2 DEF DiskResultsOK
  <2> QED BY <1>2, <2>1 DEF DiskResultsOK
<1> QED BY <1>3, <1>4, <1>6, <1>7, <1>8, <1>9

(* P in disk_submit_request returns only after the handler has raised the semaphore. *)
LEMMA WaitKeeps ==
    ASSUME DiskInv, NEW t \in Clients, DiskWait(t) PROVE DiskInv'
<1> USE DiskAssumption DEF DiskInv
<1>1. request[t].sem \in Semaphores /\ units[request[t].sem] = 1 /\ served[t] = 1 /\ t \notin Queued
  <2>1. request[t].sem \in Semaphores /\ client[t] = "wait" /\ units[request[t].sem] > 0
    BY OwnSemaphore DEF DiskWait
  <2> QED BY <2>1 DEF DiskServedOnce, DiskTypeOK
<1>2. DiskTypeOK'
  BY <1>1 DEF DiskWait, DiskTypeOK
<1>3. DiskAssertions' /\ DiskLockOK'
  BY <1>1 DEF DiskWait, DiskAssertions, DiskLockOK, DiskTypeOK, DiskServedOnce
<1>4. DiskServedOnce'
  BY <1>1 DEF DiskWait, DiskServedOnce, Queued, DiskTypeOK, DiskSemaphoresOwned
<1>5. DiskSemaphoresOwned'
  BY DEF DiskWait, DiskSemaphoresOwned, DiskTypeOK
<1>6. DiskResultsOK'
  BY <1>1 DEF DiskWait, DiskResultsOK, DiskTypeOK, DiskSemaphoresOwned
<1> QED BY <1>2, <1>3, <1>4, <1>5, <1>6

(* The caller destroys its semaphore, which nobody else still waits on. *)
LEMMA ReturnKeeps ==
    ASSUME DiskInv, NEW t \in Clients, DiskReturn(t) PROVE DiskInv'
<1> USE DiskAssumption DEF DiskInv
<1>1. request[t].sem \in Semaphores /\ creator[request[t].sem] = t
  BY OwnSemaphore DEF DiskReturn
<1>2. DiskTypeOK'
  <2>1. [request[t] EXCEPT !.sem = Nobody, !.ret = IF request[t].return_value = 0 THEN 1 ELSE 0]
          \in DiskRequests
    BY RequestParts, ZenonT(30) DEF DiskRequests
  <2> QED BY <2>1 DEF DiskReturn, DiskTypeOK
<1>3. DiskAssertions' /\ DiskLockOK'
  BY DEF DiskReturn, DiskAssertions, DiskLockOK, DiskTypeOK
<1>4. DiskServedOnce'
  BY DEF DiskReturn, DiskServedOnce, Queued, DiskTypeOK
<1>5. DiskSemaphoresOwned'
  BY <1>1 DEF DiskReturn, DiskSemaphoresOwned, DiskTypeOK
<1>6. DiskResultsOK'
  BY DEF DiskReturn, DiskResultsOK, DiskTypeOK
<1> QED BY <1>2, <1>3, <1>4, <1>5, <1>6

(* The device moves the block of the request that it serves. *)
LEMMA TransferKeeps ==
    ASSUME DiskInv, DiskTransfer PROVE DiskInv'
<1> USE DiskAssumption DEF DiskInv
<1> DEFINE t == request_served
<1>1. /\ t \in Clients /\ busy /\ ~irq /\ slock = Nobody
      /\ UNCHANGED <<request_queue, request_served, slock, client, handler, creator, units, raising, served>>
      /\ busy' = FALSE /\ irq' = TRUE
  BY DEF DiskTransfer, DiskAssertions, DiskLockOK, DiskTypeOK
<1> HIDE DEF t
<1>2. /\ store' \in [Blocks -> Values] /\ request' \in [Clients -> DiskRequests]
      /\ \A u \in Clients : request'[u].sem = request[u].sem
                           /\ request'[u].return_value = request[u].return_value
  <2>1. CASE request[t].op = "write"
    BY <2>1, <1>1, RequestParts DEF DiskTransfer, t, DiskTypeOK
  <2>2. CASE request[t].op # "write"
    <3> DEFINE r == [request[t] EXCEPT !.buf = store[request[t].block]]
    <3>1. /\ r \in DiskRequests
          /\ r.sem = request[t].sem /\ r.return_value = request[t].return_value
      <4>1. store[request[t].block] \in Values
        BY <1>1, RequestParts DEF DiskTypeOK
      <4>2. request[t] \in DiskRequests
        BY <1>1, RequestParts
      <4> HIDE DEF DiskInv
      <4> QED BY <4>1, <4>2 DEF DiskRequests
    <3>2. request' = [request EXCEPT ![t] = r] /\ store' = store
      BY <2>2 DEF DiskTransfer, t
    <3> HIDE DEF r
    <3> QED BY <1>1, <3>1, <3>2 DEF DiskTypeOK
  <2> QED BY <2>1, <2>2
<1>3. DiskTypeOK'
  BY <1>1, <1>2 DEF DiskTypeOK
<1>4. DiskAssertions' /\ DiskLockOK'
  BY <1>1 DEF DiskAssertions, DiskLockOK, t
<1>5. DiskServedOnce'
  <2>1. Queued' = Queued
    BY <1>1 DEF Queued
  <2> QED BY <1>1, <1>2, <2>1 DEF DiskServedOnce
<1>6. DiskSemaphoresOwned'
  <2>1. \A z \in Semaphores : creator[z] # Nobody => creator[z] \in Clients
    BY DEF DiskTypeOK
  <2> QED BY <1>1, <1>2, <2>1 DEF DiskSemaphoresOwned
<1>7. DiskResultsOK'
  BY <1>1, <1>2 DEF DiskResultsOK
<1> QED BY <1>3, <1>4, <1>5, <1>6, <1>7

(* The interrupt, pending at all CPUs, starts a handler. *)
LEMMA InterruptKeeps ==
    ASSUME DiskInv, NEW c \in Handlers, DiskInterrupt(c) PROVE DiskInv'
<1> USE DiskAssumption DEF DiskInv
<1>1. DiskTypeOK' /\ DiskAssertions' /\ DiskLockOK'
  BY DEF DiskInterrupt, DiskTypeOK, DiskAssertions, DiskLockOK
<1>2. DiskServedOnce' /\ DiskSemaphoresOwned' /\ DiskResultsOK'
  BY DEF DiskInterrupt, DiskServedOnce, Queued, DiskSemaphoresOwned, DiskResultsOK
<1> QED BY <1>1, <1>2

(* The handler sets the result and raises the semaphore of the served request. *)
LEMMA RaiseKeeps ==
    ASSUME DiskInv, NEW c \in Handlers, HandlerRaise(c) PROVE DiskInv'
<1> USE DiskAssumption DEF DiskInv
<1>1. CASE ~irq
  <2>1. DiskTypeOK' /\ DiskAssertions' /\ DiskLockOK'
    BY <1>1 DEF HandlerRaise, ForUs, DiskTypeOK, DiskAssertions, DiskLockOK
  <2>2. DiskServedOnce' /\ DiskSemaphoresOwned' /\ DiskResultsOK'
    BY <1>1 DEF HandlerRaise, ForUs, DiskServedOnce, Queued, DiskSemaphoresOwned, DiskResultsOK
  <2> QED BY <2>1, <2>2
<1>2. CASE irq
  <2> DEFINE t == request_served
             s == request[t].sem
  <2>1. /\ t \in Clients /\ client[t] = "wait" /\ served[t] = 0 /\ ~busy /\ slock = Nobody
        /\ t # Nobody
    BY <1>2 DEF HandlerRaise, DiskAssertions, DiskLockOK, DiskTypeOK, DiskServedOnce
  <2>2. s \in Semaphores /\ \A u \in Clients : u # t => request[u].sem # s
    BY <2>1, OwnSemaphore
  <2>3. units[s] = 0 /\ t \notin Queued
    BY <2>1 DEF DiskServedOnce
  <2> HIDE DEF t
  <2>4. /\ handler[c] = "acquire" /\ handler' = [handler EXCEPT ![c] = "next"]
        /\ slock' = c /\ irq' = FALSE /\ raising' = s
        /\ request' = [request EXCEPT ![t] = HandledRequest(request[t])]
        /\ units' = [units EXCEPT ![s] = @ + 1]
        /\ served' = [served EXCEPT ![t] = @ + 1]
        /\ UNCHANGED <<store, busy, request_queue, request_served, client, creator>>
    BY <1>2, <2>1 DEF HandlerRaise, ForUs, t
  <2> HIDE DEF s
  <2>5. /\ HandledRequest(request[t]) \in DiskRequests
        /\ HandledRequest(request[t]).sem = s
        /\ HandledRequest(request[t]).return_value = 0
    BY <2>1, RequestParts DEF HandledRequest, DiskRequests, s
  <2>6. DiskTypeOK'
    <3>1. request' \in [Clients -> DiskRequests]
      BY <2>1, <2>4, <2>5 DEF DiskTypeOK
    <3>2. units' \in [Semaphores -> Nat] /\ served' \in [Clients -> Nat]
      BY <2>1, <2>2, <2>4 DEF DiskTypeOK
    <3> QED BY <3>1, <3>2, <2>2, <2>4 DEF DiskTypeOK
  <2>7. /\ \A u \in Clients : u # t => request'[u] = request[u] /\ served'[u] = served[u]
        /\ request'[t].sem = s /\ request'[t].return_value = 0 /\ served'[t] = 1
        /\ \A u \in Clients : request'[u].sem = request[u].sem
        /\ units'[s] = 1 /\ \A z \in Semaphores : z # s => units'[z] = units[z]
    <3>1. /\ request \in [Clients -> DiskRequests] /\ served \in [Clients -> Nat]
          /\ units \in [Semaphores -> Nat]
      BY DEF DiskTypeOK
    <3> HIDE DEF DiskInv
    <3>2. request'[t] = HandledRequest(request[t])
      BY <3>1, <2>1, <2>4
    <3>3. \A u \in Clients : u # t => request'[u] = request[u] /\ served'[u] = served[u]
      BY <3>1, <2>1, <2>4
    <3> QED BY <3>1, <3>2, <3>3, <2>1, <2>2, <2>3, <2>4, <2>5 DEF s
  <2>8. DiskAssertions' /\ DiskLockOK'
    BY <2>1, <2>2, <2>4 DEF DiskAssertions, DiskLockOK, DiskTypeOK, t
  <2>9. Queued' = Queued
    BY <2>4 DEF Queued
  <2>10. \A u \in Clients : client[u] \in {"submit", "wait", "destroy"} /\ u # t
                             => units'[request'[u].sem] = units[request[u].sem]
    BY <2>2, <2>7, OwnSemaphore
  <2>11. DiskServedOnce'
    <3>1. ASSUME NEW u \in Clients, client[u] = "wait"
          PROVE  /\ units'[request'[u].sem] = served'[u] /\ served'[u] <= 1
                 /\ served'[u] = 0 <=> u \in Queued
      <4>1. CASE u = t
        BY <4>1, <2>3, <2>7
      <4>2. CASE u # t
        BY <4>2, <3>1, <2>1, <2>7, <2>10 DEF DiskServedOnce, t
      <4> QED BY <4>1, <4>2
    <3>2. Queued \subseteq Clients /\ slock' # Nobody
      BY <2>4 DEF Queued, DiskTypeOK
    <3> QED BY <3>1, <3>2, <2>3, <2>4, <2>7, <2>9 DEF DiskServedOnce
  <2>12. DiskSemaphoresOwned'
    BY <2>4, <2>7 DEF DiskSemaphoresOwned, DiskTypeOK
  <2>13. DiskResultsOK'
    BY <2>1, <2>4, <2>7, <2>10 DEF DiskResultsOK
  <2> QED BY <2>6, <2>8, <2>11, <2>12, <2>13
<1> QED BY <1>1, <1>2 DEF HandlerRaise, DiskTypeOK

(* What the handler leaves in the queue. *)
LEMMA NextQueue ==
    ASSUME DiskInv, disk_next_request(request_queue)
    PROVE  /\ request_queue' \in Seq(Clients) /\ Distinct(request_queue')
           /\ request_served' \in Clients \union {Nobody}
           /\ request_served' \notin Queued'
           /\ request_served' # Nobody => Queued = Queued' \union {request_served'}
           /\ request_served' = Nobody => Queued = {} /\ Queued' = {}
           /\ busy' = (request_served' # Nobody)
<1> USE DiskAssumption DEF DiskInv
<1>1. Distinct(request_queue) /\ request_queue \in Seq(Clients) /\ Queued = Elements(request_queue)
  BY DEF DiskServedOnce, DiskTypeOK, Distinct, Queued, Elements
<1>2. CASE request_queue = <<>>
  <2>1. request_queue' = <<>> /\ request_served' = Nobody /\ busy' = FALSE
    BY <1>2 DEF disk_next_request
  <2>2. Queued = {} /\ Queued' = {}
    BY <2>1, <1>2 DEF Queued
  <2> QED BY <2>1, <2>2, <1>1, <1>2
<1>3. CASE request_queue # <<>>
  <2>1. request_queue' = Tail(request_queue) /\ request_served' = Head(request_queue) /\ busy' = TRUE
    BY <1>3 DEF disk_next_request
  <2>2. /\ Head(request_queue) \in Queued /\ Head(request_queue) \in Clients
        /\ Tail(request_queue) \in Seq(Clients) /\ Distinct(Tail(request_queue))
        /\ Elements(Tail(request_queue)) = Queued \ {Head(request_queue)}
    BY <1>1, <1>3, NextElements
  <2>3. Queued' = Elements(Tail(request_queue))
    BY <2>1 DEF Queued, Elements
  <2> QED BY <2>1, <2>2, <2>3
<1> QED BY <1>2, <1>3

(* The handler starts the next queued request, if there is one. *)
LEMMA NextKeeps ==
    ASSUME DiskInv, NEW c \in Handlers, HandlerNext(c) PROVE DiskInv'
<1> USE DiskAssumption DEF DiskInv
<1>1. /\ request_queue' \in Seq(Clients) /\ Distinct(request_queue')
      /\ request_served' \in Clients \union {Nobody}
      /\ request_served' \notin Queued'
      /\ request_served' # Nobody => Queued = Queued' \union {request_served'}
      /\ request_served' = Nobody => Queued = {} /\ Queued' = {}
      /\ busy' = (request_served' # Nobody)
  BY NextQueue DEF HandlerNext
<1>2. /\ handler[c] = "next" /\ slock = c /\ ~irq /\ ~busy
      /\ slock' = Nobody /\ raising' = Nobody /\ irq' = irq
      /\ UNCHANGED <<store, request, client, creator, units, served>>
      /\ handler' = [handler EXCEPT ![c] = "none"]
  BY DEF HandlerNext, DiskLockOK, DiskAssertions
<1>3. DiskTypeOK'
  BY <1>1, <1>2 DEF DiskTypeOK
<1>4. Queued \subseteq Clients /\ \A u \in Queued : client[u] = "wait" /\ served[u] = 0
  BY DEF DiskServedOnce, DiskTypeOK, Queued
<1>5. \A d \in Handlers : handler'[d] # "next"
  BY <1>2 DEF DiskLockOK, DiskTypeOK
<1>6. DiskAssertions' /\ DiskLockOK'
  BY <1>1, <1>2, <1>4, <1>5 DEF DiskAssertions, DiskLockOK
<1>7. DiskServedOnce'
  <2>1. \A u \in Clients : u \in Queued <=> u = request_served' \/ u \in Queued'
    BY <1>1
  <2>2. slock # Nobody
    BY <1>2
  <2> QED BY <1>1, <1>2, <1>4, <2>1, <2>2 DEF DiskServedOnce, Distinct
<1>8. DiskSemaphoresOwned' /\ DiskResultsOK'
  BY <1>2 DEF DiskSemaphoresOwned, DiskResultsOK
<1> QED BY <1>3, <1>6, <1>7, <1>8

(* Every step preserves the inductive invariant. *)
LEMMA DiskStep == DiskInv /\ [DiskNext]_diskVars => DiskInv'
<1> SUFFICES ASSUME DiskInv, [DiskNext]_diskVars PROVE DiskInv'
  OBVIOUS
<1>1. CASE UNCHANGED diskVars
  BY <1>1 DEF diskVars, DiskInv, DiskTypeOK, DiskAssertions, DiskServedOnce, Queued,
              DiskSemaphoresOwned, DiskLockOK, DiskResultsOK
<1>2. ASSUME NEW t \in Clients, disk_submit_request(t) PROVE DiskInv'
  BY <1>2, CallKeeps, CreateKeeps, SubmitKeeps, WaitKeeps, ReturnKeeps DEF disk_submit_request
<1>3. ASSUME NEW c \in Handlers, disk_interrupt_handle(c) PROVE DiskInv'
  BY <1>3, InterruptKeeps, RaiseKeeps, NextKeeps DEF disk_interrupt_handle
<1> QED BY <1>1, <1>2, <1>3, TransferKeeps DEF DiskNext

(* The driver's invariant holds whatever the number of threads and CPUs: the *)
(* assertions of disk_interrupt_handle and disk_next_request never fail, and *)
(* every request is queued, served and answered once, on its own semaphore.  *)
THEOREM DiskInvariant == DiskSpec => []DiskInv
<1> QED BY DiskInitial, DiskStep, PTL DEF DiskSpec

----------------------------------------------------------------------------
(* No step lets a raise reach a semaphore made for another request. *)
LEMMA ReentryStep ==
    DiskInv /\ DiskInv' /\ SemaphoreNotReentered /\ [DiskNext]_diskVars => SemaphoreNotReentered'
<1> SUFFICES ASSUME DiskInv, DiskInv', SemaphoreNotReentered, [DiskNext]_diskVars,
                    NEW s \in Semaphores, raising' = s, creator'[s] \in Clients,
                    creator'[s] # request_served'
             PROVE  client'[creator'[s]] = "submit"
  BY DEF SemaphoreNotReentered
<1> USE DiskAssumption
<1>1. slock' # Nobody
  BY DEF DiskInv, DiskLockOK
<1>2. CASE UNCHANGED diskVars
  BY <1>2 DEF diskVars, SemaphoreNotReentered
<1>3. ASSUME NEW t \in Clients, disk_submit_request(t) PROVE client'[creator'[s]] = "submit"
  <2>1. ~DiskSubmit(t)
    BY <1>1 DEF DiskSubmit
  <2>2. raising' = raising /\ request_served' = request_served
    BY <1>3, <2>1 DEF disk_submit_request, DiskCall, DiskCreate, DiskWait, DiskReturn
  <2>3. creator[s] \in Clients /\ creator'[s] = creator[s] => client[creator[s]] = "submit"
    BY <2>2 DEF SemaphoreNotReentered
  <2>4. CASE DiskCall(t) \/ DiskWait(t)
    BY <2>3, <2>4 DEF DiskCall, DiskWait, DiskInv, DiskTypeOK
  <2>5. CASE DiskCreate(t)
    BY <2>3, <2>5 DEF DiskCreate, DiskInv, DiskTypeOK
  <2>6. CASE DiskReturn(t)
    BY <2>3, <2>6 DEF DiskReturn, DiskInv, DiskTypeOK
  <2> QED BY <1>3, <2>1, <2>4, <2>5, <2>6 DEF disk_submit_request
<1>4. CASE DiskTransfer
  BY <1>4 DEF DiskTransfer, SemaphoreNotReentered
<1>5. ASSUME NEW c \in Handlers, disk_interrupt_handle(c) PROVE client'[creator'[s]] = "submit"
  <2>1. CASE DiskInterrupt(c)
    BY <2>1 DEF DiskInterrupt, SemaphoreNotReentered
  <2>2. CASE HandlerRaise(c)
    <3>1. CASE raising' = raising
      BY <2>2, <3>1 DEF HandlerRaise, SemaphoreNotReentered
    <3>2. CASE raising' # raising
      <4>1. /\ request_served # Nobody /\ s = request[request_served].sem
            /\ creator' = creator /\ request_served' = request_served
        BY <2>2, <3>2 DEF HandlerRaise, ForUs
      <4>2. creator[s] = request_served
        BY <4>1 DEF DiskInv, DiskTypeOK, DiskSemaphoresOwned
      <4> QED BY <4>1, <4>2
    <3> QED BY <3>1, <3>2
  <2>3. CASE HandlerNext(c)
    BY <2>3, <1>1 DEF HandlerNext
  <2> QED BY <1>5, <2>1, <2>2, <2>3 DEF disk_interrupt_handle
<1> QED BY <1>2, <1>3, <1>4, <1>5 DEF DiskNext

(* The handler that is still in semaphore_V when the woken thread has gone   *)
(* on and its semaphore has been made anew never meets the new owner in      *)
(* semaphore_P (disk_interrupt_handle, semaphore_V).                         *)
THEOREM NotReentered == DiskSpec => []SemaphoreNotReentered
<1>1. DiskInit => SemaphoreNotReentered
  BY DiskAssumption DEF DiskInit, SemaphoreNotReentered
<1> QED BY <1>1, DiskInvariant, ReentryStep, PTL DEF DiskSpec

----------------------------------------------------------------------------
(* The refinement of AtomicDisk. *)

(* How far the request of t is, as its caller sees it. *)
CallAt(t) == IF client[t] = "idle" THEN "idle" ELSE IF Transferred(t) THEN "done" ELSE "called"

(* The call that the request r of t stands for. *)
CallRecord(at, r) == [at |-> at, op |-> r.op, block |-> r.block, buf |-> r.buf, ok |-> r.ret = 1]

(* The mapping of calls, in this state and in the next. *)
LEMMA Calls == /\ CallsOf = [t \in Clients |-> CallRecord(CallAt(t), request[t])]
               /\ CallsOf' = [t \in Clients |-> CallRecord(CallAt(t)', request'[t])]
  BY DEF CallsOf, CallRecord, CallAt

(* The fields of a mapped call. *)
LEMMA CallRecordParts ==
    ASSUME NEW at \in {"idle", "called", "done"}, NEW r \in DiskRequests
    PROVE  /\ CallRecord(at, r) \in AD!Requests
           /\ CallRecord(at, r).at = at /\ CallRecord(at, r).op = r.op
           /\ CallRecord(at, r).block = r.block /\ CallRecord(at, r).buf = r.buf
           /\ r.ret = 0 => CallRecord(at, r).ok = FALSE
           /\ r.ret = 1 => CallRecord(at, r).ok = TRUE
<1>1. /\ CallRecord(at, r) \in AD!Requests
      /\ CallRecord(at, r).at = at /\ CallRecord(at, r).op = r.op
      /\ CallRecord(at, r).block = r.block /\ CallRecord(at, r).buf = r.buf
      /\ CallRecord(at, r).ok = (r.ret = 1)
  BY DEF CallRecord, AD!Requests, DiskRequests
<1>2. ASSUME r.ret = 0 PROVE CallRecord(at, r).ok = FALSE
  <2>1. (r.ret = 1) = FALSE
    BY <1>2
  <2> QED BY <1>1, <2>1, Zenon
<1>3. ASSUME r.ret = 1 PROVE CallRecord(at, r).ok = TRUE
  <2>1. (r.ret = 1) = TRUE
    BY <1>3
  <2> QED BY <1>1, <2>1, Zenon
<1> QED BY <1>1, <1>2, <1>3

(* Two calls that agree in each field are the same. *)
LEMMA CallExtensionality ==
    ASSUME NEW c \in AD!Requests, NEW d \in AD!Requests, c.at = d.at, c.op = d.op,
           c.block = d.block, c.buf = d.buf, c.ok = d.ok
    PROVE  c = d
  BY DEF AD!Requests

(* Initial states map to initial states. *)
LEMMA CallsInitial == DiskInit => AD!AtomicInit
<1> SUFFICES ASSUME DiskInit PROVE AD!AtomicInit
  OBVIOUS
<1>1. ASSUME NEW t \in Clients
      PROVE  CallsOf[t] \in {r \in AD!Requests : r.at = "idle" /\ ~r.ok}
  <2>1. CallAt(t) = "idle"
    BY DEF DiskInit, CallAt
  <2>2. request[t] \in DiskRequests
    BY DiskInitial, RequestParts DEF DiskInv
  <2>3. request[t].ret = 0
    BY DEF DiskInit, NewRequest
  <2>4. CallsOf[t] = CallRecord("idle", request[t])
    BY <2>1, Calls
  <2>5. CallRecord("idle", request[t]) \in AD!Requests
        /\ CallRecord("idle", request[t]).at = "idle" /\ CallRecord("idle", request[t]).ok = FALSE
    BY <2>2, <2>3, CallRecordParts
  <2> QED BY <2>4, <2>5
<1>2. CallsOf \in [Clients -> {r \in AD!Requests : r.at = "idle" /\ ~r.ok}]
  BY <1>1, Calls
<1> QED BY <1>2 DEF AD!AtomicInit, DiskInit

(* A step that leaves the medium and every call as its caller sees it.       *)
LEMMA SameCalls ==
    ASSUME UNCHANGED store,
           \A t \in Clients : CallAt(t)' = CallAt(t),
           \A t \in Clients : /\ request'[t].op = request[t].op /\ request'[t].block = request[t].block
                              /\ request'[t].buf = request[t].buf /\ request'[t].ret = request[t].ret
    PROVE  UNCHANGED AD!atomicVars
  BY Calls DEF CallRecord, AD!atomicVars

(* A step that changes the call of t alone. *)
LEMMA OneCall ==
    ASSUME NEW t \in Clients, \A u \in Clients : u # t => CallAt(u)' = CallAt(u),
           NEW r, request' = [request EXCEPT ![t] = r], DiskTypeOK
    PROVE  /\ CallsOf[t] = CallRecord(CallAt(t), request[t])
           /\ CallsOf' = [CallsOf EXCEPT ![t] = CallRecord(CallAt(t)', r)]
           /\ CallAt(t) \in {"idle", "called", "done"}
<1>1. request'[t] = r /\ \A u \in Clients : u # t => request'[u] = request[u]
  BY DEF DiskTypeOK
<1>2. CallAt(t) \in {"idle", "called", "done"}
  BY DEF CallAt
<1> QED BY <1>1, <1>2, Calls

(* Where a client is, when neither it nor the driver has moved. *)
LEMMA SamePlace ==
    ASSUME NEW t \in Clients, client'[t] = client[t],
           (t \in Queued \/ (t = request_served /\ busy))
             <=> (t \in Queued' \/ (t = request_served' /\ busy'))
    PROVE  CallAt(t)' = CallAt(t)
  BY DEF CallAt, Transferred

(* Filling in a request is the call of the atomic disk. *)
LEMMA CallImplements ==
    ASSUME DiskInv, NEW t \in Clients, DiskCall(t) PROVE AD!AtomicNext
<1>1. PICK op \in {"read", "write"}, b \in Blocks, v \in Values :
           request' = [request EXCEPT ![t] = NewRequest(op, b, v)]
  <2>1. Written[t] \subseteq Values /\ request[t].buf \in Values
    BY DiskAssumption, RequestParts DEF DiskInv
  <2> QED BY <2>1 DEF DiskCall
<1>2. NewRequest(op, b, v) \in DiskRequests /\ NewRequest(op, b, v).ret = 0
  BY DEF NewRequest, DiskRequests
<1>3. \A u \in Clients : u # t => CallAt(u)' = CallAt(u)
  BY SamePlace DEF DiskCall, Queued, DiskInv, DiskTypeOK
<1>4. CallAt(t) = "idle" /\ CallAt(t)' = "called"
  BY DEF DiskCall, CallAt, Transferred, DiskInv, DiskTypeOK
<1>5. /\ CallsOf[t] = CallRecord("idle", request[t])
      /\ CallsOf' = [CallsOf EXCEPT ![t] = CallRecord("called", NewRequest(op, b, v))]
  BY <1>1, <1>3, <1>4, OneCall DEF DiskInv
<1>6. CallsOf[t].at = "idle"
  BY <1>5 DEF CallRecord
<1>7. AD!Call(t)
  <2> DEFINE n == CallRecord("called", NewRequest(op, b, v))
  <2>1. n \in AD!Requests /\ n.at = "called" /\ n.ok = FALSE
    BY <1>2, CallRecordParts
  <2>2. CallsOf' = [CallsOf EXCEPT ![t] = n] /\ store' = store
    BY <1>5 DEF DiskCall
  <2> HIDE DEF n
  <2> QED BY <2>1, <2>2, <1>6 DEF AD!Call
<1> QED BY <1>7 DEF AD!AtomicNext

(* Failing to get a semaphore is a call that fails; getting one is invisible. *)
LEMMA CreateImplements ==
    ASSUME DiskInv, NEW t \in Clients, DiskCreate(t) PROVE [AD!AtomicNext]_AD!atomicVars
<1>1. \A u \in Clients : u # t => CallAt(u)' = CallAt(u)
  BY SamePlace DEF DiskCreate, Queued, DiskInv, DiskTypeOK
<1>2. client[t] = "create" /\ CallAt(t) = "called" /\ store' = store
  BY DEF DiskCreate, CallAt, Transferred
<1>3. CASE client' = [client EXCEPT ![t] = "idle"] /\ UNCHANGED <<request, creator, units>>
  <2>1. CallAt(t)' = "idle"
    BY <1>3 DEF CallAt, DiskInv, DiskTypeOK
  <2>2. request' = [request EXCEPT ![t] = request[t]]
    BY <1>3 DEF DiskInv, DiskTypeOK
  <2>3. /\ CallsOf[t] = CallRecord("called", request[t])
        /\ CallsOf' = [CallsOf EXCEPT ![t] = CallRecord("idle", request[t])]
    BY <1>1, <1>2, <2>1, <2>2, OneCall DEF DiskInv
  <2>4. CallRecord("idle", request[t]) = [CallsOf[t] EXCEPT !.at = "idle"] /\ CallsOf[t].at = "called"
    BY <2>3 DEF CallRecord
  <2>5. AD!Fail(t)
    BY <1>2, <2>3, <2>4 DEF AD!Fail
  <2> QED BY <2>5 DEF AD!AtomicNext
<1>4. ASSUME NEW s \in Semaphores, client' = [client EXCEPT ![t] = "submit"],
             request' = [request EXCEPT ![t].sem = s]
      PROVE  UNCHANGED AD!atomicVars
  <2>1. CallAt(t)' = "called"
    BY <1>4 DEF CallAt, Transferred, DiskInv, DiskTypeOK
  <2>2. request \in [Clients -> DiskRequests]
    BY DEF DiskInv, DiskTypeOK
  <2>3. \A u \in Clients : /\ request'[u].op = request[u].op /\ request'[u].block = request[u].block
                           /\ request'[u].buf = request[u].buf /\ request'[u].ret = request[u].ret
    BY <2>2, <1>4 DEF DiskRequests
  <2> QED BY <1>1, <1>2, <2>1, <2>3, SameCalls
<1> QED BY <1>3, <1>4 DEF DiskCreate

(* Queueing is invisible. *)
LEMMA SubmitImplements ==
    ASSUME DiskInv, NEW t \in Clients, DiskSubmit(t) PROVE UNCHANGED AD!atomicVars
<1> USE DiskAssumption
<1>1. /\ request_served' \in Clients
      /\ Queued' \union {request_served'} = Queued \union ({request_served, t} \ {Nobody})
      /\ request_served' \notin Queued'
      /\ request_served # Nobody => request_served' = request_served /\ busy' = busy
      /\ request_served = Nobody => busy'
  BY SubmittedQueue
<1>2. /\ client[t] = "submit" /\ client'[t] = "wait" /\ UNCHANGED <<store, request>>
      /\ \A u \in Clients : u # t => client'[u] = client[u]
  BY DEF DiskSubmit, DiskInv, DiskTypeOK
<1>3. ASSUME NEW u \in Clients, u # t PROVE CallAt(u)' = CallAt(u)
  <2>1. request_served \notin Queued
    BY DEF DiskInv, DiskServedOnce
  <2>2. (u \in Queued \/ (u = request_served /\ busy))
          <=> (u \in Queued' \/ (u = request_served' /\ busy'))
    BY <1>1, <1>3, <2>1
  <2> QED BY <1>2, <1>3, <2>2, SamePlace
<1>4. t \in Queued' \/ (t = request_served' /\ busy')
  <2>1. t # request_served
    BY <1>2 DEF DiskSubmit, DiskInv, DiskLockOK
  <2> QED BY <1>1, <1>2, <2>1
<1>5. CallAt(t)' = CallAt(t)
  BY <1>2, <1>4 DEF CallAt, Transferred
<1> QED BY <1>2, <1>3, <1>5, SameCalls

(* Waiting is invisible. *)
LEMMA WaitImplements ==
    ASSUME DiskInv, NEW t \in Clients, DiskWait(t) PROVE UNCHANGED AD!atomicVars
<1>1. \A u \in Clients : u # t => CallAt(u)' = CallAt(u)
  BY SamePlace DEF DiskWait, Queued, DiskInv, DiskTypeOK
<1>2. client[t] = "wait" /\ client'[t] = "destroy" /\ served[t] # 0
  <2>1. request[t].sem \in Semaphores /\ client[t] = "wait" /\ units[request[t].sem] > 0
    BY OwnSemaphore DEF DiskWait
  <2> QED BY <2>1 DEF DiskWait, DiskInv, DiskServedOnce, DiskTypeOK
<1>3. t \notin Queued /\ ~(t = request_served /\ busy)
  BY <1>2 DEF DiskInv, DiskServedOnce, DiskAssertions, DiskLockOK, DiskTypeOK
<1>4. CallAt(t)' = CallAt(t)
  BY <1>2, <1>3 DEF CallAt, Transferred
<1> QED BY <1>1, <1>4, SameCalls DEF DiskWait

(* The return of the driver is the return of the atomic disk. *)
LEMMA ReturnImplements ==
    ASSUME DiskInv, NEW t \in Clients, DiskReturn(t) PROVE AD!AtomicNext
<1> DEFINE r == [request[t] EXCEPT !.sem = Nobody,
                                   !.ret = IF request[t].return_value = 0 THEN 1 ELSE 0]
<1>1. \A u \in Clients : u # t => CallAt(u)' = CallAt(u)
  BY SamePlace DEF DiskReturn, Queued, DiskInv, DiskTypeOK
<1>2. CallAt(t) = "done" /\ CallAt(t)' = "idle" /\ store' = store /\ request[t].return_value = 0
  BY DEF DiskReturn, CallAt, Transferred, DiskInv, DiskTypeOK, DiskResultsOK
<1>3. request' = [request EXCEPT ![t] = r]
  BY DEF DiskReturn
<1>4. /\ r \in DiskRequests /\ request[t] \in DiskRequests
      /\ r.op = request[t].op /\ r.block = request[t].block /\ r.buf = request[t].buf
      /\ r.ret = 1
  BY <1>2, RequestParts DEF DiskInv, DiskRequests
<1> HIDE DEF r
<1>5. /\ CallsOf[t] = CallRecord("done", request[t])
      /\ CallsOf' = [CallsOf EXCEPT ![t] = CallRecord("idle", r)]
  BY <1>1, <1>2, <1>3, OneCall DEF DiskInv
<1>6. CallRecord("idle", r) = [CallsOf[t] EXCEPT !.at = "idle", !.ok = TRUE] /\ CallsOf[t].at = "done"
  <2> DEFINE c == CallRecord("done", request[t])
             d == CallRecord("idle", r)
             e == [c EXCEPT !.at = "idle", !.ok = TRUE]
  <2>1. /\ c \in AD!Requests /\ c.at = "done" /\ c.op = request[t].op
        /\ c.block = request[t].block /\ c.buf = request[t].buf
    BY <1>4, CallRecordParts
  <2>2. /\ d \in AD!Requests /\ d.at = "idle" /\ d.op = request[t].op
        /\ d.block = request[t].block /\ d.buf = request[t].buf /\ d.ok = TRUE
    BY <1>4, CallRecordParts
  <2> HIDE DEF c, d
  <2>3. /\ e \in AD!Requests /\ e.at = "idle" /\ e.op = c.op
        /\ e.block = c.block /\ e.buf = c.buf /\ e.ok = TRUE
    BY <2>1 DEF AD!Requests
  <2> HIDE DEF e
  <2>4. d = e
    BY <2>1, <2>2, <2>3, CallExtensionality
  <2> QED BY <1>5, <2>1, <2>4 DEF c, d, e
<1>7. AD!Return(t)
  BY <1>2, <1>5, <1>6 DEF AD!Return
<1> QED BY <1>7 DEF AD!AtomicNext

(* The transfer by the device is the atomic access to the block. *)
LEMMA TransferImplements ==
    ASSUME DiskInv, DiskTransfer PROVE AD!AtomicNext
<1> USE DiskAssumption
<1>1. PICK t \in Clients :
        /\ t = request_served /\ client[t] = "wait" /\ busy /\ t \notin Queued
        /\ UNCHANGED <<request_queue, request_served, client>> /\ busy' = FALSE
  BY DEF DiskTransfer, DiskInv, DiskAssertions, DiskLockOK, DiskTypeOK, DiskServedOnce
<1>2. Queued' = Queued
  BY <1>1 DEF Queued
<1>3. \A u \in Clients : u # t => CallAt(u)' = CallAt(u)
  BY <1>1, <1>2, SamePlace
<1>4. CallAt(t) = "called" /\ CallAt(t)' = "done"
  BY <1>1, <1>2 DEF CallAt, Transferred
<1>5. CASE request[t].op = "write"
  <2>1. /\ request' = [request EXCEPT ![t] = request[t]]
        /\ store' = [store EXCEPT ![request[t].block] = request[t].buf]
    BY <1>1, <1>5 DEF DiskTransfer, DiskInv, DiskTypeOK
  <2>2. /\ CallsOf[t] = CallRecord("called", request[t])
        /\ CallsOf' = [CallsOf EXCEPT ![t] = CallRecord("done", request[t])]
    BY <1>1, <1>3, <1>4, <2>1, OneCall DEF DiskInv
  <2>3. CallRecord("done", request[t]) = [CallsOf[t] EXCEPT !.at = "done"]
    BY <2>2 DEF CallRecord
  <2>4. /\ CallsOf[t].at = "called" /\ CallsOf[t].op = "write"
        /\ CallsOf[t].block = request[t].block /\ CallsOf[t].buf = request[t].buf
    BY <1>5, <2>2 DEF CallRecord
  <2>5. AD!Transfer(t)
    BY <2>1, <2>2, <2>3, <2>4 DEF AD!Transfer
  <2> QED BY <1>1, <2>5 DEF AD!AtomicNext
<1>6. CASE request[t].op # "write"
  <2> DEFINE r == [request[t] EXCEPT !.buf = store[request[t].block]]
  <2>1. request' = [request EXCEPT ![t] = r] /\ store' = store
    BY <1>1, <1>6 DEF DiskTransfer
  <2>2. /\ r \in DiskRequests /\ request[t] \in DiskRequests
        /\ r.op = request[t].op /\ r.block = request[t].block /\ r.ret = request[t].ret
        /\ r.buf = store[request[t].block] /\ r.ret \in {0, 1} /\ r.buf \in Values
    <3>1. store[request[t].block] \in Values /\ request[t] \in DiskRequests
      BY <1>1, RequestParts DEF DiskInv, DiskTypeOK
    <3> QED BY <3>1 DEF DiskRequests
  <2> HIDE DEF r
  <2>3. /\ CallsOf[t] = CallRecord("called", request[t])
        /\ CallsOf' = [CallsOf EXCEPT ![t] = CallRecord("done", r)]
    BY <1>1, <1>3, <1>4, <2>1, OneCall DEF DiskInv
  <2>4. CallRecord("done", r) = [CallsOf[t] EXCEPT !.at = "done", !.buf = store[request[t].block]]
    <3> DEFINE c == CallRecord("called", request[t])
               d == CallRecord("done", r)
               e == [c EXCEPT !.at = "done", !.buf = store[request[t].block]]
    <3>1. /\ c \in AD!Requests /\ c.op = request[t].op /\ c.block = request[t].block
          /\ d \in AD!Requests /\ d.at = "done" /\ d.op = request[t].op
          /\ d.block = request[t].block /\ d.buf = store[request[t].block]
      BY <2>2, CallRecordParts
    <3>2. d.ok = c.ok
      <4>1. CASE r.ret = 0
        <5>1. d.ok = FALSE /\ c.ok = FALSE
          BY <4>1, <2>2, CallRecordParts
        <5> QED BY <5>1, Zenon
      <4>2. CASE r.ret = 1
        <5>1. d.ok = TRUE
          BY <4>2, <2>2, CallRecordParts
        <5>2. request[t] \in DiskRequests /\ request[t].ret = 1
          BY <4>2, <2>2
        <5>3. c.ok = TRUE
          BY <5>2, CallRecordParts
        <5> QED BY <5>1, <5>3, Zenon
      <4> QED BY <4>1, <4>2, <2>2
    <3> HIDE DEF c, d
    <3>3. /\ e \in AD!Requests /\ e.at = "done" /\ e.op = c.op
          /\ e.block = c.block /\ e.buf = store[request[t].block] /\ e.ok = c.ok
      BY <2>2, <3>1 DEF AD!Requests
    <3> HIDE DEF e
    <3>4. d = e
      BY <3>1, <3>2, <3>3, CallExtensionality
    <3> QED BY <2>3, <3>4 DEF c, d, e
  <2>5. /\ CallsOf[t].at = "called" /\ CallsOf[t].op # "write"
        /\ CallsOf[t].block = request[t].block
    BY <1>6, <2>3 DEF CallRecord
  <2>6. AD!Transfer(t)
    BY <2>1, <2>3, <2>4, <2>5 DEF AD!Transfer
  <2> QED BY <1>1, <2>6 DEF AD!AtomicNext
<1> QED BY <1>5, <1>6

(* The handler is invisible: the request was served by the device. *)
LEMMA HandlerImplements ==
    ASSUME DiskInv, NEW c \in Handlers, disk_interrupt_handle(c) PROVE UNCHANGED AD!atomicVars
<1> USE DiskAssumption
<1>1. CASE DiskInterrupt(c)
  BY <1>1, SamePlace, SameCalls DEF DiskInterrupt, Queued
<1>2. CASE HandlerRaise(c)
  <2>1. \A u \in Clients : CallAt(u)' = CallAt(u)
    BY <1>2, SamePlace DEF HandlerRaise, Queued
  <2>2. request \in [Clients -> DiskRequests]
    BY DEF DiskInv, DiskTypeOK
  <2>3. request' = request \/ request' = [request EXCEPT ![request_served].return_value = 0]
    BY <1>2, <2>2 DEF HandlerRaise, HandledRequest
  <2>4. \A u \in Clients : /\ request'[u].op = request[u].op /\ request'[u].block = request[u].block
                           /\ request'[u].buf = request[u].buf /\ request'[u].ret = request[u].ret
    BY <2>2, <2>3 DEF DiskRequests
  <2> QED BY <1>2, <2>1, <2>4, SameCalls DEF HandlerRaise
<1>3. CASE HandlerNext(c)
  <2>1. /\ request_served' \in Clients \union {Nobody} /\ request_served' \notin Queued'
        /\ request_served' # Nobody => Queued = Queued' \union {request_served'}
        /\ request_served' = Nobody => Queued = {} /\ Queued' = {}
        /\ busy' = (request_served' # Nobody)
    BY <1>3, NextQueue DEF HandlerNext
  <2>2. ~busy /\ UNCHANGED <<store, request, client>>
    BY <1>3 DEF HandlerNext, DiskInv, DiskAssertions
  <2>3. \A u \in Clients : CallAt(u)' = CallAt(u)
    BY <2>1, <2>2, SamePlace
  <2> QED BY <2>2, <2>3, SameCalls
<1> QED BY <1>1, <1>2, <1>3 DEF disk_interrupt_handle

(* Every step maps to a step of the atomic disk or to a stutter. *)
LEMMA StepImplements == DiskInv /\ [DiskNext]_diskVars => [AD!AtomicNext]_AD!atomicVars
<1> SUFFICES ASSUME DiskInv, [DiskNext]_diskVars PROVE [AD!AtomicNext]_AD!atomicVars
  OBVIOUS
<1>1. CASE UNCHANGED diskVars
  BY <1>1, SamePlace, SameCalls DEF diskVars, Queued
<1>2. ASSUME NEW t \in Clients, disk_submit_request(t) PROVE [AD!AtomicNext]_AD!atomicVars
  BY <1>2, CallImplements, CreateImplements, SubmitImplements, WaitImplements, ReturnImplements
     DEF disk_submit_request
<1> QED BY <1>1, <1>2, TransferImplements, HandlerImplements DEF DiskNext

(* The driver, its queue, its semaphores and the handler, on any number of   *)
(* CPUs, are to their callers a disk on which each request takes effect at   *)
(* one moment between the call of disk_read_block or disk_write_block and    *)
(* its return, and 1 is returned for exactly those that did.                 *)
THEOREM DiskRefinesAtomicDisk == DiskSpec => ImplementsAtomicDisk
<1> QED BY CallsInitial, DiskInvariant, StepImplements, PTL
        DEF DiskSpec, ImplementsAtomicDisk, AD!AtomicSpec

-----------------------------------------------------------------------------
(* The terminal *)

(* Indices never run more than twice past the end of what they wrap in. *)
LEMMA Wrapped ==
    ASSUME NEW n \in Nat, n > 0, NEW x \in 0 .. (3 * n - 1)
    PROVE  x % n = IF x < n THEN x ELSE IF x < 2 * n THEN x - n ELSE x - 2 * n
<1>1. CASE x < n
  BY <1>1
<1>2. CASE x >= n /\ x < 2 * n
  BY <1>2
<1>3. CASE x >= 2 * n
  BY <1>3
<1> QED BY <1>1, <1>2, <1>3

(* The positions of the ring buffer, without the modulus. *)
LEMMA SlotWraps ==
    /\ \A x \in Int : 0 <= x /\ x < 3 * TTY_BUF_SIZE =>
         Slot(x) = IF x < TTY_BUF_SIZE THEN x
                   ELSE IF x < 2 * TTY_BUF_SIZE THEN x - TTY_BUF_SIZE ELSE x - 2 * TTY_BUF_SIZE
    /\ \A x \in Int : Slot(x) \in Slots
<1>1. ASSUME NEW x \in Int, 0 <= x, x < 3 * TTY_BUF_SIZE
      PROVE  Slot(x) = IF x < TTY_BUF_SIZE THEN x
                       ELSE IF x < 2 * TTY_BUF_SIZE THEN x - TTY_BUF_SIZE ELSE x - 2 * TTY_BUF_SIZE
  BY <1>1, TtyAssumption, Wrapped DEF Slot
<1>2. \A x \in Int : Slot(x) \in Slots
  BY TtyAssumption DEF Slot, Slots
<1> QED BY <1>1, <1>2

(* The numbers of characters, without the modulus. *)
LEMMA NumberWraps ==
    /\ \A x \in Int : 0 <= x /\ x < 3 * Numbers =>
         Number(x) = IF x < Numbers THEN x ELSE IF x < 2 * Numbers THEN x - Numbers ELSE x - 2 * Numbers
    /\ \A x \in Int : Number(x) \in 0 .. (Numbers - 1)
<1>1. Numbers \in Nat /\ Numbers > 0
  BY TtyAssumption
<1>2. ASSUME NEW x \in Int, 0 <= x, x < 3 * Numbers
      PROVE  Number(x) = IF x < Numbers THEN x ELSE IF x < 2 * Numbers THEN x - Numbers ELSE x - 2 * Numbers
  BY <1>1, <1>2, Wrapped DEF Number
<1>3. \A x \in Int : Number(x) \in 0 .. (Numbers - 1)
  BY <1>1 DEF Number
<1> QED BY <1>2, <1>3

----------------------------------------------------------------------------
(* The write buffer. *)

(* One character leaves the buffer at its head: what the others are called   *)
(* counted from the next.                                                    *)
LEMMA HeadPrinted ==
    ASSUME NEW head \in Slots, NEW count \in 1 .. TTY_BUF_SIZE, NEW number \in 0 .. (Numbers - 1)
    PROVE  /\ \A k \in 0 .. (count - 2) :
                /\ Slot(Slot(head + 1) + k) = Slot(head + (k + 1))
                /\ Number(Number(number + 1) + k) = Number(number + (k + 1))
                /\ k + 1 \in 0 .. (count - 1)
           /\ Number(Number(number + 1) + (count - 1)) = Number(number + count)
           /\ Slot(head + 1) \in Slots /\ Number(number + 1) \in 0 .. (Numbers - 1)
<1> USE TtyAssumption DEF Slots
<1>1. ASSUME NEW k \in 0 .. (count - 2)
      PROVE  /\ Slot(Slot(head + 1) + k) = Slot(head + (k + 1))
             /\ Number(Number(number + 1) + k) = Number(number + (k + 1))
             /\ k + 1 \in 0 .. (count - 1)
  <2>1. Slot(Slot(head + 1) + k) = Slot(head + (k + 1))
    BY SlotWraps
  <2>2. Number(Number(number + 1) + k) = Number(number + (k + 1))
    BY NumberWraps
  <2> QED BY <2>1, <2>2
<1>2. Number(Number(number + 1) + (count - 1)) = Number(number + count)
  BY NumberWraps
<1>3. Slot(head + 1) \in Slots /\ Number(number + 1) \in 0 .. (Numbers - 1)
  BY SlotWraps, NumberWraps
<1> QED BY <1>1, <1>2, <1>3

(* What tty_write puts into the empty buffer is there in order. *)
LEMMA FilledInOrder ==
    ASSUME TtyTypeOK, NEW n \in 1 .. TTY_BUF_SIZE
    PROVE  /\ Filled(n) \in [Slots -> 0 .. (Numbers - 1)]
           /\ \A k \in 0 .. (n - 1) : Filled(n)[Slot(write_head + k)] = Number(accepted + k)
<1> USE TtyAssumption DEF Slots
<1>1. write_head \in Int /\ accepted \in Int /\ 0 <= write_head /\ write_head < TTY_BUF_SIZE
  BY DEF TtyTypeOK
<1>2. Filled(n) \in [Slots -> 0 .. (Numbers - 1)]
  <2>1. ASSUME NEW i \in Slots
        PROVE  /\ write_buf[i] \in 0 .. (Numbers - 1)
               /\ Number(accepted + Slot(i - write_head + TTY_BUF_SIZE)) \in 0 .. (Numbers - 1)
    <3>1. Slot(i - write_head + TTY_BUF_SIZE) \in Int
      BY <1>1, SlotWraps
    <3>2. accepted + Slot(i - write_head + TTY_BUF_SIZE) \in Int
      BY <3>1, <1>1
    <3> QED BY <3>2, NumberWraps DEF TtyTypeOK
  <2> QED BY <2>1 DEF Filled
<1>3. ASSUME NEW k \in 0 .. (n - 1) PROVE Filled(n)[Slot(write_head + k)] = Number(accepted + k)
  <2> DEFINE i == Slot(write_head + k)
  <2>1. i \in Slots
    BY <1>1, SlotWraps
  <2>2. Slot(i - write_head + TTY_BUF_SIZE) = k
    BY <1>1, SlotWraps
  <2> HIDE DEF i
  <2>3. Filled(n)[i] = IF Slot(i - write_head + TTY_BUF_SIZE) < n
                       THEN Number(accepted + Slot(i - write_head + TTY_BUF_SIZE)) ELSE write_buf[i]
    BY <2>1 DEF Filled
  <2>4. Filled(n)[i] = Number(accepted + k)
    BY <2>2, <2>3
  <2> QED BY <2>4 DEF i
<1> QED BY <1>2, <1>3

(* The order of output depends on the writing side only. *)
LEMMA WriteOrderKept ==
    ASSUME TtyTypeOK, WrittenInOrder, UNCHANGED writeVars PROVE WrittenInOrder'
  BY DEF WrittenInOrder, writeVars

(* tty_write fills the buffer and starts the device. *)
LEMMA WriteFills ==
    ASSUME TtyTypeOK, WrittenInOrder, WritersHaveLeft, NEW t \in Writers, tty_write(t), write_count = 0
    PROVE  /\ WrittenInOrder' /\ write_buf' \in [Slots -> 0 .. (Numbers - 1)]
           /\ write_head' \in Slots /\ write_count' \in 0 .. TTY_BUF_SIZE
           /\ accepted' \in 0 .. (Numbers - 1) /\ printed' \in 0 .. (Numbers - 1)
           /\ wbusy' = TRUE
           /\ left' \in [Writers -> 0 .. MaxLen]
           /\ tty_pc'[t] # "idle" => left'[t] > 0
           /\ tty_pc' \in [Writers \union TtyReaders -> {"idle", "running", "asleep"}]
           /\ \A u \in Writers : u # t => tty_pc'[u] = tty_pc[u] /\ left'[u] = left[u]
<1> USE TtyAssumption
<1> DEFINE n == Least(left[t], TTY_BUF_SIZE)
<1>1. left[t] \in 1 .. MaxLen /\ n \in 1 .. TTY_BUF_SIZE /\ n <= left[t]
  <2>1. left[t] \in 0 .. MaxLen /\ left[t] > 0
    BY DEF TtyTypeOK, WritersHaveLeft, tty_write
  <2> QED BY <2>1 DEF Least
<1>2. /\ write_buf' = Filled(n) /\ accepted' = Number(accepted + n) /\ StartDevice(n)
      /\ left' = [left EXCEPT ![t] = @ - n]
      /\ tty_pc' = [tty_pc EXCEPT ![t] = IF left[t] > n THEN "asleep" ELSE "idle"]
  BY DEF tty_write
<1> HIDE DEF n
<1>3. /\ write_head \in Slots /\ printed \in 0 .. (Numbers - 1) /\ accepted = printed
      /\ Numbers \in Nat /\ wbusy \in BOOLEAN
  BY NumberWraps DEF TtyTypeOK, WrittenInOrder
<1>4. /\ Filled(n) \in [Slots -> 0 .. (Numbers - 1)]
      /\ \A k \in 0 .. (n - 1) : Filled(n)[Slot(write_head + k)] = Number(printed + k)
  BY <1>1, <1>3, FilledInOrder
<1>5. accepted' = Number(printed + n) /\ accepted' \in 0 .. (Numbers - 1)
  BY <1>1, <1>2, <1>3, NumberWraps
<1>6. /\ left' \in [Writers -> 0 .. MaxLen]
      /\ tty_pc' \in [Writers \union TtyReaders -> {"idle", "running", "asleep"}]
      /\ tty_pc'[t] # "idle" => left'[t] > 0
      /\ \A u \in Writers : u # t => tty_pc'[u] = tty_pc[u] /\ left'[u] = left[u]
  <2>1. /\ left \in [Writers -> 0 .. MaxLen] /\ t \in Writers
        /\ tty_pc \in [Writers \union TtyReaders -> {"idle", "running", "asleep"}]
    BY DEF TtyTypeOK
  <2>2. left[t] - n \in 0 .. MaxLen
    BY <1>1
  <2>3. left'[t] = left[t] - n /\ tty_pc'[t] = IF left[t] > n THEN "asleep" ELSE "idle"
    BY <1>2, <2>1
  <2>4. left' \in [Writers -> 0 .. MaxLen]
    BY <1>2, <2>1, <2>2
  <2> QED BY <1>1, <1>2, <2>1, <2>3, <2>4
<1>7. CASE wbusy
  <2>1. write_head' = write_head /\ write_count' = n /\ printed' = printed /\ wbusy' = TRUE
    BY <1>2, <1>7 DEF StartDevice
  <2>2. WrittenInOrder'
    BY <2>1, <1>2, <1>4, <1>5 DEF WrittenInOrder
  <2>3. write_count' \in 0 .. TTY_BUF_SIZE
    BY <2>1, <1>1
  <2> QED BY <1>2, <1>3, <1>4, <1>5, <1>6, <2>1, <2>2, <2>3
<1>8. CASE ~wbusy
  <2>1. /\ write_head' = Slot(write_head + 1) /\ write_count' = n - 1
        /\ printed' = Number(printed + 1) /\ wbusy' = TRUE
    BY <1>2, <1>8 DEF StartDevice
  <2> DEFINE b == Filled(n)
  <2>2. \A k \in 0 .. (n - 1) : b[Slot(write_head + k)] = Number(printed + k)
    BY <1>4
  <2> HIDE DEF b
  <2>3. /\ \A k \in 0 .. (n - 2) : b[Slot(Slot(write_head + 1) + k)] = Number(Number(printed + 1) + k)
        /\ Number(Number(printed + 1) + (n - 1)) = Number(printed + n)
        /\ Slot(write_head + 1) \in Slots /\ Number(printed + 1) \in 0 .. (Numbers - 1)
    <3>1. /\ \A k \in 0 .. (n - 2) :
                /\ Slot(Slot(write_head + 1) + k) = Slot(write_head + (k + 1))
                /\ Number(Number(printed + 1) + k) = Number(printed + (k + 1))
                /\ k + 1 \in 0 .. (n - 1)
          /\ Number(Number(printed + 1) + (n - 1)) = Number(printed + n)
          /\ Slot(write_head + 1) \in Slots /\ Number(printed + 1) \in 0 .. (Numbers - 1)
      BY <1>1, <1>3, HeadPrinted
    <3> QED BY <2>2, <3>1
  <2>4. n - 1 \in 0 .. TTY_BUF_SIZE /\ n - 1 - 1 = n - 2
    BY <1>1
  <2>5. WrittenInOrder'
    <3>1. write_buf' = b /\ accepted' = Number(printed' + write_count')
      BY <1>2, <1>5, <2>1, <2>3 DEF b
    <3>2. \A k \in 0 .. (write_count' - 1) : write_buf'[Slot(write_head' + k)] = Number(printed' + k)
      BY <3>1, <2>1, <2>3, <2>4
    <3> QED BY <3>1, <3>2 DEF WrittenInOrder
  <2> QED BY <1>2, <1>4, <1>5, <1>6, <2>1, <2>3, <2>4, <2>5
<1> QED BY <1>3, <1>7, <1>8

(* The handler prints the next character. *)
LEMMA OutputKeeps ==
    ASSUME TtyTypeOK, WrittenInOrder, NEW c \in TtyCpus, HandlerOutput(c)
    PROVE  /\ WrittenInOrder' /\ write_head' \in Slots /\ write_count' \in 0 .. TTY_BUF_SIZE
           /\ printed' \in 0 .. (Numbers - 1)
<1> USE TtyAssumption
<1>1. /\ write_head \in Slots /\ write_count \in 1 .. TTY_BUF_SIZE
      /\ printed \in 0 .. (Numbers - 1)
      /\ \A k \in 0 .. (write_count - 1) : write_buf[Slot(write_head + k)] = Number(printed + k)
      /\ accepted = Number(printed + write_count)
  BY DEF TtyTypeOK, WrittenInOrder, HandlerOutput
<1>2. /\ write_buf' = write_buf /\ accepted' = accepted /\ write_head' = Slot(write_head + 1)
      /\ write_count' = write_count - 1 /\ printed' = Number(printed + 1)
  BY DEF HandlerOutput
<1>3. /\ \A k \in 0 .. (write_count - 2) :
            write_buf[Slot(Slot(write_head + 1) + k)] = Number(Number(printed + 1) + k)
      /\ Number(Number(printed + 1) + (write_count - 1)) = Number(printed + write_count)
      /\ Slot(write_head + 1) \in Slots /\ Number(printed + 1) \in 0 .. (Numbers - 1)
  <2>1. /\ \A k \in 0 .. (write_count - 2) :
              /\ Slot(Slot(write_head + 1) + k) = Slot(write_head + (k + 1))
              /\ Number(Number(printed + 1) + k) = Number(printed + (k + 1))
              /\ k + 1 \in 0 .. (write_count - 1)
        /\ Number(Number(printed + 1) + (write_count - 1)) = Number(printed + write_count)
        /\ Slot(write_head + 1) \in Slots /\ Number(printed + 1) \in 0 .. (Numbers - 1)
    BY <1>1, HeadPrinted
  <2> QED BY <1>1, <2>1
<1>4. write_count - 1 \in 0 .. TTY_BUF_SIZE /\ write_count - 1 - 1 = write_count - 2
  BY <1>1
<1> QED BY <1>1, <1>2, <1>3, <1>4 DEF WrittenInOrder

----------------------------------------------------------------------------
(* The read buffer. *)

LEMMA ReadOrderKept ==
    ASSUME TtyTypeOK, ReadInOrder, UNCHANGED <<readVars, input, typed>> PROVE ReadInOrder'
  BY DEF ReadInOrder, readVars

(* A character is typed: it is the newest, and waits in the device. *)
LEMMA TypedKeeps ==
    ASSUME TtyTypeOK, ReadInOrder, DeviceTyped
    PROVE  /\ ReadInOrder' /\ input' \in 0 .. MaxInput /\ typed' \in 0 .. (Numbers - 1)
<1> USE TtyAssumption
<1>1. /\ typed \in 0 .. (Numbers - 1) /\ input \in 0 .. MaxInput /\ input < MaxInput
      /\ read_count \in 0 .. (TTY_BUF_SIZE + 1)
      /\ typed' = Number(typed + 1) /\ input' = input + 1
      /\ UNCHANGED <<read_buf, read_head, read_count, intact>>
  BY DEF TtyTypeOK, DeviceTyped, readVars
<1>2. input' \in 0 .. MaxInput /\ typed' \in 0 .. (Numbers - 1)
  BY <1>1, NumberWraps
<1>3. ASSUME intact, NEW k \in 0 .. (read_count - 1)
      PROVE  Number(typed' - input' - read_count + k + 2 * Numbers)
               = Number(typed - input - read_count + k + 2 * Numbers)
  <2>1. read_count <= TTY_BUF_SIZE
    BY <1>3 DEF ReadInOrder
  <2>2. typed' = IF typed + 1 < Numbers THEN typed + 1 ELSE 0
    BY <1>1, NumberWraps
  <2> QED BY <1>1, <2>1, <2>2, NumberWraps
<1> QED BY <1>1, <1>2, <1>3 DEF ReadInOrder

(* The handler takes a character from the device: it goes behind the others. *)
LEMMA InputKeeps ==
    ASSUME TtyTypeOK, ReadInOrder, NEW c \in TtyCpus, HandlerInput(c)
    PROVE  /\ ReadInOrder' /\ input' \in 0 .. MaxInput /\ read_head' \in Slots
           /\ read_buf' \in [Slots -> 0 .. (Numbers - 1)]
           /\ read_count' \in 0 .. (TTY_BUF_SIZE + 1) /\ intact' \in BOOLEAN
<1> USE TtyAssumption
<1>1. /\ typed \in 0 .. (Numbers - 1) /\ input \in 1 .. MaxInput
      /\ read_count \in 0 .. (TTY_BUF_SIZE + 1) /\ read_head \in Slots
      /\ read_buf \in [Slots -> 0 .. (Numbers - 1)]
      /\ typed' = typed /\ input' = input - 1 /\ input' \in 0 .. MaxInput
  BY DEF TtyTypeOK, HandlerInput
<1>2. CASE read_count > TTY_BUF_SIZE
  <2>1. UNCHANGED <<read_buf, read_head, read_count, intact>>
    BY <1>2 DEF HandlerInput, readVars
  <2>2. ~intact
    BY <1>1, <1>2 DEF ReadInOrder
  <2> QED BY <1>1, <2>1, <2>2 DEF ReadInOrder, TtyTypeOK
<1>3. CASE ~(read_count > TTY_BUF_SIZE)
  <2> DEFINE s == InputSlot
             v == Number(typed - input + Numbers)
  <2>1. /\ read_buf' = [read_buf EXCEPT ![s] = v]
        /\ read_count' = read_count + 1
        /\ intact' = (intact /\ read_count < TTY_BUF_SIZE)
        /\ read_head' = read_head
    BY <1>3 DEF HandlerInput
  <2>2. s = Slot(read_head + read_count) /\ s \in Slots /\ v \in 0 .. (Numbers - 1)
    <3>1. read_head + read_count \in Int /\ typed - input + Numbers \in Int
      BY <1>1 DEF Slots
    <3> QED BY <3>1, SlotWraps, NumberWraps DEF InputSlot
  <2>3. v = Number(typed - input + 2 * Numbers)
    BY <1>1, NumberWraps
  <2> HIDE DEF s, v
  <2>4. /\ read_buf' \in [Slots -> 0 .. (Numbers - 1)] /\ read_buf'[s] = v
        /\ \A i \in Slots : i # s => read_buf'[i] = read_buf[i]
    BY <1>1, <2>1, <2>2
  <2>5. ASSUME intact, read_count < TTY_BUF_SIZE, NEW k \in 0 .. read_count
        PROVE  read_buf'[Slot(read_head + k)]
                 = Number(typed - (input - 1) - (read_count + 1) + k + 2 * Numbers)
    <3>1. typed - (input - 1) - (read_count + 1) + k + 2 * Numbers
            = typed - input - read_count + k + 2 * Numbers
      BY <1>1
    <3>2. CASE k = read_count
      <4>1. typed - input - read_count + k + 2 * Numbers = typed - input + 2 * Numbers
        BY <3>2, <1>1
      <4> QED BY <3>1, <3>2, <4>1, <2>2, <2>3, <2>4
    <3>3. CASE k # read_count
      <4>1. k \in 0 .. (read_count - 1)
        BY <3>3, <1>1
      <4>2. Slot(read_head + k) # s /\ Slot(read_head + k) \in Slots
        <5>1. /\ read_head \in Int /\ 0 <= read_head /\ read_head < TTY_BUF_SIZE
              /\ k < read_count /\ read_count \in Int /\ 0 <= k
          BY <4>1, <1>1 DEF Slots
        <5>2. Slot(read_head + k) \in Slots
          BY <5>1, SlotWraps
        <5>3. Slot(read_head + k) # Slot(read_head + read_count)
          BY <5>1, <2>5, SlotWraps
        <5> QED BY <5>2, <5>3, <2>2
      <4>3. read_buf[Slot(read_head + k)] = Number(typed - input - read_count + k + 2 * Numbers)
        BY <4>1, <2>5 DEF ReadInOrder
      <4> QED BY <3>1, <4>2, <4>3, <2>4
    <3> QED BY <3>2, <3>3
  <2>6. ReadInOrder'
    <3> SUFFICES ASSUME intact'
                 PROVE  /\ read_count' <= TTY_BUF_SIZE
                        /\ \A k \in 0 .. (read_count' - 1) :
                             read_buf'[Slot(read_head' + k)]
                               = Number(typed' - input' - read_count' + k + 2 * Numbers)
      BY DEF ReadInOrder
    <3>1. intact /\ read_count < TTY_BUF_SIZE
      BY <2>1
    <3>2. read_count' <= TTY_BUF_SIZE /\ read_count' - 1 = read_count
      BY <3>1, <1>1, <2>1
    <3> QED BY <3>1, <3>2, <2>1, <2>5, <1>1
  <2>7. read_count' \in 0 .. (TTY_BUF_SIZE + 1) /\ intact' \in BOOLEAN
    BY <1>1, <1>3, <2>1
  <2> QED BY <1>1, <2>1, <2>4, <2>6, <2>7
<1> QED BY <1>2, <1>3

(* A reader takes the oldest characters. *)
LEMMA ReadKeeps ==
    ASSUME TtyTypeOK, ReadInOrder, NEW t \in TtyReaders, tty_read(t), read_count # 0
    PROVE  /\ ReadInOrder' /\ read_head' \in Slots /\ read_count' \in 0 .. (TTY_BUF_SIZE + 1)
           /\ intact' \in BOOLEAN
<1> USE TtyAssumption
<1>1. PICK len \in 1 .. MaxLen :
           /\ read_head' = HeadAfter(Least(len, read_count))
           /\ read_count' = read_count - Least(len, read_count)
           /\ intact' = (intact \/ read_count = Least(len, read_count))
           /\ read_buf' = read_buf
  BY DEF tty_read
<1> DEFINE n == Least(len, read_count)
<1>2. /\ read_count \in 1 .. (TTY_BUF_SIZE + 1) /\ read_head \in Slots
      /\ typed \in 0 .. (Numbers - 1) /\ input \in 0 .. MaxInput
  BY DEF TtyTypeOK
<1>3. n \in 1 .. read_count
  BY <1>2 DEF Least
<1>4. /\ read_head' = Slot(read_head + n) /\ read_count' = read_count - n
      /\ intact' = (intact \/ read_count = n) /\ read_buf' = read_buf
      /\ typed' = typed /\ input' = input
  BY <1>1 DEF HeadAfter, tty_read
<1> HIDE DEF n
<1>5. read_head' \in Slots /\ read_count' \in 0 .. (TTY_BUF_SIZE + 1) /\ intact' \in BOOLEAN
  BY <1>2, <1>3, <1>4, SlotWraps DEF Slots
<1>6. ReadInOrder'
  <2> SUFFICES ASSUME intact'
               PROVE  /\ read_count' <= TTY_BUF_SIZE
                      /\ \A k \in 0 .. (read_count' - 1) :
                           read_buf'[Slot(read_head' + k)]
                             = Number(typed' - input' - read_count' + k + 2 * Numbers)
    BY DEF ReadInOrder
  <2>1. CASE read_count = n
    BY <2>1, <1>2, <1>3, <1>4
  <2>2. CASE read_count # n
    <3>1. intact /\ read_count <= TTY_BUF_SIZE
      BY <2>2, <1>4 DEF ReadInOrder
    <3>2. ASSUME NEW k \in 0 .. (read_count - n - 1)
          PROVE  read_buf[Slot(Slot(read_head + n) + k)]
                   = Number(typed - input - (read_count - n) + k + 2 * Numbers)
      <4>1. n + k \in 0 .. (read_count - 1)
        BY <1>2, <1>3
      <4>2. Slot(Slot(read_head + n) + k) = Slot(read_head + (n + k))
        BY <1>2, <1>3, <3>1, SlotWraps DEF Slots
      <4>3. typed - input - (read_count - n) + k + 2 * Numbers
              = typed - input - read_count + (n + k) + 2 * Numbers
        BY <1>2, <1>3
      <4> QED BY <4>1, <4>2, <4>3, <3>1 DEF ReadInOrder
    <3>3. read_count' <= TTY_BUF_SIZE
      BY <1>2, <1>3, <1>4, <3>1
    <3> QED BY <1>4, <3>2, <3>3
  <2> QED BY <2>1, <2>2
<1> QED BY <1>5, <1>6

----------------------------------------------------------------------------
(* Both buffers together, action by action. *)

LEMMA TtyInitial == TtyInit => BuffersOK /\ NobodyForgotten
<1> SUFFICES ASSUME TtyInit PROVE BuffersOK /\ NobodyForgotten
  OBVIOUS
<1> USE TtyAssumption DEF TtyInit
<1>1. TtyTypeOK
  <2>1. 0 \in Slots /\ 0 \in 0 .. (Numbers - 1)
    BY DEF Slots
  <2>2. /\ write_buf \in [Slots -> 0 .. (Numbers - 1)] /\ read_buf \in [Slots -> 0 .. (Numbers - 1)]
        /\ write_head \in Slots /\ read_head \in Slots
        /\ {accepted, printed, typed} \subseteq 0 .. (Numbers - 1)
    BY <2>1
  <2>3. /\ write_count \in 0 .. TTY_BUF_SIZE /\ read_count \in 0 .. (TTY_BUF_SIZE + 1)
        /\ input \in 0 .. MaxInput /\ 0 \in 0 .. MaxLen
    OBVIOUS
  <2>4. left \in [Writers -> 0 .. MaxLen]
    BY <2>3
  <2>5. /\ wbusy \in BOOLEAN /\ wirq \in BOOLEAN /\ rirq \in BOOLEAN /\ intact \in BOOLEAN
        /\ tty_slock \in TtyCpus \union {Unlocked}
    OBVIOUS
  <2>6. tty_pc \in [Writers \union TtyReaders -> {"idle", "running", "asleep"}]
    OBVIOUS
  <2>7. tty_handler \in [TtyCpus -> {"none", "lock_write", "output", "lock_read", "input", "wake"}]
    OBVIOUS
  <2> QED BY <2>2, <2>3, <2>4, <2>5, <2>6, <2>7 DEF TtyTypeOK
<1>2. WrittenInOrder /\ ReadInOrder
  BY NumberWraps DEF WrittenInOrder, ReadInOrder
<1>3. WritersHaveLeft /\ NobodyForgotten
  BY DEF WritersHaveLeft, NobodyForgotten
<1> QED BY <1>1, <1>2, <1>3 DEF BuffersOK

(* Steps of the threads in tty_write and tty_read preserve both invariants. *)
LEMMA ThreadKeeps ==
    ASSUME BuffersOK, NobodyForgotten, UNCHANGED tty_users,
           \/ \E t \in Writers : WriteCall(t) \/ tty_write(t)
           \/ \E t \in TtyReaders : ReadCall(t) \/ tty_read(t)
    PROVE  BuffersOK' /\ NobodyForgotten'
<1> USE TtyAssumption
<1>1. ASSUME NEW t \in Writers, WriteCall(t) PROVE BuffersOK' /\ NobodyForgotten'
  <2>1. WrittenInOrder' /\ ReadInOrder'
    BY <1>1, WriteOrderKept, ReadOrderKept DEF WriteCall, BuffersOK
  <2>2. TtyTypeOK' /\ WritersHaveLeft'
    BY <1>1 DEF WriteCall, BuffersOK, TtyTypeOK, WritersHaveLeft, writeVars, readVars
  <2>3. NobodyForgotten'
    BY <1>1 DEF WriteCall, BuffersOK, TtyTypeOK, NobodyForgotten, writeVars, readVars
  <2> QED BY <2>1, <2>2, <2>3 DEF BuffersOK
<1>2. ASSUME NEW t \in Writers, tty_write(t), write_count > 0 PROVE BuffersOK' /\ NobodyForgotten'
  <2>1. UNCHANGED <<writeVars, readVars, left, wbusy, wirq, rirq, input, tty_slock, tty_handler, typed>>
        /\ tty_pc' = [tty_pc EXCEPT ![t] = "asleep"] /\ tty_pc[t] = "running"
    BY <1>2 DEF tty_write
  <2>2. WrittenInOrder' /\ ReadInOrder'
    BY <2>1, WriteOrderKept, ReadOrderKept DEF BuffersOK
  <2>3. TtyTypeOK' /\ WritersHaveLeft'
    BY <2>1 DEF BuffersOK, TtyTypeOK, WritersHaveLeft, writeVars, readVars
  <2>4. NobodyForgotten'
    BY <1>2, <2>1 DEF BuffersOK, TtyTypeOK, NobodyForgotten, writeVars, readVars
  <2> QED BY <2>2, <2>3, <2>4 DEF BuffersOK
<1>3. ASSUME NEW t \in Writers, tty_write(t), ~(write_count > 0) PROVE BuffersOK' /\ NobodyForgotten'
  <2>1. write_count = 0
    BY <1>3 DEF BuffersOK, TtyTypeOK
  <2>2. /\ WrittenInOrder' /\ write_buf' \in [Slots -> 0 .. (Numbers - 1)]
        /\ write_head' \in Slots /\ write_count' \in 0 .. TTY_BUF_SIZE
        /\ accepted' \in 0 .. (Numbers - 1) /\ printed' \in 0 .. (Numbers - 1)
        /\ wbusy' = TRUE
        /\ left' \in [Writers -> 0 .. MaxLen]
        /\ tty_pc'[t] # "idle" => left'[t] > 0
        /\ tty_pc' \in [Writers \union TtyReaders -> {"idle", "running", "asleep"}]
        /\ \A u \in Writers : u # t => tty_pc'[u] = tty_pc[u] /\ left'[u] = left[u]
    BY <1>3, <2>1, WriteFills DEF BuffersOK
  <2>3. UNCHANGED <<readVars, wirq, rirq, input, tty_slock, tty_handler, typed>>
        /\ \A u \in TtyReaders : tty_pc'[u] = tty_pc[u]
    BY <1>3, <2>1 DEF tty_write, BuffersOK, TtyTypeOK
  <2>4. ReadInOrder'
    BY <2>3, ReadOrderKept DEF BuffersOK
  <2>5. TtyTypeOK'
    BY <2>2, <2>3 DEF BuffersOK, TtyTypeOK, readVars
  <2>6. WritersHaveLeft'
    BY <2>2 DEF BuffersOK, WritersHaveLeft
  <2>7. NobodyForgotten'
    BY <2>2, <2>3 DEF NobodyForgotten, readVars
  <2> QED BY <2>2, <2>4, <2>5, <2>6, <2>7 DEF BuffersOK
<1>4. ASSUME NEW t \in TtyReaders, ReadCall(t) PROVE BuffersOK' /\ NobodyForgotten'
  <2>1. WrittenInOrder' /\ ReadInOrder'
    BY <1>4, WriteOrderKept, ReadOrderKept DEF ReadCall, BuffersOK
  <2>2. TtyTypeOK' /\ WritersHaveLeft'
    BY <1>4 DEF ReadCall, BuffersOK, TtyTypeOK, WritersHaveLeft, writeVars, readVars
  <2>3. NobodyForgotten'
    BY <1>4 DEF ReadCall, BuffersOK, TtyTypeOK, NobodyForgotten, writeVars, readVars
  <2> QED BY <2>1, <2>2, <2>3 DEF BuffersOK
<1>5. ASSUME NEW t \in TtyReaders, tty_read(t) PROVE BuffersOK' /\ NobodyForgotten'
  <2>1. /\ UNCHANGED <<writeVars, read_buf, wbusy, wirq, rirq, input, tty_slock, left, tty_handler, typed>>
        /\ tty_pc' \in [Writers \union TtyReaders -> {"idle", "running", "asleep"}]
        /\ \A u \in Writers : tty_pc'[u] = tty_pc[u]
    BY <1>5 DEF tty_read, readVars, BuffersOK, TtyTypeOK
  <2>2. WrittenInOrder' /\ WritersHaveLeft'
    BY <2>1, WriteOrderKept DEF BuffersOK, WritersHaveLeft
  <2>3. /\ ReadInOrder' /\ read_head' \in Slots /\ read_count' \in 0 .. (TTY_BUF_SIZE + 1)
        /\ intact' \in BOOLEAN
    <3>1. CASE read_count = 0
      <4>1. UNCHANGED <<readVars, input, typed>>
        BY <1>5, <3>1 DEF tty_read
      <4> QED BY <4>1, ReadOrderKept DEF BuffersOK, TtyTypeOK, readVars
    <3>2. CASE read_count # 0
      BY <1>5, <3>2, ReadKeeps DEF BuffersOK
    <3> QED BY <3>1, <3>2
  <2>4. TtyTypeOK'
    BY <2>1, <2>3 DEF BuffersOK, TtyTypeOK, writeVars
  <2>5. NobodyForgotten'
    <3>1. ASSUME NEW u \in TtyReaders, tty_pc'[u] = "asleep", read_count' > 0
          PROVE  \E c \in TtyCpus : tty_handler[c] \in {"input", "wake"}
      <4>1. read_count # 0
        BY <1>5, <3>1 DEF tty_read, readVars
      <4>2. tty_pc[u] = "asleep"
        BY <1>5, <3>1, <4>1 DEF tty_read, BuffersOK, TtyTypeOK
      <4>3. read_count > 0
        BY <4>1 DEF BuffersOK, TtyTypeOK
      <4> QED BY <4>2, <4>3 DEF NobodyForgotten
    <3> QED BY <2>1, <3>1 DEF NobodyForgotten, writeVars
  <2> QED BY <2>2, <2>3, <2>4, <2>5 DEF BuffersOK
<1> QED BY <1>1, <1>2, <1>3, <1>4, <1>5

(* Steps of the device preserve both invariants. *)
LEMMA DeviceKeeps ==
    ASSUME BuffersOK, NobodyForgotten, UNCHANGED tty_users, DevicePrints \/ DeviceTyped
    PROVE  BuffersOK' /\ NobodyForgotten'
<1> USE TtyAssumption
<1>1. CASE DevicePrints
  <2>1. WrittenInOrder' /\ ReadInOrder'
    BY <1>1, WriteOrderKept, ReadOrderKept DEF DevicePrints, BuffersOK
  <2>2. TtyTypeOK' /\ WritersHaveLeft' /\ NobodyForgotten'
    BY <1>1 DEF DevicePrints, BuffersOK, TtyTypeOK, WritersHaveLeft, NobodyForgotten, writeVars, readVars
  <2> QED BY <2>1, <2>2 DEF BuffersOK
<1>2. CASE DeviceTyped
  <2>1. /\ ReadInOrder' /\ input' \in 0 .. MaxInput /\ typed' \in 0 .. (Numbers - 1)
    BY <1>2, TypedKeeps DEF BuffersOK
  <2>2. WrittenInOrder'
    BY <1>2, WriteOrderKept DEF DeviceTyped, BuffersOK
  <2>3. TtyTypeOK' /\ WritersHaveLeft' /\ NobodyForgotten'
    BY <1>2, <2>1 DEF DeviceTyped, BuffersOK, TtyTypeOK, WritersHaveLeft, NobodyForgotten, writeVars, readVars
  <2> QED BY <2>1, <2>2, <2>3 DEF BuffersOK
<1> QED BY <1>1, <1>2

(* The steps of the handler. *)
LEMMA HandlerKeeps ==
    ASSUME BuffersOK, NobodyForgotten, UNCHANGED tty_users, NEW c \in TtyCpus, tty_interrupt_handle(c)
    PROVE  BuffersOK' /\ NobodyForgotten'
<1> USE TtyAssumption
<1>1. CASE TtyInterrupt(c)
  <2>1. WrittenInOrder' /\ ReadInOrder'
    BY <1>1, WriteOrderKept, ReadOrderKept DEF TtyInterrupt, BuffersOK
  <2>2. TtyTypeOK' /\ WritersHaveLeft'
    BY <1>1 DEF TtyInterrupt, HandlerGoto, BuffersOK, TtyTypeOK, WritersHaveLeft, writeVars, readVars
  <2>3. NobodyForgotten'
    BY <1>1 DEF TtyInterrupt, HandlerGoto, BuffersOK, TtyTypeOK, NobodyForgotten, writeVars, readVars
  <2> QED BY <2>1, <2>2, <2>3 DEF BuffersOK
<1>2. CASE HandlerLockWrite(c)
  <2>1. WrittenInOrder' /\ ReadInOrder'
    BY <1>2, WriteOrderKept, ReadOrderKept DEF HandlerLockWrite, BuffersOK
  <2>2. TtyTypeOK' /\ WritersHaveLeft'
    BY <1>2 DEF HandlerLockWrite, HandlerGoto, BuffersOK, TtyTypeOK, WritersHaveLeft, writeVars, readVars
  <2>3. NobodyForgotten'
    BY <1>2 DEF HandlerLockWrite, HandlerGoto, BuffersOK, TtyTypeOK, NobodyForgotten, writeVars, readVars
  <2> QED BY <2>1, <2>2, <2>3 DEF BuffersOK
<1>3. CASE HandlerOutput(c)
  <2>1. /\ WrittenInOrder' /\ write_head' \in Slots /\ write_count' \in 0 .. TTY_BUF_SIZE
        /\ printed' \in 0 .. (Numbers - 1)
    BY <1>3, OutputKeeps DEF BuffersOK
  <2>2. ReadInOrder'
    BY <1>3, ReadOrderKept DEF HandlerOutput, BuffersOK
  <2>3. TtyTypeOK' /\ WritersHaveLeft' /\ NobodyForgotten'
    BY <1>3, <2>1 DEF HandlerOutput, BuffersOK, TtyTypeOK, WritersHaveLeft, NobodyForgotten, readVars
  <2> QED BY <2>1, <2>2, <2>3 DEF BuffersOK
<1>4. CASE HandlerOutputDone(c)
  <2>1. WrittenInOrder' /\ ReadInOrder'
    BY <1>4, WriteOrderKept, ReadOrderKept DEF HandlerOutputDone, BuffersOK
  <2>2. /\ tty_pc' \in [Writers \union TtyReaders -> {"idle", "running", "asleep"}]
        /\ \A t \in Writers \union TtyReaders :
             /\ tty_pc'[t] = "asleep" => tty_pc[t] = "asleep"
             /\ tty_pc'[t] = "idle" <=> tty_pc[t] = "idle"
        /\ write_count = 0 => \A t \in Writers : tty_pc'[t] # "asleep"
    BY <1>4 DEF HandlerOutputDone, WritersWoken, Woken, BuffersOK, TtyTypeOK
  <2>3. TtyTypeOK' /\ WritersHaveLeft'
    BY <1>4, <2>2 DEF HandlerOutputDone, HandlerGoto, BuffersOK, TtyTypeOK, WritersHaveLeft, writeVars, readVars
  <2>4. NobodyForgotten'
    <3>1. CASE wbusy
      BY <1>4, <2>2, <3>1 DEF HandlerOutputDone, HandlerGoto, BuffersOK, TtyTypeOK, NobodyForgotten,
                              writeVars, readVars
    <3>2. CASE ~wbusy
      <4>1. write_count = 0 /\ write_count' = 0
        BY <1>4, <3>2 DEF HandlerOutputDone, writeVars
      <4> QED BY <1>4, <2>2, <4>1 DEF HandlerOutputDone, HandlerGoto, BuffersOK, TtyTypeOK, NobodyForgotten,
                              readVars
    <3> QED BY <3>1, <3>2
  <2> QED BY <2>1, <2>3, <2>4 DEF BuffersOK
<1>5. CASE HandlerLockRead(c)
  <2>1. WrittenInOrder' /\ ReadInOrder'
    BY <1>5, WriteOrderKept, ReadOrderKept DEF HandlerLockRead, BuffersOK
  <2>2. TtyTypeOK' /\ WritersHaveLeft'
    BY <1>5 DEF HandlerLockRead, HandlerGoto, BuffersOK, TtyTypeOK, WritersHaveLeft, writeVars, readVars
  <2>3. NobodyForgotten'
    BY <1>5 DEF HandlerLockRead, HandlerGoto, BuffersOK, TtyTypeOK, NobodyForgotten, writeVars, readVars
  <2> QED BY <2>1, <2>2, <2>3 DEF BuffersOK
<1>6. CASE HandlerInput(c)
  <2>1. /\ ReadInOrder' /\ input' \in 0 .. MaxInput /\ read_head' \in Slots
        /\ read_buf' \in [Slots -> 0 .. (Numbers - 1)]
        /\ read_count' \in 0 .. (TTY_BUF_SIZE + 1) /\ intact' \in BOOLEAN
    BY <1>6, InputKeeps DEF BuffersOK
  <2>2. WrittenInOrder'
    BY <1>6, WriteOrderKept DEF HandlerInput, BuffersOK
  <2>3. TtyTypeOK' /\ WritersHaveLeft' /\ NobodyForgotten'
    BY <1>6, <2>1 DEF HandlerInput, BuffersOK, TtyTypeOK, WritersHaveLeft, NobodyForgotten, writeVars
  <2> QED BY <2>1, <2>2, <2>3 DEF BuffersOK
<1>7. CASE HandlerInputDone(c)
  <2>1. WrittenInOrder' /\ ReadInOrder'
    BY <1>7, WriteOrderKept, ReadOrderKept DEF HandlerInputDone, BuffersOK
  <2>2. TtyTypeOK' /\ WritersHaveLeft'
    BY <1>7 DEF HandlerInputDone, HandlerGoto, BuffersOK, TtyTypeOK, WritersHaveLeft, writeVars, readVars
  <2>3. NobodyForgotten'
    BY <1>7 DEF HandlerInputDone, HandlerGoto, BuffersOK, TtyTypeOK, NobodyForgotten, writeVars, readVars
  <2> QED BY <2>1, <2>2, <2>3 DEF BuffersOK
<1>8. CASE HandlerWake(c)
  <2>1. WrittenInOrder' /\ ReadInOrder'
    BY <1>8, WriteOrderKept, ReadOrderKept DEF HandlerWake, BuffersOK
  <2>2. /\ tty_pc' \in [Writers \union TtyReaders -> {"idle", "running", "asleep"}]
        /\ \A t \in Writers : tty_pc'[t] = tty_pc[t]
        /\ \A t \in TtyReaders : tty_pc'[t] # "asleep"
    BY <1>8 DEF HandlerWake, ReadersWoken, Woken, BuffersOK, TtyTypeOK
  <2>3. TtyTypeOK' /\ WritersHaveLeft'
    BY <1>8, <2>2 DEF HandlerWake, HandlerGoto, BuffersOK, TtyTypeOK, WritersHaveLeft, writeVars, readVars
  <2>4. NobodyForgotten'
    BY <1>8, <2>2 DEF HandlerWake, HandlerGoto, BuffersOK, TtyTypeOK, NobodyForgotten, writeVars
  <2> QED BY <2>1, <2>3, <2>4 DEF BuffersOK
<1> QED BY <1>1, <1>2, <1>3, <1>4, <1>5, <1>6, <1>7, <1>8 DEF tty_interrupt_handle

(* Every step preserves both invariants. *)
LEMMA TtyStep == BuffersOK /\ NobodyForgotten /\ [TtyNext]_ttyVars => BuffersOK' /\ NobodyForgotten'
<1> SUFFICES ASSUME BuffersOK, NobodyForgotten, [TtyNext]_ttyVars
             PROVE  BuffersOK' /\ NobodyForgotten'
  OBVIOUS
<1>1. CASE UNCHANGED ttyVars
  BY <1>1 DEF ttyVars, BuffersOK, TtyTypeOK, WrittenInOrder, ReadInOrder, WritersHaveLeft, NobodyForgotten
<1>2. CASE TtyNext
  BY <1>2, ThreadKeeps, DeviceKeeps, HandlerKeeps DEF TtyNext
<1> QED BY <1>1, <1>2

(* The ring buffers of tty_write, tty_read and tty_interrupt_handle keep the *)
(* order of the characters for every buffer size: none is lost, doubled or   *)
(* printed out of turn, and those typed are read in order until an overrun.  *)
THEOREM BuffersInvariant == TtySpec => []BuffersOK
<1> QED BY TtyInitial, TtyStep, PTL DEF TtySpec

(* Nobody sleeps on either buffer without something under way that wakes it: *)
(* the device, a pending interrupt or a handler.                             *)
THEOREM NobodyForgottenInvariant == TtySpec => []NobodyForgotten
<1> QED BY TtyInitial, TtyStep, PTL DEF TtySpec
=============================================================================
