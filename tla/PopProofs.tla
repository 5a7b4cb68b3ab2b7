------------------------------ MODULE PopProofs ------------------------------
(***************************************************************************)
(* Proofs about the network (module Pop), for any number of pages, sockets, *)
(* slots, ports, clients and interfaces.                                    *)
(***************************************************************************)
EXTENDS Pop, FiniteSetTheorems, WellFoundedInduction, TLAPS

(* Min is the least element of a set of natural numbers. *)
LEMMA MinIsLeast ==
    ASSUME NEW S \in SUBSET Nat, S # {}
    PROVE  Min(S) \in S /\ \A y \in S : Min(S) <= y
<1> DEFINE Smaller == OpToRel(<, Nat)
<1>1. \A x, y \in Nat : <<y, x>> \notin Smaller => x <= y
  BY DEF OpToRel
<1>2. IsWellFoundedOn(Smaller, Nat)
  BY NatLessThanWellFounded
<1> HIDE DEF Smaller
<1>3. PICK x \in S : \A y \in S : <<y, x>> \notin Smaller
  BY <1>2, WFMin
<1>4. \A y \in S : x <= y
  BY <1>1, <1>3
<1> QED BY <1>4 DEF Min

(* A union has at most as many elements as both sets. *)
LEMMA UnionBound ==
    ASSUME NEW S, NEW T, IsFiniteSet(S), IsFiniteSet(T)
    PROVE  IsFiniteSet(S \cup T) /\ Cardinality(S \cup T) <= Cardinality(S) + Cardinality(T)
<1>1. /\ IsFiniteSet(S \cup T)
      /\ Cardinality(S \cup T) = Cardinality(S) + Cardinality(T) - Cardinality(S \cap T)
  BY FS_Union
<1>2. IsFiniteSet(S \cap T)
  BY FS_Intersection
<1>3. Cardinality(S) \in Nat /\ Cardinality(T) \in Nat /\ Cardinality(S \cap T) \in Nat
  BY <1>2, FS_CardinalityType
<1> QED BY <1>1, <1>3

(* The sizes of the tables are natural numbers. *)
LEMMA Sizes ==
    /\ NumPages \in Nat /\ NumPages >= 1 /\ MaxSockets \in Nat /\ MaxSockets >= 1
    /\ QueueSize \in Nat /\ QueueSize >= 1 /\ MaxPort \in Nat /\ MaxPort >= 1
    /\ MinAge \in Nat /\ MaxTime \in Nat /\ MaxFrames \in Nat
    /\ Sockets \subseteq Nat /\ Slots \subseteq Nat /\ Ports \subseteq Nat /\ Pages \subseteq Nat
    /\ NoSocket \notin Sockets /\ NoPage \notin Pages /\ Junk \notin Ports /\ Unknown \notin Ports
    /\ SendBuffer \in Pages /\ 0 \in Slots /\ Nobody \notin Clients /\ 0 \notin Ports
BY PopAssumption DEF Sockets, Slots, Ports, Pages, NoSocket, NoPage, Junk, Unknown, SendBuffer,
                     Nobody

(* What pagepool_get_phys_page returns is a free page. *)
LEMMA FirstPageFree ==
    ASSUME PopTypeOK, pool # {}
    PROVE  FirstPage \in pool /\ FirstPage \in Pages
<1>1. pool \in SUBSET Nat
  BY Sizes DEF PopTypeOK
<1> QED BY <1>1, MinIsLeast DEF FirstPage, PopTypeOK

(* A socket that is opened is a free one. *)
LEMMA FreeSocketFound ==
    ASSUME FreeSockets # {}
    PROVE  Min(FreeSockets) \in Sockets /\ ~InUse(Min(FreeSockets))
<1>1. FreeSockets \in SUBSET Nat
  BY Sizes DEF FreeSockets
<1>2. Min(FreeSockets) \in FreeSockets
  BY <1>1, MinIsLeast
<1> QED BY <1>2 DEF FreeSockets

(* While a socket is free, some port is free. *)
LEMMA FreePortFound ==
    ASSUME PopTypeOK, FreeSockets # {}, NEW port \in Ports \cup {0}, NEW p \in PortFor(port)
    PROVE  p \in Ports
<1>1. CASE port = 0
  <2> DEFINE used == {t \in Sockets : InUse(t)}
             pt == [t \in used |-> open_sockets[t].port]
  <2>1. IsFiniteSet(Sockets) /\ Cardinality(Sockets) = MaxSockets
    <3>1. 0 \in Int /\ MaxSockets - 1 \in Int /\ ~(0 > MaxSockets - 1)
      BY Sizes
    <3>2. (MaxSockets - 1) - 0 + 1 = MaxSockets
      BY Sizes
    <3> QED BY <3>1, <3>2, FS_Interval DEF Sockets
  <2>2. PICK s \in Sockets : s \notin used
    BY DEF FreeSockets
  <2>3. IsFiniteSet(used) /\ Cardinality(used) < MaxSockets
    <3>1. used \subseteq Sockets /\ used # Sockets
      BY <2>2
    <3>2. IsFiniteSet(used) /\ Cardinality(used) <= MaxSockets /\ Cardinality(used) # MaxSockets
      BY <2>1, <3>1, FS_Subset
    <3>3. Cardinality(used) \in Nat
      BY <3>2, FS_CardinalityType
    <3> QED BY <3>2, <3>3, Sizes
  <2>4. IsFiniteSet(PortsInUse) /\ Cardinality(PortsInUse) <= Cardinality(used)
    <3>1. pt \in Surjection(used, PortsInUse)
      BY DEF Surjection, PortsInUse
    <3> QED BY <2>3, <3>1, FS_Surjection
  <2>5. IsFiniteSet(Ports) /\ Cardinality(Ports) = MaxPort
    <3>1. 1 \in Int /\ MaxPort \in Int /\ ~(1 > MaxPort) /\ MaxPort - 1 + 1 = MaxPort
      BY Sizes
    <3>2. /\ IsFiniteSet(1 .. MaxPort)
          /\ Cardinality(1 .. MaxPort) = IF 1 > MaxPort THEN 0 ELSE MaxPort - 1 + 1
      BY <3>1, FS_Interval
    <3> QED BY <3>1, <3>2 DEF Ports
  <2>6. MaxPort >= MaxSockets /\ Cardinality(PortsInUse) \in Nat /\ Cardinality(used) \in Nat
    BY <2>3, <2>4, FS_CardinalityType, PopAssumption
  <2>7. ~(Ports \subseteq PortsInUse)
    <3>1. ASSUME Ports \subseteq PortsInUse PROVE FALSE
      <4>1. Cardinality(Ports) <= Cardinality(PortsInUse)
        BY <2>4, <3>1, FS_Subset
      <4> QED BY <4>1, <2>3, <2>4, <2>5, <2>6, Sizes
    <3> QED BY <3>1
  <2>8. Ports \ PortsInUse # {} /\ Ports \ PortsInUse \in SUBSET Nat
    BY <2>7, Sizes
  <2>9. Min(Ports \ PortsInUse) \in Ports \ PortsInUse
    BY <2>8, MinIsLeast
  <2> QED BY <1>1, <2>9 DEF PortFor
<1>2. CASE port # 0
  BY <1>2 DEF PortFor
<1> QED BY <1>1, <1>2

(* A frame is put into a slot that is empty or not busy. *)
LEMMA PushSlotFree ==
    ASSUME NEW i \in PushSlot
    PROVE  i \in Slots /\ (pop_queue[i].frame = NoPage \/ ~pop_queue[i].busy)
<1>1. CASE EmptySlots # {}
  <2>1. EmptySlots \in SUBSET Nat
    BY Sizes DEF EmptySlots
  <2>2. Min(EmptySlots) \in EmptySlots
    BY <1>1, <2>1, MinIsLeast
  <2> QED BY <1>1, <2>2 DEF PushSlot, EmptySlots
<1>2. CASE EmptySlots = {}
  BY <1>2 DEF PushSlot, OldestSlots
<1> QED BY <1>1, <1>2

(* The socket that a queued frame is for. *)
LEMMA SocketFound ==
    ASSUME PopTypeOK, NEW i \in Slots
    PROVE  /\ SocketOf(i) \in Sockets \cup {NoSocket}
           /\ pop_queue[i].socket # NoSocket => SocketOf(i) = pop_queue[i].socket
           /\ pop_queue[i].socket = NoSocket /\ SocketOf(i) # NoSocket =>
                /\ InUse(SocketOf(i))
                /\ open_sockets[SocketOf(i)].port = mem[pop_queue[i].frame]
<1> DEFINE found == {s \in Sockets : /\ open_sockets[s].protocol = "pop"
                                     /\ open_sockets[s].port = mem[pop_queue[i].frame]}
<1>1. found # {} => Min(found) \in found
  <2>1. found \in SUBSET Nat
    BY Sizes
  <2> QED BY <2>1, MinIsLeast
<1>2. pop_queue[i].socket \in Sockets \cup {NoSocket}
  BY DEF PopTypeOK, SlotType
<1>3. SocketOf(i) = IF pop_queue[i].socket # NoSocket THEN pop_queue[i].socket
                    ELSE IF found = {} THEN NoSocket ELSE Min(found)
  BY DEF SocketOf
<1> QED BY <1>1, <1>2, <1>3 DEF InUse
-----------------------------------------------------------------------------
(* Types *)

(* FreePage and MakeRoom keep pool and pages within their types. *)
LEMMA FreePageTypes ==
    ASSUME PopTypeOK, NEW p \in Pages, FreePage(p)
    PROVE  /\ pool' \subseteq Pages /\ panicked' \in BOOLEAN
           /\ mem' \in [Pages -> Ports \cup {Junk, Unknown}]
BY DEF PopTypeOK, FreePage

(* Fields of records have their types, and keep them. *)
LEMMA Fields ==
    ASSUME PopTypeOK
    PROVE  /\ \A s \in Sockets : /\ open_sockets[s].port \in Ports \cup {0}
                                 /\ open_sockets[s].rbuf \in Clients \cup {Nobody}
                                 /\ open_sockets[s].ret \in Clients \cup {Nobody}
                                 /\ open_sockets[s].protocol \in Protocols \cup {"none"}
           /\ \A i \in Slots : /\ pop_queue[i].frame \in Pages \cup {NoPage}
                               /\ pop_queue[i].socket \in Sockets \cup {NoSocket}
                               /\ pop_queue[i].stamp \in 0 .. MaxTime
                               /\ pop_queue[i].busy \in BOOLEAN
           /\ service.slot \in Slots /\ service.f \in Pages \cup {NoPage}
           /\ \A n \in Interfaces : receiver[n].page \in Pages \cup {NoPage}
           /\ \A c \in Clients : /\ client[c].s \in Sockets \cup {NoSocket}
                                 /\ client[c].page \in Pages \cup {NoPage}
                                 /\ client[c].port \in Ports \cup {0}
                                 /\ client[c].got \in Ports \cup {Junk}
BY DEF PopTypeOK, SocketType, SlotType, ServiceType, ReceiverType, ClientType

LEMMA ServicePc ==
    ASSUME NEW r \in ServiceType,
           NEW q \in {"scan", "discard", "copy", "clear", "wake", "empty", "sleep"}
    PROVE  [r EXCEPT !.pc = q] \in ServiceType
BY DEF ServiceType

LEMMA AcceptTypes ==
    ASSUME PopTypeOK, NEW p \in Pages, NEW i \in PushSlot, Accept(p, i)
    PROVE  /\ pool' \subseteq Pages /\ panicked' \in BOOLEAN
           /\ mem' \in [Pages -> Ports \cup {Junk, Unknown}]
           /\ pop_queue' \in [Slots -> SlotType]
           /\ service_sem' \in Nat /\ raced' \in BOOLEAN
<1>1. i \in Slots
  BY PushSlotFree
<1>2. pop_queue[i].frame \in Pages \cup {NoPage}
  BY <1>1, Fields
<1>3. /\ pool' \subseteq Pages /\ panicked' \in BOOLEAN
      /\ mem' \in [Pages -> Ports \cup {Junk, Unknown}]
  <2>1. CASE pop_queue[i].frame = NoPage
    BY <2>1 DEF Accept, MakeRoom, poolVars, PopTypeOK
  <2>2. CASE pop_queue[i].frame # NoPage
    BY <1>2, <2>2, FreePageTypes DEF Accept, MakeRoom, network_free_frame
  <2> QED BY <2>1, <2>2
<1>4. pop_queue' \in [Slots -> SlotType]
  BY <1>1, Sizes DEF Accept, PopTypeOK, EmptySlot, SlotType
<1> QED BY <1>3, <1>4 DEF Accept, PopTypeOK

(* Every step keeps the types. *)
LEMMA TypeStep ==
    ASSUME PopInv, ~Halted, PopNext
    PROVE  PopTypeOK'
<1>a. PopTypeOK /\ ~raced /\ FramesOK /\ ServiceOK
  BY DEF PopInv, Halted
<1>b. \A c \in Clients : c \in Sending => client[c].page \in Pages
  BY <1>a, Fields DEF Sending
<1>c. \A n \in Interfaces : n \in Receiving => receiver[n].page \in Pages
  BY <1>a, Fields DEF Receiving
<1>d. service.pc \notin {"scan", "sleep"} => service.f \in Pages
  BY <1>a, Fields DEF ServiceOK
<1>e. Outside \in ClientType
  BY Sizes DEF Outside, Junk, ClientType
<1> USE DEF tableVars, queueVars, poolVars, threadVars, historyVars
<1>1. ASSUME pop_service_thread_scan PROVE PopTypeOK'
  <2>1. \A last : Scanned(last) \in [Slots -> SlotType]
    <3>1. \A i \in Slots : SocketOf(i) \in Sockets \cup {NoSocket}
      BY <1>a, SocketFound
    <3>2. \A i \in Slots : /\ pop_queue[i] \in SlotType
                           /\ [pop_queue[i] EXCEPT !.socket = SocketOf(i)] \in SlotType
      BY <1>a, <3>1 DEF SlotType, PopTypeOK
    <3> QED BY <3>2 DEF Scanned
  <2> DEFINE ready == {i \in Queued : Unlistened(i) \/ Wanted(i)}
  <2>2. CASE ready = {}
    <3>1. pop_queue' = Scanned(QueueSize) /\ service' = [service EXCEPT !.pc = "sleep"]
      BY <1>1, <2>2 DEF pop_service_thread_scan
    <3>2. pop_queue' \in [Slots -> SlotType] /\ service' \in ServiceType
      BY <1>a, <2>1, <3>1, ServicePc DEF PopTypeOK
    <3> QED BY <1>a, <1>1, <3>2 DEF pop_service_thread_scan, PopTypeOK
  <2>3. CASE ready # {}
    <3>1. ready \in SUBSET Nat /\ ready \subseteq Slots
      BY Sizes DEF Queued
    <3>2. PICK i \in Slots : i = Min(ready)
      BY <2>3, <3>1, MinIsLeast
    <3>3. /\ pop_queue' = [Scanned(i) EXCEPT ![i].busy = @ \/ Wanted(i)]
          /\ service' = [pc |-> IF Wanted(i) THEN "copy" ELSE "discard",
                         slot |-> i, f |-> pop_queue[i].frame]
      BY <1>1, <2>3, <3>2 DEF pop_service_thread_scan
    <3>4. PICK q : q = Scanned(i)
      OBVIOUS
    <3>5. q \in [Slots -> SlotType]
      BY <2>1, <3>4
    <3>6. PICK w \in BOOLEAN : w = (q[i].busy \/ Wanted(i))
      OBVIOUS
    <3>7. pop_queue' = [q EXCEPT ![i].busy = w]
      BY <3>3, <3>4, <3>6
    <3>8. pop_queue' \in [Slots -> SlotType]
      BY <3>5, <3>7 DEF SlotType
    <3>9. service' \in ServiceType
      BY <1>a, <3>2, <3>3, Fields DEF ServiceType
    <3> QED BY <1>a, <1>1, <3>8, <3>9 DEF pop_service_thread_scan, PopTypeOK
  <2> QED BY <2>2, <2>3
<1>2. ASSUME pop_service_thread_discard PROVE PopTypeOK'
  <2>1. FreePage(service.f) /\ service.f \in Pages
    BY <1>d, <1>2 DEF pop_service_thread_discard, network_free_frame
  <2>2. service' \in ServiceType
    BY <1>a, <1>2, ServicePc DEF pop_service_thread_discard, PopTypeOK
  <2> QED BY <1>a, <1>2, <2>1, <2>2, FreePageTypes DEF pop_service_thread_discard, PopTypeOK
<1>3. ASSUME pop_service_thread_copy PROVE PopTypeOK'
  <2>1. service.slot \in LiveSlots /\ service.f = pop_queue[service.slot].frame
    BY <1>a, <1>3, Fields
    DEF pop_service_thread_copy, ServiceOK, LiveSlots, Queued, EmptySlots
  <2>2. mem[service.f] \in Ports
    BY <1>a, <2>1 DEF FramesOK
  <2>3. Target \in Sockets
    BY <1>a, <1>3 DEF pop_service_thread_copy, ServiceOK
  <2>4. service' \in ServiceType
    BY <1>a, <1>3, ServicePc DEF pop_service_thread_copy, PopTypeOK
  <2>5. client' \in [Clients -> ClientType]
    <3>1. \A c \in Clients : client[c] \in ClientType
      BY <1>a DEF PopTypeOK
    <3>2. \A c \in Clients : [client[c] EXCEPT !.got = mem[service.f]] \in ClientType
      BY <2>2, <3>1 DEF ClientType
    <3> QED BY <1>3, <3>1, <3>2 DEF pop_service_thread_copy
  <2>6. open_sockets' \in [Sockets -> SocketType]
    <3>1. [open_sockets[Target] EXCEPT !.rbuf = Nobody] \in SocketType
      BY <1>a, <2>3 DEF PopTypeOK, SocketType
    <3> QED BY <1>a, <1>3, <3>1 DEF pop_service_thread_copy, PopTypeOK
  <2>7. panicked' \in BOOLEAN
    BY <1>3 DEF pop_service_thread_copy
  <2> QED BY <1>a, <1>3, <2>4, <2>5, <2>6, <2>7 DEF pop_service_thread_copy, PopTypeOK
<1>4. ASSUME pop_service_thread_clear PROVE PopTypeOK'
  <2>1. FreePage(service.f) /\ service.f \in Pages
    BY <1>d, <1>4 DEF pop_service_thread_clear, network_free_frame
  <2>2. service' \in ServiceType
    BY <1>a, <1>4, ServicePc DEF pop_service_thread_clear, PopTypeOK
  <2>3. open_sockets' \in [Sockets -> SocketType]
    <3>1. Target \in Sockets
      BY <1>a, <1>4 DEF pop_service_thread_clear, ServiceOK
    <3>2. [open_sockets[Target] EXCEPT !.ret = Nobody] \in SocketType
      BY <1>a, <3>1 DEF PopTypeOK, SocketType
    <3> QED BY <1>a, <1>4, <3>2 DEF pop_service_thread_clear, PopTypeOK
  <2> QED BY <1>a, <1>4, <2>1, <2>2, <2>3, FreePageTypes
          DEF pop_service_thread_clear, PopTypeOK
<1>5. ASSUME pop_service_thread_wake PROVE PopTypeOK'
  <2>1. service' \in ServiceType
    BY <1>a, <1>5, ServicePc DEF pop_service_thread_wake, PopTypeOK
  <2>2. PICK t \in Sockets : t = Target
    BY <1>a, <1>5 DEF pop_service_thread_wake, ServiceOK
  <2>3. complete' = [complete EXCEPT ![t] = @ + 1]
    BY <1>5, <2>2 DEF pop_service_thread_wake
  <2>4. complete' \in [Sockets -> Nat]
    BY <1>a, <2>3 DEF PopTypeOK
  <2> QED BY <1>a, <1>5, <2>1, <2>4 DEF pop_service_thread_wake, PopTypeOK
<1>6. ASSUME pop_service_thread_empty PROVE PopTypeOK'
  <2>1. EmptySlot \in SlotType /\ service' \in ServiceType
    BY <1>6, Sizes DEF pop_service_thread_empty, EmptySlot, SlotType, ServiceType
  <2> QED BY <1>a, <1>6, <2>1 DEF pop_service_thread_empty, PopTypeOK
<1>7. ASSUME pop_service_thread_sleep PROVE PopTypeOK'
  <2>1. service' \in ServiceType
    BY <1>a, <1>7, ServicePc DEF pop_service_thread_sleep, PopTypeOK
  <2> QED BY <1>a, <1>7, <2>1 DEF pop_service_thread_sleep, PopTypeOK
<1>8. ASSUME NEW n \in Interfaces, network_receive_thread_page(n) PROVE PopTypeOK'
  <2>1. CASE pool = {}
    BY <1>a, <1>8, <2>1 DEF network_receive_thread_page, PopTypeOK
  <2>2. CASE pool # {}
    <3>1. [pc |-> "recv", page |-> FirstPage] \in ReceiverType
      BY <1>a, <2>2, FirstPageFree DEF ReceiverType
    <3> QED BY <1>a, <1>8, <2>2, <3>1 DEF network_receive_thread_page, PopTypeOK
  <2> QED BY <2>1, <2>2
<1>9. ASSUME NEW n \in Interfaces, network_receive_frame(n) PROVE PopTypeOK'
  <2>1. receiver[n].page \in Pages
    BY <1>a, <1>c, <1>9 DEF network_receive_frame, FramesOK
  <2>2. ASSUME NEW i \in PushSlot, Accept(receiver[n].page, i),
               receiver' = [receiver EXCEPT ![n] = [pc |-> "page", page |-> NoPage]]
        PROVE  PopTypeOK'
    <3>1. [pc |-> "page", page |-> NoPage] \in ReceiverType
      BY DEF ReceiverType
    <3> QED BY <1>a, <1>9, <2>1, <2>2, <3>1, AcceptTypes DEF network_receive_frame, PopTypeOK
  <2>3. ASSUME UNCHANGED <<poolVars, pop_queue, service_sem, panicked, raced>>,
               receiver' = [receiver EXCEPT ![n].pc = "recv"]
        PROVE  PopTypeOK'
    <3>1. receiver' \in [Interfaces -> ReceiverType]
      BY <1>a, <2>3 DEF PopTypeOK, ReceiverType
    <3> QED BY <1>a, <1>9, <2>3, <3>1 DEF network_receive_frame, PopTypeOK
  <2> QED BY <1>9, <2>2, <2>3 DEF network_receive_frame
<1>10. ASSUME NEW n \in Interfaces, NEW frame \in Ports \cup {Unknown}, gnd_recv(n, frame)
       PROVE  PopTypeOK'
  <2>1. receiver' \in [Interfaces -> ReceiverType]
    BY <1>a, <1>10 DEF gnd_recv, PopTypeOK, ReceiverType
  <2>2. mem' \in [Pages -> Ports \cup {Junk, Unknown}] /\ frames' \in 0 .. MaxFrames
    <3>1. mem' = [mem EXCEPT ![receiver[n].page] = frame] /\ frame \in Ports \cup {Junk, Unknown}
      BY <1>10 DEF gnd_recv
    <3>2. mem' \in [Pages -> Ports \cup {Junk, Unknown}]
      BY <1>a, <3>1 DEF PopTypeOK
    <3>3. frames' = frames + 1 /\ frames < MaxFrames /\ frames \in 0 .. MaxFrames
      BY <1>a, <1>10 DEF gnd_recv, PopTypeOK
    <3> QED BY <3>2, <3>3, Sizes
  <2> QED BY <1>a, <1>10, <2>1, <2>2 DEF gnd_recv, PopTypeOK
<1>11. ASSUME NEW c \in Clients, network_send_free(c) PROVE PopTypeOK'
  <2>1. FreePage(client[c].page) /\ client[c].page \in Pages
    BY <1>a, <1>b, <1>11 DEF network_send_free, FramesOK
  <2> QED BY <1>a, <1>e, <1>11, <2>1, FreePageTypes DEF network_send_free, PopTypeOK
<1>12. ASSUME NEW c \in Clients, pop_push_frame_loopback(c) PROVE PopTypeOK'
  <2>1. client[c].page \in Pages
    BY <1>a, <1>b, <1>12 DEF pop_push_frame_loopback, FramesOK
  <2>2. ASSUME NEW i \in PushSlot, Accept(client[c].page, i),
               client' = [client EXCEPT ![c] = Outside]
        PROVE  PopTypeOK'
    BY <1>a, <1>e, <1>12, <2>1, <2>2, AcceptTypes DEF pop_push_frame_loopback, PopTypeOK
  <2>3. ASSUME UNCHANGED <<poolVars, pop_queue, service_sem, panicked, raced>>,
               client' = [client EXCEPT ![c].pc = "free"]
        PROVE  PopTypeOK'
    <3>1. client' \in [Clients -> ClientType]
      BY <1>a, <2>3 DEF PopTypeOK, ClientType
    <3> QED BY <1>a, <1>12, <2>3, <3>1 DEF pop_push_frame_loopback, PopTypeOK
  <2> QED BY <1>12, <2>2, <2>3 DEF pop_push_frame_loopback
<1>13. ASSUME NEW c \in Clients, socket_recvfrom_return(c) PROVE PopTypeOK'
  <2>1. ASSUME client[c].s \in Sockets
        PROVE complete' \in [Sockets -> Nat]
    BY <1>a, <1>13, <2>1 DEF socket_recvfrom_return, PopTypeOK
  <2>2. ASSUME client[c].s \notin Sockets
        PROVE complete' \in [Sockets -> Nat]
    BY <1>a, <1>13, <2>2 DEF socket_recvfrom_return, PopTypeOK
  <2> QED BY <1>a, <1>e, <1>13, <2>1, <2>2 DEF socket_recvfrom_return, PopTypeOK
<1>14. ASSUME NEW c \in Clients, NEW protocol \in Protocols, NEW port \in Ports \cup {0},
              socket_open(c, protocol, port)
       PROVE  PopTypeOK'
  <2>1. PICK p \in PortFor(port) :
          LET s == Min(FreeSockets) IN
          /\ open_sockets' = [open_sockets EXCEPT ![s] =
                                [@ EXCEPT !.port = p, !.protocol = protocol, !.rbuf = Nobody]]
          /\ complete' = [complete EXCEPT ![s] = 0]
    BY <1>14 DEF socket_open
  <2>2. p \in Ports /\ FreeSockets # {}
    BY <1>a, <1>14, <2>1, FreePortFound DEF socket_open
  <2>3. PICK s \in Sockets : s = Min(FreeSockets)
    BY <2>2, FreeSocketFound
  <2>4. open_sockets' \in [Sockets -> SocketType]
    <3>1. [open_sockets[s] EXCEPT !.port = p, !.protocol = protocol, !.rbuf = Nobody]
             \in SocketType
      <4>1. open_sockets[s] \in SocketType
        BY <1>a DEF PopTypeOK
      <4> QED BY <2>2, <4>1 DEF SocketType
    <3> QED BY <1>a, <2>1, <2>3, <3>1 DEF PopTypeOK
  <2>5. complete' \in [Sockets -> Nat]
    BY <1>a, <2>1, <2>3 DEF PopTypeOK
  <2> QED BY <1>a, <1>14, <2>4, <2>5 DEF socket_open, PopTypeOK
<1>15. ASSUME NEW c \in Clients, NEW s \in Sockets, socket_close(c, s) PROVE PopTypeOK'
  <2>1. FreeSocket \in SocketType
    BY DEF FreeSocket, SocketType
  <2> QED BY <1>a, <1>15, <2>1 DEF socket_close, PopTypeOK
<1>16. ASSUME NEW c \in Clients, NEW s \in Sockets, NEW dport \in Ports \cup {Elsewhere},
              socket_sendto(c, s, dport)
       PROVE  PopTypeOK'
  <2>1. FirstPage \in Pages
    BY <1>a, <1>16, FirstPageFree DEF socket_sendto, network_send_page
  <2>2. client' \in [Clients -> ClientType]
    <3>1. \A q \in {"free", "push"} : [Outside EXCEPT !.page = FirstPage, !.pc = q] \in ClientType
      BY <1>e, <2>1 DEF ClientType
    <3>2. PICK q \in {"free", "push"} : q = IF dport = Elsewhere THEN "free" ELSE "push"
      OBVIOUS
    <3>3. client' = [client EXCEPT ![c] = [Outside EXCEPT !.page = FirstPage, !.pc = q]]
      BY <1>16, <3>2 DEF socket_sendto
    <3> QED BY <1>a, <3>1, <3>3 DEF PopTypeOK
  <2>3. mem' \in [Pages -> Ports \cup {Junk, Unknown}] /\ frames' \in 0 .. MaxFrames
    BY <1>a, <1>16, <2>1, Sizes DEF socket_sendto, network_send_page, PopTypeOK, Elsewhere, Junk
  <2> QED BY <1>a, <1>16, <2>1, <2>2, <2>3 DEF socket_sendto, network_send_page, PopTypeOK
<1>17. ASSUME NEW c \in Clients, NEW s \in Sockets, socket_recvfrom(c, s) PROVE PopTypeOK'
  <2>1. client' \in [Clients -> ClientType]
    <3>1. [Outside EXCEPT !.pc = "recv", !.s = s, !.port = open_sockets[s].port] \in ClientType
      BY <1>a, <1>e, Fields DEF ClientType
    <3> QED BY <1>a, <1>17, <3>1 DEF socket_recvfrom, PopTypeOK
  <2>2. open_sockets' \in [Sockets -> SocketType]
    <3>1. PICK o : o = [open_sockets EXCEPT ![s].rbuf = c]
      OBVIOUS
    <3>2. o \in [Sockets -> SocketType]
      BY <1>a, <3>1 DEF PopTypeOK, SocketType
    <3>3. open_sockets' = [o EXCEPT ![s].ret = c]
      BY <1>17, <3>1 DEF socket_recvfrom
    <3> QED BY <3>2, <3>3 DEF SocketType
  <2> QED BY <1>a, <1>17, <2>1, <2>2 DEF socket_recvfrom, PopTypeOK
<1>18. ASSUME Tick PROVE PopTypeOK'
  BY <1>a, <1>18, Sizes DEF Tick, PopTypeOK
<1> QED
  BY <1>1, <1>2, <1>3, <1>4, <1>5, <1>6, <1>7, <1>8, <1>9, <1>10, <1>11, <1>12, <1>13, <1>14,
     <1>15, <1>16, <1>17, <1>18
  DEF PopNext, pop_service_thread, network_receive_thread, ClientContinues, ClientCalls
-----------------------------------------------------------------------------
(* Receivers, one by one *)

(* A socket that nobody receives from. *)
Quiet(s) == open_sockets[s].rbuf = Nobody /\ complete[s] = 0 /\ ~Serving(s)

(* ReceiversOK and CallersCounted, thread by thread and socket by socket. *)
ReceiverOK(c) ==
    /\ client[c].s # NoSocket <=> client[c].pc = "recv"
    /\ client[c].pc = "recv" =>
          /\ InUse(client[c].s) /\ open_sockets[client[c].s].port = client[c].port
          /\ client[c].s \notin crowded => AwaitsPacket(c) \/ HasPacket(c)
    /\ client[c].pc # "recv" => client[c].got = 0

AloneIn(s) ==
    s \in crowded \/ \A c, d \in Clients : client[c].s = s /\ client[d].s = s => c = d

Counted(s) ==
    Cardinality(Callers(s)) = complete[s] + One(Serving(s)) + One(open_sockets[s].rbuf # Nobody)

CopyOK == service.pc = "copy" => open_sockets[Target].rbuf # Nobody

Orderly ==
    /\ \A c \in Clients : ReceiverOK(c)
    /\ \A s \in Sockets : AloneIn(s) /\ Counted(s)
    /\ CopyOK

LEMMA OrderlyBefore ==
    ASSUME PopTypeOK, ReceiversOK, CallersCounted
    PROVE  Orderly
<1>1. \A c \in Clients : ReceiverOK(c)
  BY DEF ReceiversOK, ReceiverOK
<1>2. ASSUME NEW s \in Sockets PROVE AloneIn(s) /\ Counted(s)
  <2>1. ASSUME NEW c \in Clients, NEW d \in Clients, client[c].s = s, client[d].s = s,
               s \notin crowded
        PROVE  c = d
    BY <2>1, Sizes DEF ReceiversOK
  <2>2. Counted(s)
    BY DEF CallersCounted, Counted
  <2> QED BY <2>1, <2>2 DEF AloneIn
<1> QED BY <1>1, <1>2 DEF Orderly, CopyOK, ReceiversOK

LEMMA OrderlyAfter ==
    ASSUME PopTypeOK', Orderly'
    PROVE  ReceiversOK' /\ CallersCounted'
<1>1. CallersCounted'
  BY DEF Orderly, CallersCounted, Counted
<1>2. \A c \in Clients : client'[c].s \in Sockets \cup {NoSocket}
  BY DEF PopTypeOK, ClientType
<1>3. ASSUME NEW c \in Clients, NEW d \in Clients, client'[c].s = client'[d].s,
             client'[c].pc = "recv", client'[c].s \notin crowded'
      PROVE  c = d
  <2>1. PICK s \in Sockets : s = client'[c].s
    BY <1>2, <1>3 DEF Orderly, ReceiverOK
  <2> QED BY <1>3, <2>1 DEF Orderly, AloneIn
<1> QED BY <1>1, <1>3 DEF Orderly, ReceiverOK, ReceiversOK, CopyOK

(* A socket without callers has no buffer and no signal. *)
LEMMA QuietSocket ==
    ASSUME PopTypeOK, NEW s \in Sockets, Counted(s), Callers(s) = {}
    PROVE  Quiet(s)
<1>1. Cardinality(Callers(s)) = 0
  BY FS_EmptySet
<1>2. complete[s] \in Nat
  BY DEF PopTypeOK
<1> QED BY <1>1, <1>2 DEF Counted, One, Quiet

LEMMA FiniteCallers ==
    ASSUME NEW s
    PROVE  IsFiniteSet(Callers(s)) /\ Cardinality(Callers(s)) \in Nat
<1>1. IsFiniteSet(Clients) /\ Callers(s) \subseteq Clients
  BY PopAssumption DEF Callers
<1> QED BY <1>1, FS_Subset, FS_CardinalityType

(* Who receives alone from a socket with a buffer waits for a packet. *)
LEMMA LoneReceiver ==
    ASSUME PopTypeOK, Orderly, NEW s \in Sockets, s \notin crowded,
           open_sockets[s].rbuf # Nobody
    PROVE  \E c \in Clients : client[c].s = s /\ AwaitsPacket(c)
<1>1. PICK c \in Clients : client[c].s = s
  <2>1. Callers(s) # {}
    BY QuietSocket DEF Orderly, Quiet
  <2> QED BY <2>1 DEF Callers
<1>2. AwaitsPacket(c) \/ HasPacket(c)
  BY <1>1, Sizes DEF Orderly, ReceiverOK
<1>3. ~HasPacket(c)
  BY <1>1 DEF HasPacket
<1> QED BY <1>1, <1>2, <1>3
-----------------------------------------------------------------------------
(* Pages *)

(* A step that leaves pool and owners alone. *)
LEMMA PagesSame ==
    ASSUME PagesOwnedOnce, UNCHANGED pool, panicked' => crowded' # {},
           LiveSlots' = LiveSlots, \A i \in LiveSlots : pop_queue'[i].frame = pop_queue[i].frame,
           Receiving' = Receiving, \A n \in Receiving : receiver'[n].page = receiver[n].page,
           Sending' = Sending, \A c \in Sending : client'[c].page = client[c].page
    PROVE  PagesOwnedOnce'
BY DEF PagesOwnedOnce

(* A page is taken out of the pool by a thread that sends. *)
LEMMA PagesSend ==
    ASSUME PagesOwnedOnce, NEW c, NEW p \in pool, pool' = pool \ {p},
           UNCHANGED panicked, ~panicked, p # SendBuffer,
           LiveSlots' = LiveSlots, \A i \in LiveSlots : pop_queue'[i].frame = pop_queue[i].frame,
           Receiving' = Receiving, \A n \in Receiving : receiver'[n].page = receiver[n].page,
           Sending = {}, Sending' = {c}, client'[c].page = p
    PROVE  PagesOwnedOnce'
BY DEF PagesOwnedOnce

(* A page is taken out of the pool by the thread of an interface. *)
LEMMA PagesReceive ==
    ASSUME PagesOwnedOnce, NEW n, NEW p \in pool, pool' = pool \ {p},
           UNCHANGED panicked, ~panicked, n \notin Receiving,
           LiveSlots' = LiveSlots, \A i \in LiveSlots : pop_queue'[i].frame = pop_queue[i].frame,
           Receiving' = Receiving \cup {n}, receiver'[n].page = p,
           \A m \in Receiving : receiver'[m].page = receiver[m].page,
           Sending' = Sending, \A c \in Sending : client'[c].page = client[c].page
    PROVE  PagesOwnedOnce'
BY DEF PagesOwnedOnce

(* The page of a thread that sends is freed. *)
LEMMA PagesSent ==
    ASSUME PopTypeOK, PagesOwnedOnce, NEW c \in Sending, FreePage(client[c].page),
           LiveSlots' = LiveSlots, \A i \in LiveSlots : pop_queue'[i].frame = pop_queue[i].frame,
           Receiving' = Receiving, \A n \in Receiving : receiver'[n].page = receiver[n].page,
           Sending' = {}
    PROVE  PagesOwnedOnce'
<1>1. client[c].page \notin pool /\ client[c].page # SendBuffer
  BY DEF PagesOwnedOnce
<1>2. ~panicked' /\ pool' = pool \cup {client[c].page}
  BY <1>1 DEF FreePage
<1> QED BY <1>1, <1>2 DEF PagesOwnedOnce

(* The page of a slot is freed. *)
LEMMA PagesServed ==
    ASSUME PagesOwnedOnce, NEW i \in LiveSlots, FreePage(pop_queue[i].frame),
           LiveSlots' = LiveSlots \ {i},
           \A j \in LiveSlots : pop_queue'[j].frame = pop_queue[j].frame,
           Receiving' = Receiving, \A n \in Receiving : receiver'[n].page = receiver[n].page,
           Sending' = Sending, \A c \in Sending : client'[c].page = client[c].page
    PROVE  PagesOwnedOnce'
<1>1. pop_queue[i].frame \notin pool /\ pop_queue[i].frame # SendBuffer
  BY DEF PagesOwnedOnce
<1>2. ~panicked' /\ pool' = pool \cup {pop_queue[i].frame}
  BY <1>1 DEF FreePage
<1> QED BY <1>1, <1>2 DEF PagesOwnedOnce

(* What becomes of the pool when a frame is put into a slot. *)
LEMMA RoomMade ==
    ASSUME PagesOwnedOnce, NEW i, MakeRoom(i), ~panicked,
           i \in LiveSlots \/ pop_queue[i].frame = NoPage
    PROVE  /\ ~panicked'
           /\ pool' = IF i \in LiveSlots /\ pop_queue[i].frame # NoPage
                      THEN pool \cup {pop_queue[i].frame} ELSE pool
<1>1. CASE pop_queue[i].frame = NoPage
  BY <1>1 DEF MakeRoom, poolVars
<1>2. CASE pop_queue[i].frame # NoPage
  <2>1. pop_queue[i].frame \notin pool
    BY <1>2 DEF PagesOwnedOnce
  <2> QED BY <1>2, <2>1 DEF MakeRoom, network_free_frame, FreePage
<1> QED BY <1>1, <1>2

(* A thread that sends gives its page to a slot. *)
LEMMA PagesLoopback ==
    ASSUME PopTypeOK, PagesOwnedOnce, ~panicked, NEW c \in Sending, NEW i \in Slots, MakeRoom(i),
           i \in LiveSlots \/ pop_queue[i].frame = NoPage,
           LiveSlots' = LiveSlots \cup {i}, pop_queue'[i].frame = client[c].page,
           \A j \in LiveSlots \ {i} : pop_queue'[j].frame = pop_queue[j].frame,
           Receiving' = Receiving, \A n \in Receiving : receiver'[n].page = receiver[n].page,
           Sending' = {}
    PROVE  PagesOwnedOnce'
<1>1. /\ ~panicked'
      /\ pool' = IF i \in LiveSlots /\ pop_queue[i].frame # NoPage
                 THEN pool \cup {pop_queue[i].frame} ELSE pool
  BY RoomMade
<1>2. \A d \in Sending : d = c
  BY DEF PagesOwnedOnce
<1>3. i \in LiveSlots => pop_queue[i].frame # NoPage
  BY DEF LiveSlots, Queued, EmptySlots
<1>4. CASE i \in LiveSlots
  BY <1>1, <1>2, <1>3, <1>4 DEF PagesOwnedOnce
<1>5. CASE i \notin LiveSlots
  BY <1>1, <1>2, <1>5 DEF PagesOwnedOnce
<1> QED BY <1>4, <1>5

(* So does the thread of an interface. *)
LEMMA PagesQueued ==
    ASSUME PopTypeOK, PagesOwnedOnce, ~panicked, NEW n \in Receiving, NEW i \in Slots, MakeRoom(i),
           i \in LiveSlots \/ pop_queue[i].frame = NoPage,
           LiveSlots' = LiveSlots \cup {i}, pop_queue'[i].frame = receiver[n].page,
           \A j \in LiveSlots \ {i} : pop_queue'[j].frame = pop_queue[j].frame,
           Receiving' = Receiving \ {n},
           \A m \in Receiving' : receiver'[m].page = receiver[m].page,
           Sending' = Sending, \A c \in Sending : client'[c].page = client[c].page
    PROVE  PagesOwnedOnce'
<1>1. /\ ~panicked'
      /\ pool' = IF i \in LiveSlots /\ pop_queue[i].frame # NoPage
                 THEN pool \cup {pop_queue[i].frame} ELSE pool
  BY RoomMade
<1>3. i \in LiveSlots => pop_queue[i].frame # NoPage
  BY DEF LiveSlots, Queued, EmptySlots
<1>4. CASE i \in LiveSlots
  BY <1>1, <1>3, <1>4 DEF PagesOwnedOnce
<1>5. CASE i \notin LiveSlots
  BY <1>1, <1>5 DEF PagesOwnedOnce
<1> QED BY <1>4, <1>5

(* While the thread of an interface waits for a page there is one, if there *)
(* are enough.                                                              *)
LEMMA PagesSuffice ==
    ASSUME PopTypeOK, PagesOwnedOnce, NEW n \in Interfaces, n \notin Receiving, pool = {}
    PROVE  ~EnoughPages
<1> DEFINE A == {pop_queue[i].frame : i \in LiveSlots}
           B == {receiver[m].page : m \in Receiving}
           C == {client[c].page : c \in Sending}
           fa == [i \in LiveSlots |-> pop_queue[i].frame]
           fb == [m \in Receiving |-> receiver[m].page]
<1>1. IsFiniteSet(A) /\ Cardinality(A) <= QueueSize
  <2>1. IsFiniteSet(Slots) /\ Cardinality(Slots) = QueueSize
    BY Sizes, FS_Interval DEF Slots
  <2>2. LiveSlots \in SUBSET Slots
    BY DEF LiveSlots, Queued
  <2>3. IsFiniteSet(LiveSlots) /\ Cardinality(LiveSlots) <= QueueSize
    BY <2>1, <2>2, FS_Subset
  <2>4. fa \in Surjection(LiveSlots, A)
    BY DEF Surjection
  <2>5. IsFiniteSet(A) /\ Cardinality(A) <= Cardinality(LiveSlots)
    BY <2>3, <2>4, FS_Surjection
  <2>6. Cardinality(A) \in Nat /\ Cardinality(LiveSlots) \in Nat
    BY <2>3, <2>5, FS_CardinalityType
  <2> QED BY <2>3, <2>5, <2>6, Sizes
<1>2. IsFiniteSet(B) /\ Cardinality(B) <= Cardinality(Interfaces) - 1
      /\ Cardinality(Interfaces) \in Nat
  <2>1. IsFiniteSet(Interfaces) /\ Cardinality(Interfaces) \in Nat
    BY PopAssumption, FS_CardinalityType
  <2>2. Receiving \in SUBSET Interfaces /\ Receiving # Interfaces
    BY DEF Receiving
  <2>3. IsFiniteSet(Receiving) /\ Cardinality(Receiving) <= Cardinality(Interfaces)
        /\ Cardinality(Receiving) # Cardinality(Interfaces)
    BY <2>1, <2>2, FS_Subset
  <2>4. fb \in Surjection(Receiving, B)
    BY DEF Surjection
  <2>5. IsFiniteSet(B) /\ Cardinality(B) <= Cardinality(Receiving)
    BY <2>3, <2>4, FS_Surjection
  <2>6. Cardinality(B) \in Nat /\ Cardinality(Receiving) \in Nat
    BY <2>3, <2>5, FS_CardinalityType
  <2> QED BY <2>1, <2>3, <2>5, <2>6
<1>3. IsFiniteSet(C) /\ Cardinality(C) <= 1
  <2>1. C = {} \/ \E x : C = {x}
    <3>1. \A c, d \in Sending : c = d
      BY DEF PagesOwnedOnce
    <3>2. CASE Sending = {}
      BY <3>2
    <3>3. ASSUME NEW c \in Sending PROVE C = {client[c].page}
      BY <3>1, <3>3
    <3> QED BY <3>2, <3>3
  <2> HIDE DEF C
  <2>2. CASE C = {}
    <3>1. IsFiniteSet(C) /\ Cardinality(C) = 0
      BY <2>2, FS_EmptySet
    <3> QED BY <3>1
  <2>3. ASSUME NEW x, C = {x} PROVE IsFiniteSet(C) /\ Cardinality(C) <= 1
    <3>1. IsFiniteSet(C) /\ Cardinality(C) = 1
      BY <2>3, FS_Singleton
    <3> QED BY <3>1
  <2> QED BY <2>1, <2>2, <2>3
<1>4. Pages \subseteq ((A \cup B) \cup C) \cup {SendBuffer}
  BY DEF PagesOwnedOnce
<1> HIDE DEF A, B, C
<1>5. IsFiniteSet(A \cup B) /\ Cardinality(A \cup B) <= Cardinality(A) + Cardinality(B)
  BY <1>1, <1>2, UnionBound
<1>6. IsFiniteSet((A \cup B) \cup C)
      /\ Cardinality((A \cup B) \cup C) <= Cardinality(A \cup B) + Cardinality(C)
  BY <1>3, <1>5, UnionBound
<1>7. IsFiniteSet({SendBuffer}) /\ Cardinality({SendBuffer}) = 1
  BY FS_Singleton
<1>8. PICK D : D = ((A \cup B) \cup C) \cup {SendBuffer}
  OBVIOUS
<1>9. IsFiniteSet(D) /\ Cardinality(D) <= Cardinality((A \cup B) \cup C) + 1
  BY <1>6, <1>7, <1>8, UnionBound
<1>10. Cardinality(Pages) <= Cardinality(D)
  BY <1>4, <1>8, <1>9, FS_Subset
<1>11. Cardinality(Pages) = NumPages
  <2>1. 1 \in Int /\ NumPages \in Int /\ ~(1 > NumPages) /\ NumPages - 1 + 1 = NumPages
    BY Sizes
  <2>2. Cardinality(1 .. NumPages) = IF 1 > NumPages THEN 0 ELSE NumPages - 1 + 1
    BY <2>1, FS_Interval
  <2> QED BY <2>1, <2>2 DEF Pages
<1>12. /\ Cardinality(A) \in Nat /\ Cardinality(B) \in Nat /\ Cardinality(C) \in Nat
       /\ Cardinality(A \cup B) \in Nat /\ Cardinality((A \cup B) \cup C) \in Nat
       /\ Cardinality(D) \in Nat
  BY <1>1, <1>2, <1>3, <1>5, <1>6, <1>9, FS_CardinalityType
<1> QED BY <1>1, <1>2, <1>3, <1>5, <1>6, <1>9, <1>10, <1>11, <1>12, Sizes DEF EnoughPages

(* Where a frame goes that is accepted, unless it races the service thread. *)
LEMMA AcceptedAt ==
    ASSUME PopInv, ~raced, NEW i \in PushSlot, NEW p, Accept(p, i), ~raced'
    PROVE  /\ i \in Slots
           /\ i \in LiveSlots \/ pop_queue[i].frame = NoPage
           /\ service.pc \notin {"scan", "sleep"} => service.slot # i
<1>1. i \in Slots /\ (pop_queue[i].frame = NoPage \/ ~pop_queue[i].busy)
  BY PushSlotFree
<1>2. ~(service.pc \in {"discard", "empty"} /\ service.slot = i)
  BY DEF Accept
<1>3. PopTypeOK /\ ServiceOK
  BY DEF PopInv
<1>4. service.pc \in {"scan", "discard", "copy", "clear", "wake", "empty", "sleep"}
  BY <1>3 DEF PopTypeOK, ServiceType
<1>5. service.pc \in {"copy", "clear", "wake"} => service.slot # i
  <2>1. service.pc \in {"copy", "clear", "wake"} =>
           pop_queue[service.slot].busy /\ pop_queue[service.slot].frame # NoPage
    BY <1>3 DEF ServiceOK
  <2> QED BY <1>1, <2>1
<1>6. service.pc \notin {"scan", "sleep"} => service.slot # i
  BY <1>2, <1>4, <1>5
<1>7. i \in LiveSlots \/ pop_queue[i].frame = NoPage
  BY <1>1, <1>6 DEF LiveSlots, Queued, EmptySlots
<1> QED BY <1>1, <1>6, <1>7

(* What Accept does to the queue. *)
LEMMA AcceptQueue ==
    ASSUME PopInv, ~raced, NEW i \in PushSlot, NEW p \in Pages, Accept(p, i), ~raced',
           UNCHANGED service
    PROVE  /\ LiveSlots' = LiveSlots \cup {i}
           /\ pop_queue'[i] = [EmptySlot EXCEPT !.frame = p, !.stamp = now]
           /\ pop_queue'[i].frame = p /\ pop_queue'[i].socket = NoSocket
           /\ ~pop_queue'[i].busy
           /\ \A j \in Slots \ {i} : pop_queue'[j] = pop_queue[j]
<1>1. /\ i \in Slots
      /\ service.pc \notin {"scan", "sleep"} => service.slot # i
  BY AcceptedAt
<1>2. PopTypeOK
  BY DEF PopInv
<1>3. pop_queue' = [pop_queue EXCEPT ![i] = [EmptySlot EXCEPT !.frame = p, !.stamp = now]]
  BY DEF Accept
<1>4. \A j \in Slots : pop_queue'[j] = IF j = i THEN [EmptySlot EXCEPT !.frame = p, !.stamp = now]
                                       ELSE pop_queue[j]
  BY <1>2, <1>3 DEF PopTypeOK
<1>5. pop_queue'[i].frame = p /\ pop_queue'[i].socket = NoSocket /\ ~pop_queue'[i].busy
  BY <1>1, <1>4 DEF EmptySlot
<1>6. LiveSlots' = LiveSlots \cup {i}
  BY <1>1, <1>4, <1>5, Sizes DEF LiveSlots, Queued, EmptySlots
<1> QED BY <1>1, <1>4, <1>5, <1>6

(* What Accept does to what pages hold. *)
LEMMA AcceptMem ==
    ASSUME PopInv, ~raced, NEW i \in PushSlot, NEW p \in Pages, Accept(p, i), ~raced',
           NEW q \in Pages, i \in LiveSlots => q # pop_queue[i].frame
    PROVE  mem'[q] = mem[q]
<1>1. i \in LiveSlots \/ pop_queue[i].frame = NoPage
  BY AcceptedAt
<1>2. mem \in [Pages -> Ports \cup {Junk, Unknown}]
  BY DEF PopInv, PopTypeOK
<1>3. CASE pop_queue[i].frame = NoPage
  BY <1>3 DEF Accept, MakeRoom, poolVars
<1>4. CASE pop_queue[i].frame # NoPage
  BY <1>1, <1>2, <1>4 DEF Accept, MakeRoom, network_free_frame, FreePage
<1> QED BY <1>3, <1>4

(* Pages stay owned once, and the service thread knows what it works on. *)
LEMMA PagesStep ==
    ASSUME PopInv, ~Halted, PopNext, ~raced'
    PROVE  PagesOwnedOnce' /\ FramesOK' /\ ServiceOK'
<1>a. PopTypeOK /\ ~raced /\ ~panicked /\ PagesOwnedOnce /\ FramesOK /\ ServiceOK
  BY DEF PopInv, Halted
<1>b. \A c \in Clients : c \in Sending => client[c].page \in Pages
  BY <1>a, Fields DEF Sending
<1>c. \A n \in Interfaces : n \in Receiving => receiver[n].page \in Pages
  BY <1>a, Fields DEF Receiving
<1>d. \A i \in LiveSlots : i \in Slots /\ pop_queue[i].frame \in Pages
  BY <1>a, Fields DEF LiveSlots, Queued, EmptySlots
<1>f. mem \in [Pages -> Ports \cup {Junk, Unknown}]
  BY <1>a DEF PopTypeOK
<1> USE DEF tableVars, queueVars, poolVars, threadVars, historyVars
<1>1. ASSUME pop_service_thread_scan PROVE PagesOwnedOnce' /\ FramesOK' /\ ServiceOK'
  <2> DEFINE ready == {i \in Queued : Unlistened(i) \/ Wanted(i)}
  <2>0. \A i \in Slots : SocketOf(i) \in Sockets \cup {NoSocket}
    BY <1>a, SocketFound
  <2>1. \A last : /\ Scanned(last) \in [Slots -> SlotType]
                  /\ \A i \in Slots : Scanned(last)[i].frame = pop_queue[i].frame
    <3>1. \A i \in Slots : /\ pop_queue[i] \in SlotType
                           /\ [pop_queue[i] EXCEPT !.socket = SocketOf(i)] \in SlotType
                           /\ [pop_queue[i] EXCEPT !.socket = SocketOf(i)].frame = pop_queue[i].frame
      BY <1>a, <2>0 DEF SlotType, PopTypeOK
    <3> QED BY <3>1 DEF Scanned
  <2>2. /\ service'.pc \in {"sleep", "copy", "discard"}
        /\ \A i \in Slots : pop_queue'[i].frame = pop_queue[i].frame
        /\ ServiceOK'
    <3>1. CASE ready = {}
      <4>1. pop_queue' = Scanned(QueueSize) /\ service' = [service EXCEPT !.pc = "sleep"]
        BY <1>1, <3>1 DEF pop_service_thread_scan
      <4>2. service'.pc = "sleep"
        BY <1>a, <4>1 DEF PopTypeOK, ServiceType
      <4> QED BY <2>1, <4>1, <4>2 DEF ServiceOK
    <3>2. CASE ready # {}
      <4>1. ready \in SUBSET Nat /\ ready \subseteq Queued /\ Queued \subseteq Slots
        BY Sizes DEF Queued
      <4>2. PICK i \in Queued : i = Min(ready) /\ i \in ready
        BY <3>2, <4>1, MinIsLeast
      <4>3. /\ pop_queue' = [Scanned(i) EXCEPT ![i].busy = @ \/ Wanted(i)]
            /\ service' = [pc |-> IF Wanted(i) THEN "copy" ELSE "discard",
                           slot |-> i, f |-> pop_queue[i].frame]
        BY <1>1, <3>2, <4>2 DEF pop_service_thread_scan
      <4>4. PICK q : q = Scanned(i)
        OBVIOUS
      <4>5. q \in [Slots -> SlotType] /\ \A j \in Slots : q[j].frame = pop_queue[j].frame
        BY <2>1, <4>4
      <4>6. PICK w \in BOOLEAN : w = (q[i].busy \/ Wanted(i))
        OBVIOUS
      <4>7. pop_queue' = [q EXCEPT ![i].busy = w]
        BY <4>3, <4>4, <4>6
      <4>8. i \in Slots /\ pop_queue[i].frame # NoPage
        BY <4>1, <4>2 DEF Queued, EmptySlots
      <4>9. /\ pop_queue'[i].busy = w /\ pop_queue'[i].socket = q[i].socket
            /\ \A j \in Slots : pop_queue'[j].frame = pop_queue[j].frame
        BY <4>5, <4>7, <4>8 DEF SlotType
      <4>10. q[i].socket = SocketOf(i)
        <5>1. q[i] = [pop_queue[i] EXCEPT !.socket = SocketOf(i)]
          <6>1. i <= i
            BY <4>8, Sizes
          <6> QED BY <4>2, <4>4, <4>8, <6>1 DEF Scanned
        <5>2. pop_queue[i] \in SlotType
          BY <1>a, <4>8 DEF PopTypeOK
        <5> QED BY <5>1, <5>2 DEF SlotType
      <4>11. CASE Wanted(i)
        <5>1. SocketOf(i) \in Sockets
          BY <2>0, <4>8, <4>11 DEF Wanted, Unlistened
        <5>2. service'.pc = "copy" /\ service'.slot = i /\ service'.f = pop_queue[i].frame
          BY <4>3, <4>11
        <5>3. w = TRUE
          BY <4>6, <4>11
        <5>4. ServiceOK'
          BY <4>8, <4>9, <4>10, <5>1, <5>2, <5>3 DEF ServiceOK, Target
        <5> QED BY <4>9, <5>2, <5>4
      <4>12. CASE ~Wanted(i)
        <5>2. service'.pc = "discard" /\ service'.slot = i /\ service'.f = pop_queue[i].frame
          BY <4>3, <4>12
        <5>4. ServiceOK'
          BY <4>8, <4>9, <5>2 DEF ServiceOK, Target
        <5> QED BY <4>9, <5>2, <5>4
      <4> QED BY <4>11, <4>12
    <3> QED BY <3>1, <3>2
  <2>3. LiveSlots' = LiveSlots /\ UNCHANGED <<pool, mem, panicked, receiver, client>>
    BY <1>1, <2>2 DEF pop_service_thread_scan, LiveSlots, Queued, EmptySlots
  <2>4. /\ Receiving' = Receiving /\ Sending' = Sending
        /\ \A i \in LiveSlots : pop_queue'[i].frame = pop_queue[i].frame
    BY <1>d, <2>2, <2>3 DEF Receiving, Sending
  <2>5. PagesOwnedOnce'
    BY <1>a, <2>3, <2>4, PagesSame
  <2>6. FramesOK'
    BY <1>a, <2>3, <2>4 DEF FramesOK
  <2> QED BY <2>2, <2>5, <2>6
<1>2. ASSUME pop_service_thread_discard \/ pop_service_thread_clear
      PROVE  PagesOwnedOnce' /\ FramesOK' /\ ServiceOK'
  <2>1. /\ service.pc \in {"discard", "clear"} /\ FreePage(service.f)
        /\ service' = [service EXCEPT !.pc = IF service.pc = "clear" THEN "wake" ELSE "empty"]
        /\ UNCHANGED <<pop_queue, receiver, client>>
    BY <1>2 DEF pop_service_thread_discard, pop_service_thread_clear, network_free_frame
  <2>2. PICK q \in {"wake", "empty"} : /\ q = IF service.pc = "clear" THEN "wake" ELSE "empty"
                                      /\ service' = [service EXCEPT !.pc = q]
    BY <2>1
  <2>3. service'.pc = q /\ service'.slot = service.slot /\ service'.f = service.f
    BY <1>a, <2>2 DEF PopTypeOK, ServiceType
  <2>4. PICK i \in LiveSlots : i = service.slot /\ service.f = pop_queue[i].frame
    BY <1>a, <2>1, Fields DEF ServiceOK, LiveSlots, Queued, EmptySlots
  <2>5. LiveSlots' = LiveSlots \ {i}
    BY <2>1, <2>2, <2>3, <2>4 DEF LiveSlots, Queued, EmptySlots
  <2>6. /\ Receiving' = Receiving /\ Sending' = Sending
        /\ FreePage(pop_queue[i].frame)
    BY <2>1, <2>4 DEF Receiving, Sending
  <2>7. PagesOwnedOnce'
    BY <1>a, <2>1, <2>5, <2>6, PagesServed
  <2>8. ServiceOK'
    <3>1. Target' = Target
      BY <2>1, <2>3 DEF Target
    <3> QED BY <1>a, <2>1, <2>2, <2>3, <3>1 DEF ServiceOK
  <2>9. FramesOK'
    <3>1. \A p \in Pages : p # pop_queue[i].frame => mem'[p] = mem[p]
      BY <1>f, <2>6 DEF FreePage
    <3>2. \A j \in LiveSlots' : mem'[pop_queue'[j].frame] \in Ports
      BY <1>a, <1>d, <2>1, <2>5, <3>1 DEF FramesOK, PagesOwnedOnce
    <3>3. \A n \in Receiving : mem'[receiver[n].page] = mem[receiver[n].page]
      BY <1>a, <1>c, <3>1 DEF PagesOwnedOnce, Receiving
    <3>4. \A c \in Sending : mem'[client[c].page] = mem[client[c].page]
      BY <1>a, <1>b, <3>1 DEF PagesOwnedOnce, Sending
    <3> QED BY <1>a, <2>1, <2>6, <3>2, <3>3, <3>4 DEF FramesOK
  <2> QED BY <2>7, <2>8, <2>9
<1>3. ASSUME pop_service_thread_copy \/ pop_service_thread_wake \/ pop_service_thread_sleep
      PROVE  PagesOwnedOnce' /\ FramesOK' /\ ServiceOK'
  <2>1. /\ UNCHANGED <<pool, mem, pop_queue, receiver>>
        /\ service' = [service EXCEPT !.pc = CASE service.pc = "copy" -> "clear"
                                              [] service.pc = "wake" -> "empty"
                                              [] service.pc = "sleep" -> "scan"]
        /\ service.pc \in {"copy", "wake", "sleep"}
    BY <1>3 DEF pop_service_thread_copy, pop_service_thread_wake, pop_service_thread_sleep
  <2>2. PICK q : /\ q = CASE service.pc = "copy" -> "clear" [] service.pc = "wake" -> "empty"
                            [] service.pc = "sleep" -> "scan"
                 /\ service' = [service EXCEPT !.pc = q]
    BY <2>1
  <2>3. service'.pc = q /\ service'.slot = service.slot /\ service'.f = service.f
    BY <1>a, <2>2 DEF PopTypeOK, ServiceType
  <2>4. \/ service.pc = "copy" /\ q = "clear"
        \/ service.pc = "wake" /\ q = "empty"
        \/ service.pc = "sleep" /\ q = "scan"
    BY <2>1, <2>2
  <2>5. LiveSlots' = LiveSlots
    BY <2>1, <2>3, <2>4 DEF LiveSlots, Queued, EmptySlots
  <2>6. \A c \in Clients : client'[c].page = client[c].page /\ client'[c].pc = client[c].pc
    <3>1. CASE client' = client
      BY <3>1
    <3>2. CASE pop_service_thread_copy
      BY <1>a, <3>2 DEF pop_service_thread_copy, PopTypeOK, ClientType
    <3> QED BY <1>3, <3>1, <3>2 DEF pop_service_thread_wake, pop_service_thread_sleep
  <2>7. Receiving' = Receiving /\ Sending' = Sending
    BY <2>1, <2>6 DEF Receiving, Sending
  <2>8. panicked' => crowded' # {}
    <3>1. ASSUME pop_service_thread_copy, crowded = {} PROVE ~panicked'
      <4>0. Orderly
        BY <1>a, OrderlyBefore DEF PopInv
      <4>1. PICK t \in Sockets : t = Target /\ open_sockets[t].rbuf # Nobody
        BY <1>a, <3>1, <4>0 DEF pop_service_thread_copy, ServiceOK, Orderly, CopyOK
      <4>2. open_sockets[t].ret # Nobody
        BY <1>a, <3>1, <4>0, <4>1, LoneReceiver, Sizes DEF AwaitsPacket
      <4> QED BY <3>1, <4>1, <4>2 DEF pop_service_thread_copy
    <3>2. UNCHANGED crowded
      BY <1>3 DEF pop_service_thread_copy, pop_service_thread_wake, pop_service_thread_sleep
    <3> QED BY <1>3, <1>a, <3>1, <3>2 DEF pop_service_thread_wake, pop_service_thread_sleep
  <2>9. PagesOwnedOnce'
    <3>2. \A c \in Sending : c \in Clients
      BY DEF Sending
    <3> QED BY <1>a, <2>1, <2>5, <2>6, <2>7, <2>8, <3>2, PagesSame
  <2>10. FramesOK'
    BY <1>a, <2>1, <2>5, <2>6, <2>7 DEF FramesOK
  <2>11. ServiceOK'
    <3>1. Target' = Target
      BY <2>1, <2>3 DEF Target
    <3> QED BY <1>a, <2>1, <2>3, <2>4, <3>1 DEF ServiceOK
  <2> QED BY <2>9, <2>10, <2>11
<1>6. ASSUME pop_service_thread_empty PROVE PagesOwnedOnce' /\ FramesOK' /\ ServiceOK'
  <2>1. /\ service.pc = "empty" /\ service'.pc = "scan"
        /\ pop_queue' = [pop_queue EXCEPT ![service.slot] = EmptySlot]
        /\ UNCHANGED <<pool, mem, receiver, client, panicked>>
    BY <1>6 DEF pop_service_thread_empty
  <2>2. \A i \in Slots : pop_queue'[i] = IF i = service.slot THEN EmptySlot ELSE pop_queue[i]
    BY <1>a, <2>1 DEF PopTypeOK
  <2>3. \A i \in Slots : i # service.slot => pop_queue'[i] = pop_queue[i]
    BY <2>2
  <2>4. service.slot \in Slots /\ pop_queue'[service.slot].frame = NoPage
    BY <1>a, <2>2, Fields DEF EmptySlot
  <2>5. LiveSlots' = LiveSlots
    BY <2>1, <2>3, <2>4 DEF LiveSlots, Queued, EmptySlots
  <2>6. \A i \in LiveSlots : pop_queue'[i].frame = pop_queue[i].frame
    BY <1>d, <2>1, <2>3 DEF LiveSlots
  <2>7. Receiving' = Receiving /\ Sending' = Sending
    BY <2>1 DEF Receiving, Sending
  <2>8. PagesOwnedOnce'
    BY <1>a, <2>1, <2>5, <2>6, <2>7, PagesSame
  <2>9. FramesOK'
    BY <1>a, <2>1, <2>5, <2>6, <2>7 DEF FramesOK
  <2> QED BY <2>1, <2>8, <2>9 DEF ServiceOK
<1>8. ASSUME NEW n \in Interfaces, network_receive_thread_page(n)
      PROVE  PagesOwnedOnce' /\ FramesOK' /\ ServiceOK'
  <2>1. n \notin Receiving /\ receiver[n].pc = "page"
    BY <1>a, <1>8 DEF network_receive_thread_page, FramesOK
  <2>2. UNCHANGED <<mem, pop_queue, service, client>>
    BY <1>8 DEF network_receive_thread_page
  <2>3. LiveSlots' = LiveSlots /\ Sending' = Sending
    BY <2>2 DEF LiveSlots, Queued, EmptySlots, Sending
  <2>4. ServiceOK'
    BY <1>a, <2>2 DEF ServiceOK, Target
  <2>5. CASE pool = {}
    <3>1. UNCHANGED <<pool, receiver>>
      BY <1>8, <2>5 DEF network_receive_thread_page
    <3>2. ~EnoughPages
      BY <1>a, <2>1, <2>5, PagesSuffice
    <3>3. Receiving' = Receiving
      BY <3>1 DEF Receiving
    <3>4. PagesOwnedOnce'
      BY <1>a, <2>2, <2>3, <2>5, <3>1, <3>2, <3>3 DEF PagesOwnedOnce, EnoughPages
    <3>5. FramesOK'
      BY <1>a, <2>2, <2>3, <3>1, <3>3 DEF FramesOK
    <3> QED BY <2>4, <3>4, <3>5
  <2>6. CASE pool # {}
    <3>1. PICK p \in Pages : p = FirstPage /\ p \in pool
      BY <1>a, <2>6, FirstPageFree
    <3>2. /\ pool' = pool \ {p} /\ UNCHANGED panicked
          /\ receiver' = [receiver EXCEPT ![n] = [pc |-> "recv", page |-> p]]
      BY <1>8, <2>6, <3>1 DEF network_receive_thread_page
    <3>3. /\ receiver'[n].page = p /\ receiver'[n].pc = "recv"
          /\ \A m \in Interfaces \ {n} : receiver'[m] = receiver[m]
      BY <1>a, <3>2 DEF PopTypeOK
    <3>4. Receiving' = Receiving \cup {n}
      BY <3>3, Sizes DEF Receiving
    <3>5. \A m \in Receiving : receiver'[m] = receiver[m]
      BY <2>1, <3>3 DEF Receiving
    <3>6. PagesOwnedOnce'
      BY <1>a, <2>1, <2>2, <2>3, <3>1, <3>2, <3>3, <3>4, <3>5, PagesReceive
    <3>7. FramesOK'
      <4>1. \A i \in LiveSlots' : mem'[pop_queue'[i].frame] \in Ports
        BY <1>a, <2>2, <2>3 DEF FramesOK
      <4>2. ASSUME NEW m \in Interfaces
            PROVE  /\ m \in Receiving' <=> receiver'[m].pc # "page"
                   /\ receiver'[m].pc = "push" => mem'[receiver'[m].page] \in Ports \cup {Unknown}
        BY <1>a, <2>1, <2>2, <3>3, <3>4 DEF FramesOK
      <4> QED BY <1>a, <2>2, <2>3, <4>1, <4>2 DEF FramesOK
    <3> QED BY <2>4, <3>6, <3>7
  <2> QED BY <2>5, <2>6
<1>9. ASSUME NEW n \in Interfaces, network_receive_frame(n)
      PROVE  PagesOwnedOnce' /\ FramesOK' /\ ServiceOK'
  <2>1. /\ receiver[n].pc = "push" /\ n \in Receiving /\ receiver[n].page \in Pages
        /\ mem[receiver[n].page] \in Ports \cup {Unknown}
        /\ UNCHANGED <<service, client>>
    BY <1>a, <1>c, <1>9 DEF network_receive_frame, FramesOK
  <2>2. Sending' = Sending
    BY <2>1 DEF Sending
  <2>3. ASSUME NEW i \in PushSlot, Accept(receiver[n].page, i), HasHandler(mem[receiver[n].page]),
               receiver' = [receiver EXCEPT ![n] = [pc |-> "page", page |-> NoPage]]
        PROVE  PagesOwnedOnce' /\ FramesOK' /\ ServiceOK'
    <3>1. /\ i \in Slots /\ (i \in LiveSlots \/ pop_queue[i].frame = NoPage)
          /\ service.pc \notin {"scan", "sleep"} => service.slot # i
      BY <1>a, <2>3, AcceptedAt
    <3>2. /\ LiveSlots' = LiveSlots \cup {i} /\ pop_queue'[i].frame = receiver[n].page
          /\ \A j \in Slots \ {i} : pop_queue'[j] = pop_queue[j]
      BY <1>a, <2>1, <2>3, AcceptQueue
    <3>3. \A q \in Pages : (i \in LiveSlots => q # pop_queue[i].frame) => mem'[q] = mem[q]
      BY <1>a, <2>1, <2>3, AcceptMem
    <3>4. /\ receiver'[n].page = NoPage /\ receiver'[n].pc = "page"
          /\ \A m \in Interfaces \ {n} : receiver'[m] = receiver[m]
      BY <1>a, <2>3 DEF PopTypeOK
    <3>5. Receiving' = Receiving \ {n}
      BY <3>4, Sizes DEF Receiving
    <3>6. /\ \A j \in LiveSlots \ {i} : pop_queue'[j].frame = pop_queue[j].frame
          /\ \A m \in Receiving' : receiver'[m].page = receiver[m].page
          /\ \A c \in Sending : client'[c].page = client[c].page
          /\ MakeRoom(i)
      BY <1>d, <2>1, <2>3, <3>2, <3>4, <3>5 DEF Receiving, Accept
    <3>7. PagesOwnedOnce'
      BY <1>a, <2>1, <2>2, <3>1, <3>2, <3>5, <3>6, PagesQueued
    <3>8. FramesOK'
      <4>1. mem'[receiver[n].page] = mem[receiver[n].page] /\ mem[receiver[n].page] \in Ports
        BY <1>a, <2>1, <2>3, <3>3 DEF PagesOwnedOnce, HasHandler
      <4>2. \A j \in LiveSlots' : mem'[pop_queue'[j].frame] \in Ports
        <5>1. ASSUME NEW j \in LiveSlots, j # i PROVE mem'[pop_queue'[j].frame] \in Ports
          <6>1. mem'[pop_queue[j].frame] = mem[pop_queue[j].frame]
            BY <1>a, <1>d, <3>3, <5>1 DEF PagesOwnedOnce
          <6> QED BY <1>a, <3>6, <5>1, <6>1 DEF FramesOK
        <5> QED BY <3>2, <4>1, <5>1
      <4>3. ASSUME NEW m \in Interfaces
            PROVE  /\ m \in Receiving' <=> receiver'[m].pc # "page"
                   /\ receiver'[m].pc = "push" => mem'[receiver'[m].page] \in Ports \cup {Unknown}
        <5>1. CASE m = n
          BY <3>4, <3>5, <5>1
        <5>2. CASE m # n
          <6>1. m \in Receiving => mem'[receiver[m].page] = mem[receiver[m].page]
            BY <1>a, <1>c, <3>3 DEF PagesOwnedOnce
          <6> QED BY <1>a, <3>4, <3>5, <5>2, <6>1 DEF FramesOK
        <5> QED BY <5>1, <5>2
      <4>4. \A c \in Sending : mem'[client[c].page] = mem[client[c].page]
        BY <1>a, <1>b, <3>3 DEF PagesOwnedOnce, Sending
      <4> QED BY <1>a, <2>1, <2>2, <4>2, <4>3, <4>4 DEF FramesOK
    <3>9. ServiceOK'
      BY <1>a, <2>1, <3>1, <3>2, Fields DEF ServiceOK, Target
    <3> QED BY <3>7, <3>8, <3>9
  <2>4. ASSUME receiver' = [receiver EXCEPT ![n].pc = "recv"],
               UNCHANGED <<poolVars, pop_queue, service_sem, panicked, raced>>
        PROVE  PagesOwnedOnce' /\ FramesOK' /\ ServiceOK'
    <3>1. LiveSlots' = LiveSlots /\ UNCHANGED <<pool, mem, pop_queue, panicked>>
      BY <2>1, <2>4 DEF LiveSlots, Queued, EmptySlots
    <3>2. /\ receiver'[n].page = receiver[n].page /\ receiver'[n].pc = "recv"
          /\ \A m \in Interfaces \ {n} : receiver'[m] = receiver[m]
      BY <1>a, <2>4 DEF PopTypeOK, ReceiverType
    <3>3. Receiving' = Receiving
      BY <3>2 DEF Receiving
    <3>4. \A m \in Receiving : receiver'[m].page = receiver[m].page
      BY <3>2 DEF Receiving
    <3>5. PagesOwnedOnce'
      BY <1>a, <2>1, <2>2, <3>1, <3>3, <3>4, PagesSame
    <3>6. FramesOK'
      BY <1>a, <2>1, <2>2, <3>1, <3>2, <3>3 DEF FramesOK
    <3>7. ServiceOK'
      BY <1>a, <2>1, <3>1 DEF ServiceOK, Target
    <3> QED BY <3>5, <3>6, <3>7
  <2> QED BY <1>9, <2>3, <2>4 DEF network_receive_frame
<1>10. ASSUME NEW n \in Interfaces, NEW frame \in Ports \cup {Unknown}, gnd_recv(n, frame)
       PROVE  PagesOwnedOnce' /\ FramesOK' /\ ServiceOK'
  <2>1. /\ UNCHANGED <<pool, pop_queue, service, client, panicked>>
        /\ receiver[n].pc = "recv" /\ n \in Receiving /\ receiver[n].page \in Pages
        /\ mem' = [mem EXCEPT ![receiver[n].page] = frame]
        /\ receiver' = [receiver EXCEPT ![n].pc = "push"]
    BY <1>a, <1>c, <1>10 DEF gnd_recv, FramesOK
  <2>2. /\ receiver'[n].page = receiver[n].page /\ receiver'[n].pc = "push"
        /\ \A m \in Interfaces \ {n} : receiver'[m] = receiver[m]
    BY <1>a, <2>1 DEF PopTypeOK, ReceiverType
  <2>3. /\ mem'[receiver[n].page] = frame
        /\ \A p \in Pages : p # receiver[n].page => mem'[p] = mem[p]
    BY <1>f, <2>1
  <2>4. /\ LiveSlots' = LiveSlots /\ Sending' = Sending /\ Receiving' = Receiving
        /\ \A m \in Receiving : receiver'[m].page = receiver[m].page
    BY <2>1, <2>2 DEF LiveSlots, Queued, EmptySlots, Sending, Receiving
  <2>5. PagesOwnedOnce'
    BY <1>a, <2>1, <2>4, PagesSame
  <2>6. FramesOK'
    <3>1. \A i \in LiveSlots : mem'[pop_queue[i].frame] = mem[pop_queue[i].frame]
      BY <1>a, <1>d, <2>1, <2>3 DEF PagesOwnedOnce
    <3>2. \A c \in Sending : mem'[client[c].page] = mem[client[c].page]
      BY <1>a, <1>b, <2>1, <2>3 DEF PagesOwnedOnce, Sending
    <3>3. \A m \in Receiving : m # n => mem'[receiver[m].page] = mem[receiver[m].page]
      BY <1>a, <1>c, <2>1, <2>3 DEF PagesOwnedOnce, Receiving
    <3>4. ASSUME NEW m \in Interfaces
          PROVE  /\ m \in Receiving' <=> receiver'[m].pc # "page"
                 /\ receiver'[m].pc = "push" => mem'[receiver'[m].page] \in Ports \cup {Unknown}
      BY <1>a, <2>1, <2>2, <2>3, <2>4, <3>3 DEF FramesOK
    <3> QED BY <1>a, <2>1, <2>4, <3>1, <3>2, <3>4 DEF FramesOK
  <2> QED BY <1>a, <2>1, <2>5, <2>6 DEF ServiceOK, Target
<1>11. ASSUME NEW c \in Clients, network_send_free(c)
       PROVE  PagesOwnedOnce' /\ FramesOK' /\ ServiceOK'
  <2>1. /\ UNCHANGED <<pop_queue, service, receiver>> /\ FreePage(client[c].page)
        /\ c \in Sending /\ client[c].page \in Pages
        /\ client' = [client EXCEPT ![c] = Outside]
    BY <1>a, <1>b, <1>11 DEF network_send_free, FramesOK
  <2>2. /\ client'[c].page = NoPage /\ client'[c].pc = "out"
        /\ \A d \in Clients \ {c} : client'[d] = client[d]
    BY <1>a, <2>1 DEF PopTypeOK, Outside
  <2>3. \A d \in Clients \ {c} : d \notin Sending
    BY <1>a, <2>1 DEF PagesOwnedOnce
  <2>4. LiveSlots' = LiveSlots /\ Receiving' = Receiving /\ Sending' = {}
    BY <2>1, <2>2, <2>3 DEF LiveSlots, Queued, EmptySlots, Receiving, Sending
  <2>5. PagesOwnedOnce'
    BY <1>a, <2>1, <2>4, PagesSent
  <2>6. FramesOK'
    <3>0. \A p \in Pages : p # client[c].page => mem'[p] = mem[p]
      BY <1>f, <2>1 DEF FreePage
    <3>1. \A i \in LiveSlots : mem'[pop_queue[i].frame] = mem[pop_queue[i].frame]
      BY <1>a, <1>d, <2>1, <3>0 DEF PagesOwnedOnce
    <3>2. \A m \in Receiving : mem'[receiver[m].page] = mem[receiver[m].page]
      BY <1>a, <1>c, <2>1, <3>0 DEF PagesOwnedOnce, Receiving
    <3>3. \A d \in Clients : /\ d \in Sending' <=> client'[d].pc \in {"push", "free"}
                            /\ client'[d].pc # "push"
      BY <1>a, <2>2, <2>3, <2>4 DEF FramesOK
    <3> QED BY <1>a, <2>1, <2>4, <3>1, <3>2, <3>3 DEF FramesOK
  <2> QED BY <1>a, <2>1, <2>5, <2>6 DEF ServiceOK, Target
<1>12. ASSUME NEW c \in Clients, pop_push_frame_loopback(c)
       PROVE  PagesOwnedOnce' /\ FramesOK' /\ ServiceOK'
  <2>1. /\ client[c].pc = "push" /\ c \in Sending /\ client[c].page \in Pages
        /\ mem[client[c].page] \in Ports
        /\ UNCHANGED <<service, receiver>>
    BY <1>a, <1>b, <1>12 DEF pop_push_frame_loopback, FramesOK
  <2>2. Receiving' = Receiving /\ \A d \in Clients \ {c} : d \notin Sending
    BY <1>a, <2>1 DEF Receiving, PagesOwnedOnce
  <2>3. ASSUME NEW i \in PushSlot, Accept(client[c].page, i),
               client' = [client EXCEPT ![c] = Outside]
        PROVE  PagesOwnedOnce' /\ FramesOK' /\ ServiceOK'
    <3>1. /\ i \in Slots /\ (i \in LiveSlots \/ pop_queue[i].frame = NoPage)
          /\ service.pc \notin {"scan", "sleep"} => service.slot # i
      BY <1>a, <2>3, AcceptedAt
    <3>2. /\ LiveSlots' = LiveSlots \cup {i} /\ pop_queue'[i].frame = client[c].page
          /\ \A j \in Slots \ {i} : pop_queue'[j] = pop_queue[j]
      BY <1>a, <2>1, <2>3, AcceptQueue
    <3>3. \A q \in Pages : (i \in LiveSlots => q # pop_queue[i].frame) => mem'[q] = mem[q]
      BY <1>a, <2>1, <2>3, AcceptMem
    <3>4. /\ client'[c].page = NoPage /\ client'[c].pc = "out"
          /\ \A d \in Clients \ {c} : client'[d] = client[d]
      BY <1>a, <2>3 DEF PopTypeOK, Outside
    <3>5. Sending' = {}
      BY <2>2, <3>4 DEF Sending
    <3>6. /\ \A j \in LiveSlots \ {i} : pop_queue'[j].frame = pop_queue[j].frame
          /\ \A m \in Receiving : receiver'[m].page = receiver[m].page
          /\ MakeRoom(i)
      BY <1>d, <2>1, <2>3, <3>2 DEF Accept
    <3>7. PagesOwnedOnce'
      BY <1>a, <2>1, <2>2, <3>1, <3>2, <3>5, <3>6, PagesLoopback
    <3>8. FramesOK'
      <4>1. mem'[client[c].page] = mem[client[c].page]
        BY <1>a, <2>1, <3>3 DEF PagesOwnedOnce
      <4>2. \A j \in LiveSlots' : mem'[pop_queue'[j].frame] \in Ports
        <5>1. ASSUME NEW j \in LiveSlots, j # i PROVE mem'[pop_queue'[j].frame] \in Ports
          <6>1. mem'[pop_queue[j].frame] = mem[pop_queue[j].frame]
            BY <1>a, <1>d, <3>3, <5>1 DEF PagesOwnedOnce
          <6> QED BY <1>a, <3>6, <5>1, <6>1 DEF FramesOK
        <5> QED BY <2>1, <3>2, <4>1, <5>1
      <4>3. \A m \in Receiving : mem'[receiver[m].page] = mem[receiver[m].page]
        BY <1>a, <1>c, <3>3 DEF PagesOwnedOnce, Receiving
      <4>4. \A d \in Clients : /\ d \in Sending' <=> client'[d].pc \in {"push", "free"}
                              /\ client'[d].pc # "push"
        BY <1>a, <2>2, <3>4, <3>5 DEF FramesOK
      <4> QED BY <1>a, <2>1, <2>2, <4>2, <4>3, <4>4 DEF FramesOK
    <3>9. ServiceOK'
      BY <1>a, <2>1, <3>1, <3>2, Fields DEF ServiceOK, Target
    <3> QED BY <3>7, <3>8, <3>9
  <2>4. ASSUME client' = [client EXCEPT ![c].pc = "free"],
               UNCHANGED <<poolVars, pop_queue, service_sem, panicked, raced>>
        PROVE  PagesOwnedOnce' /\ FramesOK' /\ ServiceOK'
    <3>1. LiveSlots' = LiveSlots /\ UNCHANGED <<pool, mem, pop_queue, panicked>>
      BY <2>1, <2>4 DEF LiveSlots, Queued, EmptySlots
    <3>2. /\ client'[c].page = client[c].page /\ client'[c].pc = "free"
          /\ \A d \in Clients \ {c} : client'[d] = client[d]
      BY <1>a, <2>4 DEF PopTypeOK, ClientType
    <3>3. Sending' = Sending
      BY <3>2 DEF Sending
    <3>4. \A d \in Sending : client'[d].page = client[d].page
      BY <3>2 DEF Sending
    <3>5. PagesOwnedOnce'
      BY <1>a, <2>1, <2>2, <3>1, <3>3, <3>4, PagesSame
    <3>6. FramesOK'
      BY <1>a, <2>1, <2>2, <3>1, <3>2, <3>3 DEF FramesOK
    <3>7. ServiceOK'
      BY <1>a, <2>1, <3>1 DEF ServiceOK, Target
    <3> QED BY <3>5, <3>6, <3>7
  <2> QED BY <1>12, <2>3, <2>4 DEF pop_push_frame_loopback
<1>13. ASSUME NEW c \in Clients,
              socket_recvfrom_return(c) \/ \E s \in Sockets : socket_recvfrom(c, s)
       PROVE  PagesOwnedOnce' /\ FramesOK' /\ ServiceOK'
  <2>1. UNCHANGED <<pool, mem, pop_queue, service, receiver, panicked>>
    BY <1>13 DEF socket_recvfrom_return, socket_recvfrom
  <2>2. client[c].pc \in {"recv", "out"}
    BY <1>13 DEF socket_recvfrom_return, socket_recvfrom
  <2>3. client[c].page = NoPage
    BY <1>a, <2>2 DEF FramesOK, Sending
  <2>4. /\ client'[c].page = NoPage /\ client'[c].pc \in {"recv", "out"}
        /\ \A d \in Clients \ {c} : client'[d] = client[d]
    <3>1. CASE socket_recvfrom_return(c)
      BY <1>a, <3>1 DEF socket_recvfrom_return, PopTypeOK, Outside
    <3>2. ASSUME NEW s \in Sockets, socket_recvfrom(c, s)
          PROVE  /\ client'[c].page = NoPage /\ client'[c].pc \in {"recv", "out"}
                 /\ \A d \in Clients \ {c} : client'[d] = client[d]
      BY <1>a, <3>2 DEF socket_recvfrom, PopTypeOK, Outside
    <3> QED BY <1>13, <3>1, <3>2
  <2>5. LiveSlots' = LiveSlots /\ Receiving' = Receiving /\ Sending' = Sending
    BY <2>1, <2>3, <2>4 DEF LiveSlots, Queued, EmptySlots, Receiving, Sending
  <2>6. \A d \in Sending : client'[d].page = client[d].page
    BY <2>3, <2>4 DEF Sending
  <2>7. PagesOwnedOnce'
    BY <1>a, <2>1, <2>5, <2>6, PagesSame
  <2>8. FramesOK'
    BY <1>a, <2>1, <2>2, <2>4, <2>5 DEF FramesOK
  <2> QED BY <1>a, <2>1, <2>7, <2>8 DEF ServiceOK, Target
<1>14. ASSUME UNCHANGED <<pool, mem, pop_queue, service, receiver, client, panicked>>
       PROVE  PagesOwnedOnce' /\ FramesOK' /\ ServiceOK'
  <2>1. LiveSlots' = LiveSlots /\ Receiving' = Receiving /\ Sending' = Sending
    BY <1>14 DEF LiveSlots, Queued, EmptySlots, Receiving, Sending
  <2>2. PagesOwnedOnce'
    BY <1>a, <1>14, <2>1, PagesSame
  <2> QED BY <1>a, <1>14, <2>1, <2>2 DEF FramesOK, ServiceOK, Target
<1>16. ASSUME NEW c \in Clients, NEW s \in Sockets, NEW dport \in Ports \cup {Elsewhere},
              socket_sendto(c, s, dport)
       PROVE  PagesOwnedOnce' /\ FramesOK' /\ ServiceOK'
  <2>1. PICK p \in Pages : p = FirstPage /\ p \in pool
    BY <1>a, <1>16, FirstPageFree DEF socket_sendto, network_send_page
  <2>2. PICK q \in {"free", "push"} : q = IF dport = Elsewhere THEN "free" ELSE "push"
    OBVIOUS
  <2>3. /\ Sending = {} /\ client' = [client EXCEPT ![c] = [Outside EXCEPT !.page = p, !.pc = q]]
        /\ pool' = pool \ {p} /\ mem' = [mem EXCEPT ![p] = dport]
        /\ UNCHANGED <<pop_queue, service, receiver, panicked>>
    BY <1>16, <2>1, <2>2 DEF socket_sendto, network_send_page
  <2>4. /\ client'[c].page = p /\ client'[c].pc = q
        /\ \A d \in Clients \ {c} : client'[d] = client[d]
    BY <1>a, <2>3 DEF PopTypeOK, Outside
  <2>5. LiveSlots' = LiveSlots /\ Receiving' = Receiving /\ Sending' = {c}
    BY <2>3, <2>4, Sizes DEF LiveSlots, Queued, EmptySlots, Receiving, Sending
  <2>6. PagesOwnedOnce'
    <3>1. p # SendBuffer
      BY <1>a, <2>1 DEF PagesOwnedOnce
    <3> QED BY <1>a, <2>1, <2>3, <2>4, <2>5, <3>1, PagesSend
  <2>7. FramesOK'
    <3>0. /\ mem'[p] = dport /\ \A r \in Pages : r # p => mem'[r] = mem[r]
      BY <1>f, <2>3
    <3>1. \A i \in LiveSlots : mem'[pop_queue[i].frame] = mem[pop_queue[i].frame]
      BY <1>a, <1>d, <2>1, <3>0 DEF PagesOwnedOnce
    <3>2. \A m \in Receiving : mem'[receiver[m].page] = mem[receiver[m].page]
      BY <1>a, <1>c, <2>1, <3>0 DEF PagesOwnedOnce, Receiving
    <3>3. ASSUME NEW d \in Clients
          PROVE  /\ d \in Sending' <=> client'[d].pc \in {"push", "free"}
                 /\ client'[d].pc = "push" => mem'[client'[d].page] \in Ports
      <4>1. CASE d = c
        BY <2>2, <2>4, <2>5, <3>0, <4>1
      <4>2. CASE d # c
        BY <1>a, <2>3, <2>4, <2>5, <4>2 DEF FramesOK
      <4> QED BY <4>1, <4>2
    <3> QED BY <1>a, <2>3, <2>5, <3>1, <3>2, <3>3 DEF FramesOK
  <2> QED BY <1>a, <2>3, <2>6, <2>7 DEF ServiceOK, Target
<1>17. ASSUME \/ Tick
              \/ \E c \in Clients, protocol \in Protocols, port \in Ports \cup {0} :
                    socket_open(c, protocol, port)
              \/ \E c \in Clients, s \in Sockets : socket_close(c, s)
       PROVE  UNCHANGED <<pool, mem, pop_queue, service, receiver, client, panicked>>
  BY <1>17 DEF Tick, socket_open, socket_close
<1> QED
  BY <1>1, <1>2, <1>3, <1>6, <1>8, <1>9, <1>10, <1>11, <1>12, <1>13, <1>14, <1>16, <1>17
  DEF PopNext, pop_service_thread, network_receive_thread, ClientContinues, ClientCalls
-----------------------------------------------------------------------------
(* Receivers and signals *)

(* What the scan of the service thread finds and remembers. *)
LEMMA ScanResult ==
    ASSUME PopTypeOK, pop_service_thread_scan
    PROVE  /\ service'.pc \in {"sleep", "copy", "discard"}
           /\ \A i \in Slots :
                 /\ pop_queue'[i].frame = pop_queue[i].frame
                 /\ \/ pop_queue'[i].socket = pop_queue[i].socket
                    \/ i \in Queued /\ pop_queue'[i].socket = SocketOf(i)
           /\ service'.pc = "copy" => Target' \in Sockets /\ open_sockets[Target'].rbuf # Nobody
           /\ service'.pc = "sleep" =>
                 \A i \in Queued : /\ pop_queue'[i].socket = SocketOf(i)
                                   /\ ~Unlistened(i) /\ ~Wanted(i)
<1> DEFINE ready == {i \in Queued : Unlistened(i) \/ Wanted(i)}
<1>0. \A i \in Slots : SocketOf(i) \in Sockets \cup {NoSocket}
  BY SocketFound
<1>1. ASSUME NEW last, NEW i \in Slots
      PROVE  /\ Scanned(last)[i] \in SlotType
             /\ Scanned(last)[i].frame = pop_queue[i].frame
             /\ \/ Scanned(last)[i].socket = pop_queue[i].socket
                \/ i \in Queued /\ Scanned(last)[i].socket = SocketOf(i)
             /\ i \in Queued /\ i <= last => Scanned(last)[i].socket = SocketOf(i)
  <2>1. pop_queue[i] \in SlotType
    BY DEF PopTypeOK
  <2>2. Scanned(last)[i] = IF i \in Queued /\ i <= last
                           THEN [pop_queue[i] EXCEPT !.socket = SocketOf(i)] ELSE pop_queue[i]
    BY DEF Scanned
  <2>3. CASE i \in Queued /\ i <= last
    <3>1. Scanned(last)[i] = [pop_queue[i] EXCEPT !.socket = SocketOf(i)]
      BY <2>2, <2>3
    <3>2. PICK t \in Sockets \cup {NoSocket} : t = SocketOf(i)
      BY <1>0
    <3>3. /\ Scanned(last)[i] \in SlotType /\ Scanned(last)[i].frame = pop_queue[i].frame
          /\ Scanned(last)[i].socket = t
      BY <2>1, <3>1, <3>2 DEF SlotType
    <3> QED BY <2>3, <3>2, <3>3
  <2>4. CASE ~(i \in Queued /\ i <= last)
    BY <2>1, <2>2, <2>4
  <2> QED BY <2>3, <2>4
<1>2. CASE ready = {}
  <2>1. pop_queue' = Scanned(QueueSize) /\ service' = [service EXCEPT !.pc = "sleep"]
    BY <1>2 DEF pop_service_thread_scan
  <2>2. service'.pc = "sleep"
    BY <2>1 DEF PopTypeOK, ServiceType
  <2>3. \A i \in Queued : i \in Slots /\ i <= QueueSize
    BY Sizes DEF Queued, Slots
  <2>4. \A i \in Queued : ~Unlistened(i) /\ ~Wanted(i)
    BY <1>2
  <2> QED BY <1>1, <2>1, <2>2, <2>3, <2>4
<1>3. CASE ready # {}
  <2>1. ready \in SUBSET Nat /\ ready \subseteq Queued /\ Queued \subseteq Slots
    BY Sizes DEF Queued
  <2>2. PICK i \in Queued : i = Min(ready)
    BY <1>3, <2>1, MinIsLeast
  <2>3. /\ pop_queue' = [Scanned(i) EXCEPT ![i].busy = @ \/ Wanted(i)]
        /\ service' = [pc |-> IF Wanted(i) THEN "copy" ELSE "discard",
                       slot |-> i, f |-> pop_queue[i].frame]
    BY <1>3, <2>2 DEF pop_service_thread_scan
  <2>4. PICK q : q = Scanned(i)
    OBVIOUS
  <2>5. q \in [Slots -> SlotType]
    <3>1. q = [j \in Slots |-> q[j]]
      BY <2>4 DEF Scanned
    <3> QED BY <1>1, <2>4, <3>1
  <2>6. PICK w \in BOOLEAN : w = (q[i].busy \/ Wanted(i))
    OBVIOUS
  <2>7. pop_queue' = [q EXCEPT ![i].busy = w] /\ i \in Slots /\ i <= i
    BY <2>1, <2>2, <2>3, <2>4, <2>6, Sizes
  <2>8. \A j \in Slots : pop_queue'[j].frame = q[j].frame /\ pop_queue'[j].socket = q[j].socket
    BY <2>5, <2>7 DEF SlotType
  <2>9. \A j \in Slots : /\ pop_queue'[j].frame = pop_queue[j].frame
                         /\ \/ pop_queue'[j].socket = pop_queue[j].socket
                            \/ j \in Queued /\ pop_queue'[j].socket = SocketOf(j)
    BY <1>1, <2>4, <2>8
  <2>10. pop_queue'[i].socket = SocketOf(i)
    BY <1>1, <2>2, <2>4, <2>7, <2>8
  <2>11. CASE Wanted(i)
    <3>1. service'.pc = "copy" /\ Target' = SocketOf(i)
      BY <2>3, <2>10, <2>11 DEF Target
    <3>2. SocketOf(i) \in Sockets /\ open_sockets[SocketOf(i)].rbuf # Nobody
      BY <1>0, <2>7, <2>11 DEF Wanted, Unlistened
    <3> QED BY <2>9, <3>1, <3>2
  <2>12. CASE ~Wanted(i)
    <3>1. service'.pc = "discard"
      BY <2>3, <2>12
    <3> QED BY <2>9, <3>1
  <2> QED BY <2>11, <2>12
<1> QED BY <1>2, <1>3

(* What a step leaves as it is at one socket. *)
SameAt(s) ==
    /\ open_sockets'[s] = open_sockets[s] /\ complete'[s] = complete[s]
    /\ Serving(s)' <=> Serving(s)
    /\ s \in crowded' <=> s \in crowded

LEMMA ReceiverKept ==
    ASSUME NEW c \in Clients, ReceiverOK(c), client'[c] = client[c],
           client[c].s # NoSocket => SameAt(client[c].s)
    PROVE  ReceiverOK(c)'
<1>1. CASE client[c].pc # "recv"
  BY <1>1 DEF ReceiverOK
<1>2. CASE client[c].pc = "recv"
  <2>1. PICK s : s = client[c].s /\ SameAt(s)
    BY <1>2 DEF ReceiverOK
  <2>2. InUse(s) /\ open_sockets[s].port = client[c].port
    BY <1>2, <2>1 DEF ReceiverOK
  <2>3. AwaitsPacket(c) => AwaitsPacket(c)'
    BY <2>1 DEF AwaitsPacket, SameAt, Serving
  <2>4. HasPacket(c) => HasPacket(c)'
    BY <2>1 DEF HasPacket, SameAt, Serving
  <2>5. InUse(s)' /\ open_sockets'[s].port = client'[c].port
    BY <2>1, <2>2 DEF InUse, SameAt
  <2>6. s \notin crowded' => AwaitsPacket(c)' \/ HasPacket(c)'
    BY <1>2, <2>1, <2>3, <2>4 DEF ReceiverOK, SameAt
  <2> QED BY <1>2, <2>1, <2>5, <2>6 DEF ReceiverOK, InUse
<1> QED BY <1>1, <1>2

LEMMA SocketKept ==
    ASSUME NEW s \in Sockets, SameAt(s), AloneIn(s), Counted(s),
           \A c \in Clients : client'[c].s = s <=> client[c].s = s
    PROVE  AloneIn(s)' /\ Counted(s)'
<1>1. Callers(s)' = Callers(s)
  BY DEF Callers
<1>2. AloneIn(s)'
  BY DEF AloneIn, SameAt
<1>3. Cardinality(Callers(s))' = Cardinality(Callers(s))
  BY <1>1
<1> QED BY <1>2, <1>3 DEF Counted, SameAt, One, Serving

(* A step that changes neither sockets nor what receivers know. *)
LEMMA ReceiversSame ==
    ASSUME PopTypeOK, Orderly, UNCHANGED <<open_sockets, complete, crowded>>,
           \A c \in Clients :
              \/ client'[c] = client[c]
              \/ /\ client[c].pc # "recv" /\ client'[c].pc # "recv"
                 /\ client'[c].s = NoSocket /\ client'[c].got = 0,
           \A s \in Sockets : Serving(s)' <=> Serving(s),
           CopyOK'
    PROVE  Orderly'
<1>1. \A s \in Sockets : SameAt(s)
  BY DEF SameAt
<1>2. ASSUME NEW c \in Clients PROVE ReceiverOK(c)'
  <2>1. ReceiverOK(c)
    BY DEF Orderly
  <2>2. CASE client'[c] = client[c]
    BY <1>1, <2>1, <2>2, ReceiverKept, Fields
  <2>3. CASE client'[c] # client[c]
    BY <2>3 DEF ReceiverOK
  <2> QED BY <2>2, <2>3
<1>3. ASSUME NEW s \in Sockets PROVE AloneIn(s)' /\ Counted(s)'
  <2>1. \A c \in Clients : client'[c].s = s <=> client[c].s = s
    BY Sizes DEF Orderly, ReceiverOK
  <2> QED BY <1>1, <2>1, SocketKept DEF Orderly
<1> QED BY <1>2, <1>3 DEF Orderly

(* Every step keeps receivers and sockets in order. *)
LEMMA ReceiversStep ==
    ASSUME PopInv, ~Halted, PopNext, ~raced'
    PROVE  ReceiversOK' /\ CallersCounted'
<1>a. PopTypeOK /\ ~raced /\ ~panicked /\ PagesOwnedOnce /\ FramesOK /\ ServiceOK
  BY DEF PopInv, Halted
<1>b. Orderly
  BY <1>a, OrderlyBefore DEF PopInv
<1>c. /\ \A c \in Clients : ReceiverOK(c)
      /\ \A s \in Sockets : AloneIn(s) /\ Counted(s)
      /\ CopyOK
  BY <1>b DEF Orderly
<1>d. \A c \in Clients : /\ client[c].pc = "recv" => client[c].s \in Sockets
                         /\ client[c].pc # "recv" => client[c].s = NoSocket
                         /\ client[c].s \in Sockets \cup {NoSocket}
  BY <1>a, <1>c, Fields DEF ReceiverOK
<1> USE DEF tableVars, queueVars, poolVars, threadVars, historyVars
<1>1. ASSUME pop_service_thread_scan PROVE Orderly'
  <2>1. /\ service.pc = "scan" /\ service'.pc \in {"sleep", "copy", "discard"}
        /\ service'.pc = "copy" => open_sockets[Target'].rbuf # Nobody
        /\ UNCHANGED <<open_sockets, complete, client, crowded>>
    BY <1>a, <1>1, ScanResult DEF pop_service_thread_scan
  <2>2. (\A s \in Sockets : Serving(s)' <=> Serving(s)) /\ CopyOK'
    BY <2>1 DEF Serving, CopyOK
  <2> QED BY <1>a, <1>b, <2>1, <2>2, ReceiversSame
<1>2. ASSUME pop_service_thread_discard \/ pop_service_thread_empty \/ pop_service_thread_sleep
      PROVE  Orderly'
  <2>1. /\ service.pc \in {"discard", "empty", "sleep"} /\ service'.pc \in {"empty", "scan"}
        /\ UNCHANGED <<open_sockets, complete, client, crowded>>
    BY <1>a, <1>2 DEF pop_service_thread_discard, pop_service_thread_empty,
                      pop_service_thread_sleep, PopTypeOK, ServiceType
  <2>2. (\A s \in Sockets : Serving(s)' <=> Serving(s)) /\ CopyOK'
    BY <2>1 DEF Serving, CopyOK
  <2> QED BY <1>a, <1>b, <2>1, <2>2, ReceiversSame
<1>3. ASSUME pop_service_thread_copy PROVE Orderly'
  <2>1. PICK t \in Sockets : t = Target /\ open_sockets[t].rbuf # Nobody
    BY <1>a, <1>c, <1>3 DEF pop_service_thread_copy, ServiceOK, CopyOK
  <2>2. mem[service.f] \in Ports
    <3>1. service.slot \in LiveSlots /\ service.f = pop_queue[service.slot].frame
      BY <1>a, <1>3, Fields
      DEF pop_service_thread_copy, ServiceOK, LiveSlots, Queued, EmptySlots
    <3> QED BY <1>a, <3>1 DEF FramesOK
  <2>3. /\ service.pc = "copy" /\ service'.pc = "clear" /\ Target' = t
        /\ UNCHANGED <<complete, crowded>>
    BY <1>a, <1>3, <2>1 DEF pop_service_thread_copy, PopTypeOK, ServiceType, Target
  <2>4. \A s \in Sockets : ~Serving(s) /\ (Serving(s)' <=> s = t)
    BY <2>3 DEF Serving
  <2>5. \A d \in Clients :
           /\ client'[d].s = client[d].s /\ client'[d].pc = client[d].pc
           /\ client'[d].port = client[d].port
           /\ d = open_sockets[t].rbuf /\ client[d].s = t => client'[d].got = mem[service.f]
           /\ ~(d = open_sockets[t].rbuf /\ client[d].s = t) => client'[d] = client[d]
    BY <1>a, <1>3, <2>1 DEF pop_service_thread_copy, PopTypeOK, ClientType
  <2>6. /\ open_sockets'[t].rbuf = Nobody /\ open_sockets'[t].protocol = open_sockets[t].protocol
        /\ open_sockets'[t].port = open_sockets[t].port
        /\ \A s \in Sockets \ {t} : open_sockets'[s] = open_sockets[s]
    BY <1>a, <1>3, <2>1 DEF pop_service_thread_copy, PopTypeOK, SocketType
  <2>7. \A s \in Sockets \ {t} : SameAt(s)
    BY <2>3, <2>4, <2>6 DEF SameAt
  <2>8. ASSUME NEW d \in Clients PROVE ReceiverOK(d)'
    <3>1. CASE client[d].s # t
      BY <1>c, <1>d, <2>5, <2>7, <3>1, ReceiverKept
    <3>2. CASE client[d].s = t
      <4>1. client[d].pc = "recv" /\ client'[d].pc = "recv" /\ client'[d].s = t
        BY <1>d, <2>5, <3>2, Sizes
      <4>2. InUse(t) /\ open_sockets[t].port = client[d].port
        BY <1>c, <3>2, <4>1 DEF ReceiverOK
      <4>3. InUse(t)' /\ open_sockets'[t].port = client'[d].port
        BY <2>5, <2>6, <4>2 DEF InUse
      <4>4. ASSUME t \notin crowded PROVE HasPacket(d)'
        <5>1. AwaitsPacket(d)
          BY <1>c, <2>1, <3>2, <4>1, <4>4 DEF ReceiverOK, HasPacket
        <5>2. open_sockets[t].rbuf = d /\ complete[t] = 0
          BY <3>2, <5>1 DEF AwaitsPacket
        <5>3. client'[d].got # 0 /\ complete'[t] = 0
          BY <2>2, <2>3, <2>5, <3>2, <5>2, Sizes
        <5>4. Serving(t)'
          BY <2>4
        <5> QED BY <2>6, <4>1, <5>3, <5>4 DEF HasPacket, Serving
      <4> QED BY <2>3, <4>1, <4>3, <4>4, Sizes DEF ReceiverOK, InUse
    <3> QED BY <3>1, <3>2
  <2>9. ASSUME NEW s \in Sockets PROVE AloneIn(s)' /\ Counted(s)'
    <3>1. CASE s # t
      BY <1>c, <2>5, <2>7, <3>1, SocketKept
    <3>2. CASE s = t
      <4>1. Callers(t)' = Callers(t)
        BY <2>5 DEF Callers
      <4>2. Cardinality(Callers(t))' = Cardinality(Callers(t)) /\ complete[t] \in Nat
        BY <1>a, <4>1 DEF PopTypeOK
      <4>3. Cardinality(Callers(t)) = complete[t] + 1
        BY <1>c, <2>1, <2>4, <4>2 DEF Counted, One
      <4>4. Serving(t)'
        BY <2>4
      <4>5. Counted(t)'
        BY <2>3, <2>6, <4>2, <4>3, <4>4 DEF Counted, One
      <4>6. AloneIn(t)'
        BY <1>c, <2>3, <2>5 DEF AloneIn
      <4> QED BY <3>2, <4>5, <4>6
    <3> QED BY <3>1, <3>2
  <2> QED BY <2>3, <2>8, <2>9 DEF Orderly, CopyOK
<1>4. ASSUME pop_service_thread_clear PROVE Orderly'
  <2>1. PICK t \in Sockets : t = Target
    BY <1>a, <1>4 DEF pop_service_thread_clear, ServiceOK
  <2>2. /\ service.pc = "clear" /\ service'.pc = "wake" /\ Target' = t
        /\ UNCHANGED <<complete, client, crowded>>
    BY <1>a, <1>4, <2>1 DEF pop_service_thread_clear, PopTypeOK, ServiceType, Target
  <2>3. /\ open_sockets'[t].rbuf = open_sockets[t].rbuf
        /\ open_sockets'[t].protocol = open_sockets[t].protocol
        /\ open_sockets'[t].port = open_sockets[t].port
        /\ \A s \in Sockets \ {t} : open_sockets'[s] = open_sockets[s]
    BY <1>a, <1>4, <2>1 DEF pop_service_thread_clear, PopTypeOK, SocketType
  <2>4. \A s \in Sockets : (Serving(s) <=> s = t) /\ (Serving(s)' <=> s = t)
    BY <2>1, <2>2 DEF Serving
  <2>5. \A s \in Sockets \ {t} : SameAt(s)
    BY <2>2, <2>3, <2>4 DEF SameAt
  <2>6. ASSUME NEW d \in Clients PROVE ReceiverOK(d)'
    <3>1. CASE client[d].s # t
      BY <1>c, <1>d, <2>2, <2>5, <3>1, ReceiverKept
    <3>2. CASE client[d].s = t
      <4>1. client[d].pc = "recv" /\ client' = client
        BY <1>d, <2>2, <3>2, Sizes
      <4>2. InUse(t) /\ open_sockets[t].port = client[d].port
        BY <1>c, <3>2, <4>1 DEF ReceiverOK
      <4>3. InUse(t)' /\ open_sockets'[t].port = client[d].port
        BY <2>3, <4>2 DEF InUse
      <4>4. ASSUME t \notin crowded PROVE HasPacket(d)'
        <5>1. Serving(t) /\ Serving(t)'
          BY <2>4
        <5>2. HasPacket(d)
          BY <1>c, <3>2, <4>1, <4>4, <5>1 DEF ReceiverOK, AwaitsPacket
        <5> QED BY <2>2, <2>3, <3>2, <5>1, <5>2 DEF HasPacket, Serving
      <4> QED BY <2>2, <3>2, <4>1, <4>3, <4>4, Sizes DEF ReceiverOK, InUse
    <3> QED BY <3>1, <3>2
  <2>7. ASSUME NEW s \in Sockets PROVE AloneIn(s)' /\ Counted(s)'
    <3>1. CASE s # t
      BY <1>c, <2>2, <2>5, <3>1, SocketKept
    <3>2. CASE s = t
      <4>1. Callers(t)' = Callers(t)
        BY <2>2 DEF Callers
      <4>2. Cardinality(Callers(t))' = Cardinality(Callers(t))
        BY <4>1
      <4>3. Serving(t) /\ Serving(t)'
        BY <2>4
      <4>4. Counted(t)'
        BY <1>c, <2>2, <2>3, <4>2, <4>3 DEF Counted, One
      <4>5. AloneIn(t)'
        BY <1>c, <2>2 DEF AloneIn
      <4> QED BY <3>2, <4>4, <4>5
    <3> QED BY <3>1, <3>2
  <2> QED BY <2>2, <2>6, <2>7 DEF Orderly, CopyOK
<1>5. ASSUME pop_service_thread_wake PROVE Orderly'
  <2>1. PICK t \in Sockets : t = Target
    BY <1>a, <1>5 DEF pop_service_thread_wake, ServiceOK
  <2>2. /\ service.pc = "wake" /\ service'.pc = "empty"
        /\ UNCHANGED <<open_sockets, client, crowded>>
    BY <1>a, <1>5, <2>1 DEF pop_service_thread_wake, PopTypeOK, ServiceType
  <2>3. /\ complete'[t] = complete[t] + 1 /\ complete[t] \in Nat
        /\ \A s \in Sockets \ {t} : complete'[s] = complete[s]
    BY <1>a, <1>5, <2>1 DEF pop_service_thread_wake, PopTypeOK
  <2>4. \A s \in Sockets : (Serving(s) <=> s = t) /\ ~Serving(s)'
    BY <2>1, <2>2 DEF Serving
  <2>5. \A s \in Sockets \ {t} : SameAt(s)
    BY <2>2, <2>3, <2>4 DEF SameAt
  <2>6. ASSUME NEW d \in Clients PROVE ReceiverOK(d)'
    <3>1. CASE client[d].s # t
      BY <1>c, <1>d, <2>2, <2>5, <3>1, ReceiverKept
    <3>2. CASE client[d].s = t
      <4>1. client[d].pc = "recv" /\ client' = client
        BY <1>d, <2>2, <3>2, Sizes
      <4>2. InUse(t)' /\ open_sockets'[t].port = client[d].port
        BY <1>c, <2>2, <3>2, <4>1 DEF ReceiverOK, InUse
      <4>3. ASSUME t \notin crowded PROVE HasPacket(d)'
        <5>1. Serving(t) /\ ~Serving(t)'
          BY <2>4
        <5>2. HasPacket(d)
          BY <1>c, <3>2, <4>1, <4>3, <5>1 DEF ReceiverOK, AwaitsPacket
        <5>3. complete'[t] = 1
          BY <2>3, <3>2, <5>1, <5>2 DEF HasPacket
        <5> QED BY <2>2, <3>2, <5>1, <5>2, <5>3 DEF HasPacket, Serving
      <4> QED BY <2>2, <3>2, <4>1, <4>2, <4>3, Sizes DEF ReceiverOK, InUse
    <3> QED BY <3>1, <3>2
  <2>7. ASSUME NEW s \in Sockets PROVE AloneIn(s)' /\ Counted(s)'
    <3>1. CASE s # t
      BY <1>c, <2>2, <2>5, <3>1, SocketKept
    <3>2. CASE s = t
      <4>1. Callers(t)' = Callers(t)
        BY <2>2 DEF Callers
      <4>2. Cardinality(Callers(t))' = Cardinality(Callers(t))
        BY <4>1
      <4>3. Serving(t) /\ ~Serving(t)'
        BY <2>4
      <4>4. Counted(t)'
        BY <1>c, <2>2, <2>3, <4>2, <4>3 DEF Counted, One
      <4>5. AloneIn(t)'
        BY <1>c, <2>2 DEF AloneIn
      <4> QED BY <3>2, <4>4, <4>5
    <3> QED BY <3>1, <3>2
  <2> QED BY <2>2, <2>6, <2>7 DEF Orderly, CopyOK
<1>6. ASSUME NEW i \in PushSlot, NEW p, Accept(p, i), UNCHANGED service
      PROVE  Target' = Target \/ service.pc \in {"scan", "sleep"}
  <2>1. /\ i \in Slots
        /\ service.pc \notin {"scan", "sleep"} => service.slot # i
    BY <1>a, <1>6, AcceptedAt
  <2>2. \A j \in Slots : j # i => pop_queue'[j] = pop_queue[j]
    BY <1>a, <1>6 DEF Accept, PopTypeOK
  <2> QED BY <1>a, <1>6, <2>1, <2>2, Fields DEF Target
<1>7. ASSUME UNCHANGED <<service, open_sockets, complete, crowded>>,
             Target' = Target \/ service.pc \in {"scan", "sleep"},
             \A c \in Clients :
                \/ client'[c] = client[c]
                \/ /\ client[c].pc # "recv" /\ client'[c].pc # "recv"
                   /\ client'[c].s = NoSocket /\ client'[c].got = 0
      PROVE  Orderly'
  <2>1. \A s \in Sockets : Serving(s)' <=> Serving(s)
    BY <1>7 DEF Serving
  <2>2. CopyOK'
    BY <1>c, <1>7 DEF CopyOK
  <2> QED BY <1>a, <1>b, <1>7, <2>1, <2>2, ReceiversSame
<1>8. ASSUME NEW n \in Interfaces, network_receive_thread_page(n) PROVE Orderly'
  BY <1>7, <1>8 DEF network_receive_thread_page, Target
<1>9. ASSUME NEW n \in Interfaces, network_receive_frame(n) PROVE Orderly'
  <2>1. UNCHANGED <<service, open_sockets, complete, client, crowded>>
    BY <1>9 DEF network_receive_frame
  <2>2. Target' = Target \/ service.pc \in {"scan", "sleep"}
    <3>1. CASE UNCHANGED pop_queue
      BY <2>1, <3>1 DEF Target
    <3> QED BY <1>6, <1>9, <2>1, <3>1 DEF network_receive_frame
  <2> QED BY <1>7, <2>1, <2>2
<1>10. ASSUME NEW n \in Interfaces, NEW frame \in Ports \cup {Unknown}, gnd_recv(n, frame)
       PROVE  Orderly'
  BY <1>7, <1>10 DEF gnd_recv, Target
<1>11. ASSUME NEW c \in Clients, network_send_free(c) PROVE Orderly'
  <2>1. /\ UNCHANGED <<service, open_sockets, complete, pop_queue, crowded>>
        /\ client[c].pc = "free" /\ client' = [client EXCEPT ![c] = Outside]
    BY <1>11 DEF network_send_free
  <2>2. \A d \in Clients :
           \/ client'[d] = client[d]
           \/ /\ client[d].pc # "recv" /\ client'[d].pc # "recv"
              /\ client'[d].s = NoSocket /\ client'[d].got = 0
    BY <1>a, <2>1 DEF PopTypeOK, Outside
  <2> QED BY <1>7, <2>1, <2>2 DEF Target
<1>12. ASSUME NEW c \in Clients, pop_push_frame_loopback(c) PROVE Orderly'
  <2>1. UNCHANGED <<service, open_sockets, complete, crowded>> /\ client[c].pc = "push"
    BY <1>12 DEF pop_push_frame_loopback
  <2>2. Target' = Target \/ service.pc \in {"scan", "sleep"}
    <3>1. CASE UNCHANGED pop_queue
      BY <2>1, <3>1 DEF Target
    <3> QED BY <1>6, <1>12, <2>1, <3>1 DEF pop_push_frame_loopback
  <2>3. client[c].s = NoSocket /\ client[c].got = 0
    BY <1>c, <2>1 DEF ReceiverOK
  <2>4. \A d \in Clients :
           \/ client'[d] = client[d]
           \/ /\ client[d].pc # "recv" /\ client'[d].pc # "recv"
              /\ client'[d].s = NoSocket /\ client'[d].got = 0
    <3>1. CASE client' = [client EXCEPT ![c] = Outside]
      BY <1>a, <2>1, <3>1 DEF PopTypeOK, Outside
    <3>2. CASE client' = [client EXCEPT ![c].pc = "free"]
      BY <1>a, <2>1, <2>3, <3>2 DEF PopTypeOK, ClientType
    <3> QED BY <1>12, <3>1, <3>2 DEF pop_push_frame_loopback
  <2> QED BY <1>7, <2>1, <2>2, <2>4
<1>13. ASSUME NEW c \in Clients, NEW s \in Sockets, NEW dport \in Ports \cup {Elsewhere},
              socket_sendto(c, s, dport)
       PROVE  Orderly'
  <2>1. PICK q \in {"free", "push"} : q = IF dport = Elsewhere THEN "free" ELSE "push"
    OBVIOUS
  <2>2. /\ client' = [client EXCEPT ![c] = [Outside EXCEPT !.page = FirstPage, !.pc = q]]
        /\ UNCHANGED <<pop_queue, service, open_sockets, complete, crowded>> /\ client[c].pc = "out"
    BY <1>13, <2>1 DEF socket_sendto
  <2>3. \A d \in Clients :
           \/ client'[d] = client[d]
           \/ /\ client[d].pc # "recv" /\ client'[d].pc # "recv"
              /\ client'[d].s = NoSocket /\ client'[d].got = 0
    BY <1>a, <2>2 DEF PopTypeOK, Outside
  <2> QED BY <1>7, <2>2, <2>3 DEF Target
<1>14. ASSUME NEW c \in Clients, socket_recvfrom_return(c) PROVE Orderly'
  <2>1. PICK t \in Sockets : t = client[c].s /\ client[c].pc = "recv" /\ complete[t] > 0
    BY <1>d, <1>14 DEF socket_recvfrom_return
  <2>2. /\ UNCHANGED <<open_sockets, pop_queue, service>> /\ c \in Callers(t)
        /\ crowded' = IF Callers(t) = {c} THEN crowded \ {t} ELSE crowded
    BY <1>14, <2>1 DEF socket_recvfrom_return, Callers
  <2>3. /\ client'[c].pc = "out" /\ client'[c].s = NoSocket /\ client'[c].got = 0
        /\ \A d \in Clients \ {c} : client'[d] = client[d]
    BY <1>a, <1>14 DEF socket_recvfrom_return, PopTypeOK, Outside
  <2>4. /\ complete'[t] = complete[t] - 1 /\ complete[t] \in Nat
        /\ \A s \in Sockets \ {t} : complete'[s] = complete[s]
    BY <1>a, <1>14, <2>1 DEF socket_recvfrom_return, PopTypeOK
  <2>5. \A s \in Sockets : Serving(s)' <=> Serving(s)
    BY <2>2 DEF Serving, Target
  <2>6. \A s \in Sockets \ {t} : SameAt(s)
    BY <2>2, <2>4, <2>5 DEF SameAt
  <2>7. ASSUME NEW d \in Clients, d # c, client[d].s = t
        PROVE  t \in crowded /\ t \in crowded'
    <3>1. t \in crowded
      BY <1>c, <2>1, <2>7 DEF AloneIn
    <3>2. Callers(t) # {c}
      BY <2>7 DEF Callers
    <3> QED BY <2>2, <3>1, <3>2
  <2>8. ASSUME NEW d \in Clients PROVE ReceiverOK(d)'
    <3>1. CASE d = c
      BY <2>3, <3>1 DEF ReceiverOK
    <3>2. CASE d # c /\ client[d].s # t
      BY <1>c, <1>d, <2>3, <2>6, <3>2, ReceiverKept
    <3>3. CASE d # c /\ client[d].s = t
      <4>1. client'[d] = client[d] /\ t \in crowded' /\ open_sockets' = open_sockets
        BY <2>2, <2>3, <2>7, <3>3
      <4> QED BY <1>c, <3>3, <4>1 DEF ReceiverOK, InUse
    <3> QED BY <3>1, <3>2, <3>3
  <2>9. ASSUME NEW s \in Sockets PROVE AloneIn(s)' /\ Counted(s)'
    <3>1. CASE s # t
      <4>1. \A d \in Clients : client'[d].s = s <=> client[d].s = s
        BY <2>1, <2>3, <3>1, Sizes
      <4> QED BY <1>c, <2>6, <3>1, <4>1, SocketKept
    <3>2. CASE s = t
      <4>1. Callers(t)' = Callers(t) \ {c}
        BY <2>3, Sizes DEF Callers
      <4>2. Cardinality(Callers(t) \ {c}) = Cardinality(Callers(t)) - 1
        BY <2>2, FiniteCallers, FS_RemoveElement
      <4>3. Cardinality(Callers(t))' = Cardinality(Callers(t)) - 1
        BY <4>1, <4>2
      <4>4. Cardinality(Callers(t)) = complete[t] + One(Serving(t)) + One(open_sockets[t].rbuf # Nobody)
        BY <1>c DEF Counted
      <4>5. Counted(t)'
        BY <2>2, <2>4, <2>5, <4>3, <4>4 DEF Counted, One
      <4>6. AloneIn(t)'
        BY <2>3, <2>7, Sizes DEF AloneIn
      <4> QED BY <3>2, <4>5, <4>6
    <3> QED BY <3>1, <3>2
  <2>10. CopyOK'
    BY <1>c, <2>2 DEF CopyOK, Target
  <2> QED BY <2>8, <2>9, <2>10 DEF Orderly
<1>15. ASSUME NEW c \in Clients, NEW t \in Sockets, socket_recvfrom(c, t) PROVE Orderly'
  <2>1. /\ client[c].pc = "out" /\ open_sockets[t].protocol = "pop"
        /\ open_sockets[t].rbuf = Nobody /\ client[c].s = NoSocket /\ c \notin Callers(t)
        /\ crowded' = IF Callers(t) = {} THEN crowded ELSE crowded \cup {t}
        /\ UNCHANGED <<complete, pop_queue, service>>
    BY <1>d, <1>15, Sizes DEF socket_recvfrom, Callers
  <2>2. InUse(t)
    BY <2>1 DEF InUse
  <2>3. /\ client'[c].pc = "recv" /\ client'[c].s = t /\ client'[c].got = 0
        /\ client'[c].port = open_sockets[t].port
        /\ \A d \in Clients \ {c} : client'[d] = client[d]
    BY <1>a, <1>15 DEF socket_recvfrom, PopTypeOK, Outside
  <2>4. /\ open_sockets'[t].rbuf = c /\ open_sockets'[t].ret = c
        /\ open_sockets'[t].port = open_sockets[t].port /\ open_sockets'[t].protocol = "pop"
        /\ \A s \in Sockets \ {t} : open_sockets'[s] = open_sockets[s]
    <3>1. PICK o : o = [open_sockets EXCEPT ![t].rbuf = c]
      OBVIOUS
    <3>2. open_sockets' = [o EXCEPT ![t].ret = c]
      BY <1>15, <3>1 DEF socket_recvfrom
    <3>3. /\ o \in [Sockets -> SocketType] /\ o[t].rbuf = c /\ o[t].port = open_sockets[t].port
          /\ o[t].protocol = "pop" /\ \A s \in Sockets \ {t} : o[s] = open_sockets[s]
      BY <1>a, <2>1, <3>1 DEF PopTypeOK, SocketType
    <3> QED BY <3>2, <3>3 DEF SocketType
  <2>5. \A s \in Sockets : Serving(s)' <=> Serving(s)
    BY <2>1 DEF Serving, Target
  <2>6. \A s \in Sockets \ {t} : SameAt(s)
    BY <2>1, <2>4, <2>5 DEF SameAt
  <2>7. ASSUME NEW d \in Clients, d # c, client[d].s = t PROVE t \in crowded'
    <3>1. Callers(t) # {}
      BY <2>7 DEF Callers
    <3> QED BY <2>1, <3>1
  <2>8. ASSUME t \notin crowded' PROVE AwaitsPacket(c)'
    <3>1. Quiet(t)
      BY <1>a, <1>c, <2>1, <2>8, QuietSocket
    <3>2. complete'[t] = 0 /\ ~Serving(t)'
      BY <2>1, <2>5, <3>1 DEF Quiet
    <3> QED BY <2>3, <2>4, <3>2 DEF AwaitsPacket, Serving
  <2>9. ASSUME NEW d \in Clients PROVE ReceiverOK(d)'
    <3>1. CASE d = c
      <4>1. InUse(t)'
        BY <2>4 DEF InUse
      <4> QED BY <2>3, <2>4, <2>8, <3>1, <4>1, Sizes DEF ReceiverOK, InUse
    <3>2. CASE d # c /\ client[d].s # t
      BY <1>c, <1>d, <2>3, <2>6, <3>2, ReceiverKept
    <3>3. CASE d # c /\ client[d].s = t
      <4>1. client'[d] = client[d] /\ t \in crowded'
        BY <2>3, <2>7, <3>3
      <4>2. InUse(t)'
        BY <2>4 DEF InUse
      <4> QED BY <1>c, <2>4, <3>3, <4>1, <4>2 DEF ReceiverOK, InUse
    <3> QED BY <3>1, <3>2, <3>3
  <2>10. ASSUME NEW s \in Sockets PROVE AloneIn(s)' /\ Counted(s)'
    <3>1. CASE s # t
      <4>1. \A d \in Clients : client'[d].s = s <=> client[d].s = s
        BY <2>1, <2>3, <3>1, Sizes
      <4> QED BY <1>c, <2>6, <3>1, <4>1, SocketKept
    <3>2. CASE s = t
      <4>1. Callers(t)' = Callers(t) \cup {c}
        BY <2>3 DEF Callers
      <4>2. Cardinality(Callers(t) \cup {c}) = Cardinality(Callers(t)) + 1
        BY <2>1, FiniteCallers, FS_AddElement
      <4>3. Cardinality(Callers(t))' = Cardinality(Callers(t)) + 1
        BY <4>1, <4>2
      <4>4. Cardinality(Callers(t)) = complete[t] + One(Serving(t))
        BY <1>a, <1>c, <2>1 DEF Counted, One, PopTypeOK
      <4>5. open_sockets'[t].rbuf # Nobody /\ complete[t] \in Nat
        BY <1>a, <2>4, Sizes DEF PopTypeOK
      <4>6. Counted(t)'
        BY <2>1, <2>5, <4>3, <4>4, <4>5 DEF Counted, One
      <4>7. AloneIn(t)'
        BY <2>3, <2>7, Sizes DEF AloneIn
      <4> QED BY <3>2, <4>6, <4>7
    <3> QED BY <3>1, <3>2
  <2>11. CopyOK'
    <3>1. service.pc = "copy" => Target \in Sockets
      BY <1>a DEF ServiceOK
    <3>2. Target' = Target
      BY <2>1 DEF Target
    <3> QED BY <1>c, <2>1, <2>4, <3>1, <3>2, Sizes DEF CopyOK
  <2> QED BY <2>9, <2>10, <2>11 DEF Orderly
<1>16. ASSUME NEW t \in Sockets, Callers(t) = {},
              UNCHANGED <<pop_queue, service, client, crowded>>,
              \A s \in Sockets \ {t} : open_sockets'[s] = open_sockets[s],
              \A s \in Sockets \ {t} : complete'[s] = complete[s],
              open_sockets'[t].rbuf = Nobody, complete'[t] \in {0, complete[t]}
       PROVE  Orderly'
  <2>1. Quiet(t)
    BY <1>a, <1>c, <1>16, QuietSocket
  <2>2. \A s \in Sockets : Serving(s)' <=> Serving(s)
    BY <1>16 DEF Serving, Target
  <2>3. \A s \in Sockets \ {t} : SameAt(s)
    BY <1>16, <2>2 DEF SameAt
  <2>4. \A d \in Clients : client[d].s # t
    BY <1>16 DEF Callers
  <2>5. ASSUME NEW d \in Clients PROVE ReceiverOK(d)'
    BY <1>c, <1>d, <1>16, <2>3, <2>4, ReceiverKept
  <2>6. ASSUME NEW s \in Sockets PROVE AloneIn(s)' /\ Counted(s)'
    <3>1. CASE s # t
      BY <1>c, <1>16, <2>3, <3>1, SocketKept
    <3>2. CASE s = t
      <4>1. Callers(t)' = {}
        BY <1>16 DEF Callers
      <4>2. Cardinality(Callers(t))' = 0
        BY <4>1, FS_EmptySet
      <4>3. complete'[t] = 0 /\ ~Serving(t)'
        BY <1>16, <2>1, <2>2 DEF Quiet
      <4>4. Counted(t)'
        BY <1>16, <4>2, <4>3 DEF Counted, One
      <4>5. AloneIn(t)'
        BY <1>c, <1>16 DEF AloneIn
      <4> QED BY <3>2, <4>4, <4>5
    <3> QED BY <3>1, <3>2
  <2>7. CopyOK'
    <3>1. service.pc = "copy" => Target \in Sockets
      BY <1>a DEF ServiceOK
    <3>2. Target' = Target /\ open_sockets[t].rbuf = Nobody
      BY <1>16, <2>1 DEF Target, Quiet
    <3> QED BY <1>c, <1>16, <3>1, <3>2 DEF CopyOK
  <2> QED BY <2>5, <2>6, <2>7 DEF Orderly
<1>17. ASSUME NEW c \in Clients, NEW protocol \in Protocols, NEW port \in Ports \cup {0},
              socket_open(c, protocol, port)
       PROVE  Orderly'
  <2>1. PICK p \in PortFor(port) :
          LET s == Min(FreeSockets) IN
          /\ open_sockets' = [open_sockets EXCEPT ![s] =
                                [@ EXCEPT !.port = p, !.protocol = protocol, !.rbuf = Nobody]]
          /\ complete' = [complete EXCEPT ![s] = 0]
    BY <1>17 DEF socket_open
  <2>2. PICK t \in Sockets : t = Min(FreeSockets) /\ ~InUse(t)
    BY <1>17, FreeSocketFound DEF socket_open
  <2>3. PICK r : r = [open_sockets[t] EXCEPT !.port = p, !.protocol = protocol, !.rbuf = Nobody]
    OBVIOUS
  <2>4. open_sockets' = [open_sockets EXCEPT ![t] = r] /\ complete' = [complete EXCEPT ![t] = 0]
    BY <2>1, <2>2, <2>3
  <2>5. r.rbuf = Nobody
    BY <1>a, <2>3 DEF PopTypeOK, SocketType
  <2>6. /\ open_sockets'[t].rbuf = Nobody /\ complete'[t] = 0
        /\ \A s \in Sockets \ {t} : open_sockets'[s] = open_sockets[s] /\ complete'[s] = complete[s]
    BY <1>a, <2>4, <2>5 DEF PopTypeOK
  <2>7. Callers(t) = {}
    BY <1>c, <1>d, <2>2, Sizes DEF ReceiverOK, Callers
  <2>8. UNCHANGED <<pop_queue, service, client, crowded>>
    BY <1>17 DEF socket_open
  <2> QED BY <1>16, <2>6, <2>7, <2>8
<1>18. ASSUME NEW c \in Clients, NEW t \in Sockets, socket_close(c, t) PROVE Orderly'
  <2>1. /\ open_sockets'[t] = FreeSocket
        /\ \A s \in Sockets \ {t} : open_sockets'[s] = open_sockets[s] /\ complete'[s] = complete[s]
        /\ UNCHANGED <<pop_queue, service, client, crowded, complete>> /\ Callers(t) = {}
    BY <1>a, <1>18 DEF socket_close, PopTypeOK
  <2>2. open_sockets'[t].rbuf = Nobody
    BY <2>1 DEF FreeSocket
  <2> QED BY <1>16, <2>1, <2>2
<1>19. ASSUME Tick PROVE Orderly'
  BY <1>7, <1>19 DEF Tick, Target
<1>20. Orderly'
  BY <1>1, <1>2, <1>3, <1>4, <1>5, <1>8, <1>9, <1>10, <1>11, <1>12, <1>13, <1>14, <1>15, <1>17,
     <1>18, <1>19
  DEF PopNext, pop_service_thread, network_receive_thread, ClientContinues, ClientCalls
<1>21. PopTypeOK'
  BY TypeStep
<1> QED BY <1>20, <1>21, OrderlyAfter

(* A step that leaves the queue alone and gives no socket a buffer cannot   *)
(* make a frame wanted.                                                     *)
LEMMA SignalsSame ==
    ASSUME PopTypeOK, NoLostSignal, UNCHANGED <<pop_queue, service, service_sem>>,
           \A s \in Sockets : \/ open_sockets'[s] = open_sockets[s]
                              \/ open_sockets'[s].rbuf = Nobody
    PROVE  NoLostSignal'
<1> SUFFICES ASSUME service.pc = "sleep", service_sem = 0, NEW i \in Queued
             PROVE  pop_queue[i].socket # NoSocket /\ ~Wanted(i)'
  <2>1. Queued' = Queued
    BY DEF Queued, EmptySlots
  <2> QED BY <2>1 DEF NoLostSignal
<1>1. i \in Slots /\ pop_queue[i].socket # NoSocket /\ ~Wanted(i)
  BY DEF NoLostSignal, Queued
<1>2. PICK s \in Sockets : s = pop_queue[i].socket
  BY <1>1, Fields
<1>3. SocketOf(i) = s /\ SocketOf(i)' = s
  BY <1>1, <1>2 DEF SocketOf
<1>4. open_sockets'[s] = open_sockets[s] => ~Wanted(i)'
  BY <1>1, <1>3 DEF Wanted, Unlistened
<1>5. open_sockets'[s].rbuf = Nobody => ~Wanted(i)'
  BY <1>3 DEF Wanted
<1> QED BY <1>1, <1>4, <1>5

(* No signal to the service thread is lost. *)
LEMMA SignalsStep ==
    ASSUME PopTypeOK, NoLostSignal, PopNext
    PROVE  NoLostSignal'
<1> USE DEF tableVars, queueVars, poolVars, threadVars, historyVars
<1>0. service_sem' > 0 \/ service'.pc # "sleep" => NoLostSignal'
  <2>1. service_sem' > 0 => service_sem' # 0
    OBVIOUS
  <2> QED BY <2>1 DEF NoLostSignal
<1>1. ASSUME pop_service_thread_scan PROVE NoLostSignal'
  <2>1. \A i \in Slots : pop_queue'[i].frame = pop_queue[i].frame
    BY <1>1, ScanResult
  <2>2. Queued' = Queued
    BY <2>1 DEF Queued, EmptySlots
  <2>3. ASSUME service'.pc = "sleep", NEW i \in Queued
        PROVE  pop_queue'[i].socket # NoSocket /\ ~Wanted(i)'
    <3>1. pop_queue'[i].socket = SocketOf(i) /\ ~Unlistened(i) /\ ~Wanted(i)
      BY <1>1, <2>3, ScanResult
    <3>2. PICK s : s = SocketOf(i)
      OBVIOUS
    <3>3. s # NoSocket /\ pop_queue'[i].socket = s
      BY <3>1, <3>2 DEF Unlistened
    <3>4. SocketOf(i)' = s
      BY <3>3 DEF SocketOf
    <3>5. open_sockets' = open_sockets
      BY <1>1 DEF pop_service_thread_scan
    <3> QED BY <3>1, <3>2, <3>3, <3>4, <3>5 DEF Wanted, Unlistened
  <2> QED BY <2>2, <2>3 DEF NoLostSignal
<1>2. ASSUME \/ pop_service_thread_discard \/ pop_service_thread_copy
             \/ pop_service_thread_clear \/ pop_service_thread_wake
             \/ pop_service_thread_empty \/ pop_service_thread_sleep
      PROVE  NoLostSignal'
  <2>1. service'.pc # "sleep"
    BY <1>2 DEF pop_service_thread_discard, pop_service_thread_copy, pop_service_thread_clear,
                pop_service_thread_wake, pop_service_thread_empty, pop_service_thread_sleep,
                PopTypeOK, ServiceType
  <2> QED BY <1>0, <2>1
<1>3. ASSUME UNCHANGED <<pop_queue, service, service_sem, open_sockets>> PROVE NoLostSignal'
  BY <1>3, SignalsSame
<1>4. ASSUME NEW n \in Interfaces, network_receive_thread(n) PROVE NoLostSignal'
  <2>1. CASE network_receive_thread_page(n)
    BY <1>3, <2>1 DEF network_receive_thread_page
  <2>2. CASE network_receive_frame(n)
    <3>1. \/ service_sem' = service_sem + 1
          \/ UNCHANGED <<pop_queue, service, service_sem, open_sockets>>
      BY <2>2 DEF network_receive_frame, Accept
    <3>2. service_sem' = service_sem + 1 => service_sem' > 0
      BY DEF PopTypeOK
    <3> QED BY <1>0, <1>3, <3>1, <3>2
  <2> QED BY <1>4, <2>1, <2>2 DEF network_receive_thread
<1>5. ASSUME NEW n \in Interfaces, NEW frame \in Ports \cup {Unknown}, gnd_recv(n, frame)
      PROVE  NoLostSignal'
  BY <1>3, <1>5 DEF gnd_recv
<1>6. ASSUME NEW c \in Clients, ClientContinues(c) PROVE NoLostSignal'
  <2>1. CASE network_send_free(c)
    BY <1>3, <2>1 DEF network_send_free
  <2>2. CASE pop_push_frame_loopback(c)
    <3>1. \/ service_sem' = service_sem + 1
          \/ UNCHANGED <<pop_queue, service, service_sem, open_sockets>>
      BY <2>2 DEF pop_push_frame_loopback, Accept
    <3>2. service_sem' = service_sem + 1 => service_sem' > 0
      BY DEF PopTypeOK
    <3> QED BY <1>0, <1>3, <3>1, <3>2
  <2>3. CASE socket_recvfrom_return(c)
    BY <1>3, <2>3 DEF socket_recvfrom_return
  <2> QED BY <1>6, <2>1, <2>2, <2>3 DEF ClientContinues
<1>7. ASSUME NEW c \in Clients, ClientCalls(c) PROVE NoLostSignal'
  <2>1. ASSUME NEW protocol \in Protocols, NEW port \in Ports \cup {0},
               socket_open(c, protocol, port)
        PROVE  NoLostSignal'
    <3>1. PICK p \in PortFor(port) :
            LET s == Min(FreeSockets) IN
            open_sockets' = [open_sockets EXCEPT ![s] =
                               [@ EXCEPT !.port = p, !.protocol = protocol, !.rbuf = Nobody]]
      BY <2>1 DEF socket_open
    <3>2. PICK t \in Sockets : t = Min(FreeSockets) /\ ~InUse(t)
      BY <2>1, FreeSocketFound DEF socket_open
    <3>3. PICK r : r = [open_sockets[t] EXCEPT !.port = p, !.protocol = protocol, !.rbuf = Nobody]
      OBVIOUS
    <3>4. open_sockets' = [open_sockets EXCEPT ![t] = r]
      BY <3>1, <3>2, <3>3
    <3>5. r.rbuf = Nobody
      BY <3>3 DEF PopTypeOK, SocketType
    <3>6. \A s \in Sockets : \/ open_sockets'[s] = open_sockets[s]
                             \/ open_sockets'[s].rbuf = Nobody
      BY <3>4, <3>5 DEF PopTypeOK
    <3>7. UNCHANGED <<pop_queue, service, service_sem>>
      BY <2>1 DEF socket_open
    <3> QED BY <3>6, <3>7, SignalsSame
  <2>2. ASSUME NEW t \in Sockets, socket_close(c, t) PROVE NoLostSignal'
    <3>1. \A s \in Sockets : \/ open_sockets'[s] = open_sockets[s]
                             \/ open_sockets'[s].rbuf = Nobody
      BY <2>2 DEF socket_close, PopTypeOK, FreeSocket
    <3>2. UNCHANGED <<pop_queue, service, service_sem>>
      BY <2>2 DEF socket_close
    <3> QED BY <3>1, <3>2, SignalsSame
  <2>3. ASSUME NEW s \in Sockets, NEW dport \in Ports \cup {Elsewhere}, socket_sendto(c, s, dport)
        PROVE  NoLostSignal'
    BY <1>3, <2>3 DEF socket_sendto
  <2>4. ASSUME NEW s \in Sockets, socket_recvfrom(c, s) PROVE NoLostSignal'
    <3>1. service_sem' > 0
      BY <2>4 DEF socket_recvfrom, PopTypeOK
    <3> QED BY <1>0, <3>1
  <2> QED BY <1>7, <2>1, <2>2, <2>3, <2>4 DEF ClientCalls
<1>8. ASSUME Tick PROVE NoLostSignal'
  BY <1>3, <1>8 DEF Tick
<1> QED BY <1>1, <1>2, <1>4, <1>5, <1>6, <1>7, <1>8 DEF PopNext, pop_service_thread
-----------------------------------------------------------------------------
(* The invariant *)

LEMMA InitPop == PopInit => PopInv
<1> SUFFICES ASSUME PopInit PROVE PopInv
  OBVIOUS
<1>1. PopTypeOK
  <2>1. pool \subseteq Pages /\ mem \in [Pages -> Ports \cup {Junk, Unknown}]
    BY DEF PopInit
  <2>2. open_sockets \in [Sockets -> SocketType] /\ complete \in [Sockets -> Nat]
    BY DEF PopInit, FreeSocket, SocketType
  <2>3. pop_queue \in [Slots -> SlotType] /\ service \in ServiceType /\ service_sem \in Nat
    BY Sizes DEF PopInit, EmptySlot, SlotType, ServiceType
  <2>4. receiver \in [Interfaces -> ReceiverType] /\ client \in [Clients -> ClientType]
    BY DEF PopInit, Outside, ReceiverType, ClientType, Junk
  <2>5. now \in 0 .. MaxTime /\ frames \in 0 .. MaxFrames
    BY Sizes, PopAssumption DEF PopInit
  <2> QED BY <2>1, <2>2, <2>3, <2>4, <2>5 DEF PopInit, PopTypeOK
<1>2. NoLostSignal /\ ServiceOK
  BY DEF PopInit, NoLostSignal, ServiceOK
<1>3. Queued = {} /\ LiveSlots = {} /\ Receiving = {} /\ Sending = {}
  BY DEF PopInit, Queued, EmptySlots, LiveSlots, Receiving, Sending, EmptySlot, Outside
<1>4. PagesOwnedOnce
  BY <1>3 DEF PopInit, PagesOwnedOnce
<1>5. FramesOK
  BY <1>3 DEF PopInit, FramesOK, Outside
<1>6. CallersCounted
  <2>1. ASSUME NEW s \in Sockets PROVE Callers(s) = {} /\ Quiet(s)
    BY Sizes DEF PopInit, Callers, Outside, Quiet, Serving, FreeSocket
  <2> QED BY <2>1, FS_EmptySet DEF CallersCounted, Quiet, One
<1>7. ReceiversOK
  BY DEF PopInit, ReceiversOK, Outside
<1> QED BY <1>1, <1>2, <1>4, <1>5, <1>6, <1>7 DEF PopInv

LEMMA PopStep ==
    ASSUME PopInv, [PopNext]_vars
    PROVE  PopInv'
<1>1. CASE PopNext
  <2>1. ~Halted
    BY <1>1 DEF PopNext
  <2>2. PopTypeOK'
    BY <1>1, <2>1, TypeStep
  <2>3. NoLostSignal'
    BY <1>1, SignalsStep DEF PopInv
  <2>4. ~raced' => PagesOwnedOnce' /\ FramesOK' /\ ServiceOK'
    BY <1>1, <2>1, PagesStep
  <2>5. ~raced' => ReceiversOK' /\ CallersCounted'
    BY <1>1, <2>1, ReceiversStep
  <2> QED BY <2>2, <2>3, <2>4, <2>5 DEF PopInv
<1>2. CASE UNCHANGED vars
  <2> USE <1>2 DEF vars, tableVars, queueVars, poolVars, threadVars, historyVars
  <2>1. PopTypeOK' /\ NoLostSignal'
    BY DEF PopInv, PopTypeOK, NoLostSignal, Queued, EmptySlots, Wanted, Unlistened, SocketOf
  <2>2. PagesOwnedOnce => PagesOwnedOnce'
    BY DEF PagesOwnedOnce, LiveSlots, Queued, EmptySlots, Receiving, Sending
  <2>3. FramesOK => FramesOK'
    BY DEF FramesOK, LiveSlots, Queued, EmptySlots, Receiving, Sending
  <2>4. ServiceOK => ServiceOK'
    BY DEF ServiceOK, Target
  <2>5. ReceiversOK => ReceiversOK'
    BY DEF ReceiversOK, AwaitsPacket, HasPacket, Serving, Target, InUse
  <2>6. CallersCounted => CallersCounted'
    BY DEF CallersCounted, Callers, One, Serving, Target
  <2> QED BY <2>1, <2>2, <2>3, <2>4, <2>5, <2>6 DEF PopInv
<1> QED BY <1>1, <1>2

(* The frame layer loses no page and frees none twice, the service thread   *)
(* (net/pop.c) misses no signal and knows what it works on while it holds   *)
(* no lock, no call of recvfrom is forgotten and no signal left over, and   *)
(* who receives alone from a socket gets a packet before the signal - for   *)
(* any number of pages, sockets, slots, ports, threads and interfaces, as   *)
(* long as no frame is replaced while it is being discarded.                *)
THEOREM PopInvariant == PopSpec => []PopInv
<1>1. PopInv /\ [PopNext]_vars => PopInv'
  BY PopStep
<1> QED BY <1>1, InitPop, PTL DEF PopSpec
-----------------------------------------------------------------------------
(* Frames reach the port they are for *)

(* A step that keeps the frames that are queued for a socket, and those     *)
(* sockets bound.                                                           *)
LEMMA QueuedSame ==
    ASSUME QueuedForPort,
           \A i \in LiveSlots' : pop_queue'[i].socket # NoSocket =>
              /\ i \in LiveSlots /\ pop_queue'[i].socket = pop_queue[i].socket
              /\ mem'[pop_queue'[i].frame] = mem[pop_queue[i].frame],
           \A i \in LiveSlots : pop_queue[i].socket # NoSocket /\ InUse(pop_queue[i].socket) =>
              /\ open_sockets'[pop_queue[i].socket].protocol # "none"
              /\ open_sockets'[pop_queue[i].socket].port = open_sockets[pop_queue[i].socket].port
    PROVE  QueuedForPort'
<1> SUFFICES ASSUME NEW i \in LiveSlots', pop_queue'[i].socket # NoSocket
             PROVE  /\ open_sockets'[pop_queue'[i].socket].protocol # "none"
                    /\ open_sockets'[pop_queue'[i].socket].port = mem'[pop_queue'[i].frame]
  BY DEF QueuedForPort, InUse
<1> QED BY DEF QueuedForPort, InUse

(* No step changes what a queued frame holds or which socket it is for,     *)
(* but the scan, which finds the socket.                                    *)
LEMMA QueuedStep ==
    ASSUME PopInv, ~Halted, PopNext, ~raced', ~pop_service_thread_scan,
           NEW i \in LiveSlots', pop_queue'[i].socket # NoSocket
    PROVE  /\ i \in LiveSlots /\ pop_queue'[i].socket = pop_queue[i].socket
           /\ mem'[pop_queue'[i].frame] = mem[pop_queue[i].frame]
<1> DEFINE Kept == /\ i \in LiveSlots /\ pop_queue'[i].socket = pop_queue[i].socket
                   /\ mem'[pop_queue'[i].frame] = mem[pop_queue[i].frame]
<1>a. PopTypeOK /\ ~raced /\ PagesOwnedOnce /\ FramesOK /\ ServiceOK
  BY DEF PopInv, Halted
<1>b. i \in Slots
  BY DEF LiveSlots, Queued
<1>c. \A j \in LiveSlots : j \in Slots /\ pop_queue[j].frame \in Pages
  BY <1>a, Fields DEF LiveSlots, Queued, EmptySlots
<1>d. mem \in [Pages -> Ports \cup {Junk, Unknown}]
  BY <1>a DEF PopTypeOK
<1> USE DEF tableVars, queueVars, poolVars, threadVars, historyVars
<1>1. ASSUME UNCHANGED <<pop_queue, service, mem>> PROVE Kept
  BY <1>1 DEF LiveSlots, Queued, EmptySlots
<1>2. ASSUME NEW p \in Pages, UNCHANGED <<pop_queue, service>>,
             \A q \in Pages \ {p} : mem'[q] = mem[q],
             \A j \in LiveSlots : pop_queue[j].frame # p
      PROVE  Kept
  <2>1. i \in LiveSlots
    BY <1>2 DEF LiveSlots, Queued, EmptySlots
  <2> QED BY <1>c, <1>2, <2>1
<1>3. ASSUME NEW p \in Pages, FreePage(p) PROVE \A q \in Pages \ {p} : mem'[q] = mem[q]
  BY <1>d, <1>3 DEF FreePage
<1>4. ASSUME pop_service_thread_discard \/ pop_service_thread_clear PROVE Kept
  <2>1. /\ service.pc \in {"discard", "clear"} /\ FreePage(service.f) /\ UNCHANGED pop_queue
        /\ service' = [service EXCEPT !.pc = IF service.pc = "clear" THEN "wake" ELSE "empty"]
    BY <1>4 DEF pop_service_thread_discard, pop_service_thread_clear, network_free_frame
  <2>2. service'.pc \in {"wake", "empty"} /\ service'.slot = service.slot
    BY <1>a, <2>1 DEF PopTypeOK, ServiceType
  <2>3. i \in LiveSlots /\ i # service.slot
    BY <2>1, <2>2 DEF LiveSlots, Queued, EmptySlots
  <2>4. service.slot \in LiveSlots /\ pop_queue[service.slot].frame = service.f
    BY <1>a, <2>1, Fields DEF ServiceOK, LiveSlots, Queued, EmptySlots
  <2>5. pop_queue[i].frame # service.f
    BY <1>a, <2>3, <2>4 DEF PagesOwnedOnce
  <2> QED BY <1>3, <1>c, <2>1, <2>3, <2>4, <2>5
<1>5. ASSUME pop_service_thread_copy \/ pop_service_thread_wake \/ pop_service_thread_sleep
      PROVE  Kept
  <2>1. /\ UNCHANGED <<pop_queue, mem>> /\ service'.slot = service.slot
        /\ service.pc = "wake" => service'.pc = "empty"
        /\ service.pc # "empty"
    BY <1>a, <1>5 DEF pop_service_thread_copy, pop_service_thread_wake, pop_service_thread_sleep,
                      PopTypeOK, ServiceType
  <2> QED BY <2>1 DEF LiveSlots, Queued, EmptySlots
<1>6. ASSUME pop_service_thread_empty PROVE Kept
  <2>1. /\ \A j \in Slots : pop_queue'[j] = IF j = service.slot THEN EmptySlot ELSE pop_queue[j]
        /\ UNCHANGED mem
    BY <1>a, <1>6 DEF pop_service_thread_empty, PopTypeOK
  <2>2. i # service.slot
    BY <1>b, <2>1 DEF EmptySlot
  <2>3. pop_queue'[i] = pop_queue[i]
    BY <1>b, <2>1, <2>2
  <2>4. i \in LiveSlots
    BY <1>b, <2>2, <2>3 DEF LiveSlots, Queued, EmptySlots
  <2> QED BY <2>1, <2>3, <2>4
<1>7. ASSUME NEW p \in Pages, NEW j \in PushSlot, Accept(p, j), UNCHANGED service PROVE Kept
  <2>1. /\ LiveSlots' = LiveSlots \cup {j} /\ pop_queue'[j].socket = NoSocket
        /\ \A k \in Slots \ {j} : pop_queue'[k] = pop_queue[k]
    BY <1>a, <1>7, AcceptQueue
  <2>2. i \in LiveSlots /\ i # j /\ pop_queue'[i] = pop_queue[i]
    BY <1>b, <2>1
  <2>3. j \in LiveSlots => pop_queue[i].frame # pop_queue[j].frame
    BY <1>a, <2>2 DEF PagesOwnedOnce
  <2>4. mem'[pop_queue[i].frame] = mem[pop_queue[i].frame]
    BY <1>a, <1>c, <1>7, <2>2, <2>3, AcceptMem
  <2> QED BY <2>2, <2>4
<1>8. ASSUME NEW n \in Interfaces, network_receive_thread(n) PROVE Kept
  <2>1. CASE network_receive_thread_page(n)
    BY <1>1, <2>1 DEF network_receive_thread_page
  <2>2. CASE network_receive_frame(n)
    <3>1. receiver[n].page \in Pages
      BY <1>a, <2>2, Fields DEF network_receive_frame, FramesOK, Receiving
    <3>2. CASE UNCHANGED <<pop_queue, service, mem>>
      BY <1>1, <3>2
    <3>3. CASE ~UNCHANGED <<pop_queue, service, mem>>
      <4>1. UNCHANGED service /\ \E j \in PushSlot : Accept(receiver[n].page, j)
        BY <2>2, <3>3 DEF network_receive_frame
      <4> QED BY <1>7, <3>1, <4>1
    <3> QED BY <3>2, <3>3
  <2> QED BY <1>8, <2>1, <2>2 DEF network_receive_thread
<1>9. ASSUME NEW n \in Interfaces, NEW frame \in Ports \cup {Unknown}, gnd_recv(n, frame)
      PROVE  Kept
  <2>1. receiver[n].page \in Pages /\ n \in Receiving
    BY <1>a, <1>9, Fields DEF gnd_recv, FramesOK, Receiving
  <2>2. \A j \in LiveSlots : pop_queue[j].frame # receiver[n].page
    BY <1>a, <2>1 DEF PagesOwnedOnce
  <2>3. /\ UNCHANGED <<pop_queue, service>>
        /\ \A q \in Pages \ {receiver[n].page} : mem'[q] = mem[q]
    BY <1>d, <1>9 DEF gnd_recv
  <2> QED BY <1>2, <2>1, <2>2, <2>3
<1>10. ASSUME NEW c \in Clients, ClientContinues(c) PROVE Kept
  <2>1. client[c].pc \in {"free", "push"} => client[c].page \in Pages /\ c \in Sending
    BY <1>a, Fields DEF FramesOK, Sending
  <2>2. CASE network_send_free(c)
    <3>1. FreePage(client[c].page) /\ UNCHANGED <<pop_queue, service>> /\ client[c].pc = "free"
      BY <2>2 DEF network_send_free
    <3>2. \A j \in LiveSlots : pop_queue[j].frame # client[c].page
      BY <1>a, <2>1, <3>1 DEF PagesOwnedOnce
    <3> QED BY <1>2, <1>3, <2>1, <3>1, <3>2
  <2>3. CASE pop_push_frame_loopback(c)
    <3>1. CASE UNCHANGED <<pop_queue, service, mem>>
      BY <1>1, <3>1
    <3>2. CASE ~UNCHANGED <<pop_queue, service, mem>>
      <4>1. UNCHANGED service /\ client[c].pc = "push" /\ \E j \in PushSlot : Accept(client[c].page, j)
        BY <2>3, <3>2 DEF pop_push_frame_loopback
      <4> QED BY <1>7, <2>1, <4>1
    <3> QED BY <3>1, <3>2
  <2>4. CASE socket_recvfrom_return(c)
    BY <1>1, <2>4 DEF socket_recvfrom_return
  <2> QED BY <1>10, <2>2, <2>3, <2>4 DEF ClientContinues
<1>11. ASSUME NEW c \in Clients, ClientCalls(c) PROVE Kept
  <2>1. ASSUME NEW s \in Sockets, NEW dport \in Ports \cup {Elsewhere}, socket_sendto(c, s, dport)
        PROVE  Kept
    <3>1. FirstPage \in pool /\ FirstPage \in Pages
      BY <1>a, <2>1, FirstPageFree DEF socket_sendto, network_send_page, PopTypeOK
    <3>2. \A j \in LiveSlots : pop_queue[j].frame # FirstPage
      BY <1>a, <3>1 DEF PagesOwnedOnce
    <3>3. /\ UNCHANGED <<pop_queue, service>>
          /\ \A q \in Pages \ {FirstPage} : mem'[q] = mem[q]
      BY <1>d, <2>1 DEF socket_sendto, network_send_page
    <3> QED BY <1>2, <3>1, <3>2, <3>3
  <2>2. ASSUME \/ \E protocol \in Protocols, port \in Ports \cup {0} : socket_open(c, protocol, port)
               \/ \E s \in Sockets : socket_close(c, s) \/ socket_recvfrom(c, s)
        PROVE  Kept
    BY <1>1, <2>2 DEF socket_open, socket_close, socket_recvfrom
  <2> QED BY <1>11, <2>1, <2>2 DEF ClientCalls
<1>12. ASSUME Tick PROVE Kept
  BY <1>1, <1>12 DEF Tick
<1> QED
  BY <1>4, <1>5, <1>6, <1>8, <1>9, <1>10, <1>11, <1>12 DEF PopNext, pop_service_thread

(* A socket that frames are queued for stays bound to its port, unless it   *)
(* is closed.                                                               *)
LEMMA BoundStep ==
    ASSUME PopInv, ~Halted, PopNext, ~reused', NEW i \in LiveSlots, NEW t \in Sockets,
           pop_queue[i].socket = t, InUse(t)
    PROVE  /\ open_sockets'[t].protocol # "none"
           /\ open_sockets'[t].port = open_sockets[t].port
<1> DEFINE Bound == /\ open_sockets'[t].protocol # "none"
                    /\ open_sockets'[t].port = open_sockets[t].port
<1>a. PopTypeOK /\ ServiceOK
  BY DEF PopInv, Halted
<1> USE DEF tableVars, queueVars, poolVars, threadVars, historyVars
<1>1. ASSUME open_sockets'[t] = open_sockets[t] PROVE Bound
  BY <1>1 DEF InUse
<1>2. ASSUME pop_service_thread_copy \/ pop_service_thread_clear PROVE Bound
  <2>1. Target \in Sockets
    BY <1>a, <1>2 DEF ServiceOK, pop_service_thread_copy, pop_service_thread_clear
  <2>2. CASE pop_service_thread_copy
    BY <1>a, <2>1, <2>2 DEF pop_service_thread_copy, PopTypeOK, SocketType, InUse
  <2>3. CASE pop_service_thread_clear
    BY <1>a, <2>1, <2>3 DEF pop_service_thread_clear, PopTypeOK, SocketType, InUse
  <2> QED BY <1>2, <2>2, <2>3
<1>3. ASSUME NEW c \in Clients, NEW protocol \in Protocols, NEW port \in Ports \cup {0},
             socket_open(c, protocol, port)
      PROVE  Bound
  <2>1. PICK f \in Sockets : f = Min(FreeSockets) /\ ~InUse(f)
    BY <1>3, FreeSocketFound DEF socket_open
  <2>2. \E r : open_sockets' = [open_sockets EXCEPT ![f] = r]
    BY <1>3, <2>1 DEF socket_open
  <2>3. open_sockets'[t] = open_sockets[t]
    BY <1>a, <2>1, <2>2 DEF PopTypeOK
  <2> QED BY <1>1, <2>3
<1>4. ASSUME NEW c \in Clients, NEW s \in Sockets, socket_close(c, s) PROVE Bound
  <2>1. s # t
    BY <1>4 DEF socket_close, LiveSlots, Queued, EmptySlots
  <2>2. open_sockets'[t] = open_sockets[t]
    BY <1>a, <1>4, <2>1 DEF socket_close, PopTypeOK
  <2> QED BY <1>1, <2>2
<1>5. ASSUME NEW c \in Clients, NEW s \in Sockets, socket_recvfrom(c, s) PROVE Bound
  <2>1. PICK o : o = [open_sockets EXCEPT ![s].rbuf = c]
    OBVIOUS
  <2>2. open_sockets' = [o EXCEPT ![s].ret = c]
    BY <1>5, <2>1 DEF socket_recvfrom
  <2>3. /\ o \in [Sockets -> SocketType] /\ o[t].port = open_sockets[t].port
        /\ o[t].protocol = open_sockets[t].protocol
    BY <1>a, <2>1 DEF PopTypeOK, SocketType
  <2>4. open_sockets'[t].port = o[t].port /\ open_sockets'[t].protocol = o[t].protocol
    BY <2>2, <2>3 DEF SocketType
  <2> QED BY <2>3, <2>4 DEF InUse
<1>6. ASSUME \/ pop_service_thread_scan \/ pop_service_thread_discard \/ pop_service_thread_wake
             \/ pop_service_thread_empty \/ pop_service_thread_sleep
             \/ \E n \in Interfaces : network_receive_thread(n)
             \/ \E n \in Interfaces, frame \in Ports \cup {Unknown} : gnd_recv(n, frame)
             \/ \E c \in Clients : ClientContinues(c)
             \/ \E c \in Clients, s \in Sockets, dport \in Ports \cup {Elsewhere} :
                   socket_sendto(c, s, dport)
             \/ Tick
      PROVE  Bound
  <2>1. UNCHANGED open_sockets
    BY <1>6 DEF pop_service_thread_scan, pop_service_thread_discard, pop_service_thread_wake,
                pop_service_thread_empty, pop_service_thread_sleep, network_receive_thread,
                network_receive_thread_page, network_receive_frame, gnd_recv, ClientContinues,
                network_send_free, pop_push_frame_loopback, socket_recvfrom_return,
                socket_sendto, Tick
  <2> QED BY <1>1, <2>1
<1> QED BY <1>2, <1>3, <1>4, <1>5, <1>6 DEF PopNext, pop_service_thread, ClientCalls

(* Every step that leaves the service thread alone leaves to a receiver     *)
(* what it got, or gives it nothing.                                        *)
LEMMA GotStep ==
    ASSUME PopInv, ~Halted, PopNext, ~pop_service_thread_copy, NEW c \in Clients
    PROVE  \/ client'[c].got = 0
           \/ client'[c].got = client[c].got /\ client'[c].port = client[c].port
<1> DEFINE Keeps == \/ client'[c].got = 0
                    \/ client'[c].got = client[c].got /\ client'[c].port = client[c].port
<1>a. PopTypeOK
  BY DEF PopInv
<1> USE DEF tableVars, queueVars, poolVars, threadVars, historyVars
<1>1. ASSUME UNCHANGED client PROVE Keeps
  BY <1>1
<1>2. ASSUME NEW d \in Clients, NEW r, client' = [client EXCEPT ![d] = r], r.got = 0 PROVE Keeps
  BY <1>a, <1>2 DEF PopTypeOK
<1>3. ASSUME NEW d \in Clients, ClientContinues(d) PROVE Keeps
  <2>1. CASE client' = [client EXCEPT ![d] = Outside]
    BY <1>2, <2>1 DEF Outside
  <2>2. CASE client' = [client EXCEPT ![d].pc = "free"]
    BY <1>a, <2>2 DEF PopTypeOK, ClientType
  <2> QED BY <1>3, <2>1, <2>2
          DEF ClientContinues, network_send_free, pop_push_frame_loopback, socket_recvfrom_return
<1>4. ASSUME NEW d \in Clients, NEW s \in Sockets, NEW dport \in Ports \cup {Elsewhere},
             socket_sendto(d, s, dport)
      PROVE  Keeps
  <2>1. PICK q : q = IF dport = Elsewhere THEN "free" ELSE "push"
    OBVIOUS
  <2>2. client' = [client EXCEPT ![d] = [Outside EXCEPT !.page = FirstPage, !.pc = q]]
    BY <1>4, <2>1 DEF socket_sendto
  <2>3. [Outside EXCEPT !.page = FirstPage, !.pc = q].got = 0
    BY DEF Outside
  <2> QED BY <1>2, <2>2, <2>3
<1>5. ASSUME NEW d \in Clients, NEW s \in Sockets, socket_recvfrom(d, s) PROVE Keeps
  <2>1. client' = [client EXCEPT ![d] = [Outside EXCEPT !.pc = "recv", !.s = s,
                                                        !.port = open_sockets[s].port]]
    BY <1>5 DEF socket_recvfrom
  <2>2. [Outside EXCEPT !.pc = "recv", !.s = s, !.port = open_sockets[s].port].got = 0
    BY DEF Outside
  <2> QED BY <1>2, <2>1, <2>2
<1>6. ASSUME \/ pop_service_thread
             \/ \E n \in Interfaces : network_receive_thread(n)
             \/ \E n \in Interfaces, frame \in Ports \cup {Unknown} : gnd_recv(n, frame)
             \/ \E d \in Clients, protocol \in Protocols, port \in Ports \cup {0} :
                   socket_open(d, protocol, port)
             \/ \E d \in Clients, s \in Sockets : socket_close(d, s)
             \/ Tick
      PROVE  Keeps
  <2>1. UNCHANGED client
    BY <1>6 DEF pop_service_thread, pop_service_thread_scan, pop_service_thread_discard,
                pop_service_thread_clear, pop_service_thread_wake, pop_service_thread_empty,
                pop_service_thread_sleep, network_receive_thread, network_receive_thread_page,
                network_receive_frame, gnd_recv, socket_open, socket_close, Tick
  <2> QED BY <1>1, <2>1
<1> QED BY <1>3, <1>4, <1>5, <1>6 DEF PopNext, ClientCalls

(* A receiver is given what its port was sent. *)
LEMMA DeliveredStep ==
    ASSUME PopInv, DeliveredToPort, [PopNext]_vars
    PROVE  DeliveredToPort'
<1> USE DEF tableVars, queueVars, poolVars, threadVars, historyVars
<1>1. CASE UNCHANGED vars
  BY <1>1 DEF vars, DeliveredToPort, QueuedForPort, LiveSlots, Queued, EmptySlots, InUse
<1>2. ASSUME PopNext, ~raced', ~reused'
      PROVE  QueuedForPort' /\ \A c \in Clients : client'[c].got \in {0, client'[c].port}
  <2>a. ~Halted /\ PopTypeOK /\ FramesOK /\ ServiceOK /\ ReceiversOK
    BY <1>2 DEF PopNext, PopInv, Halted
  <2>b. ~reused
    <3>1. reused' = reused \/ \E c \in Clients, s \in Sockets : socket_close(c, s)
      BY <1>2 DEF PopNext, pop_service_thread, pop_service_thread_scan,
                  pop_service_thread_discard, pop_service_thread_copy, pop_service_thread_clear,
                  pop_service_thread_wake, pop_service_thread_empty, pop_service_thread_sleep,
                  network_receive_thread, network_receive_thread_page, network_receive_frame,
                  gnd_recv, ClientContinues, network_send_free, pop_push_frame_loopback,
                  socket_recvfrom_return, ClientCalls, socket_open, socket_sendto,
                  socket_recvfrom, Tick
    <3>2. (\E c \in Clients, s \in Sockets : socket_close(c, s)) => (reused => reused')
      BY DEF socket_close
    <3> QED BY <1>2, <3>1, <3>2
  <2>c. QueuedForPort /\ \A c \in Clients : client[c].got \in {0, client[c].port}
    BY <2>a, <2>b DEF DeliveredToPort, Halted
  <2>1. QueuedForPort'
    <3>1. CASE pop_service_thread_scan
      <4>1. /\ UNCHANGED <<open_sockets, mem>> /\ service.pc = "scan"
            /\ service'.pc \in {"sleep", "copy", "discard"}
            /\ \A i \in Slots : /\ pop_queue'[i].frame = pop_queue[i].frame
                                /\ \/ pop_queue'[i].socket = pop_queue[i].socket
                                   \/ i \in Queued /\ pop_queue'[i].socket = SocketOf(i)
        BY <2>a, <3>1, ScanResult DEF pop_service_thread_scan
      <4>2. LiveSlots' = LiveSlots /\ LiveSlots \subseteq Slots
        BY <4>1 DEF LiveSlots, Queued, EmptySlots
      <4>3. ASSUME NEW i \in LiveSlots, pop_queue'[i].socket # NoSocket
            PROVE  /\ open_sockets[pop_queue'[i].socket].protocol # "none"
                   /\ open_sockets[pop_queue'[i].socket].port = mem[pop_queue[i].frame]
        <5>1. CASE pop_queue'[i].socket = pop_queue[i].socket
          BY <2>c, <4>3, <5>1 DEF QueuedForPort, InUse
        <5>2. CASE pop_queue'[i].socket = SocketOf(i)
          <6>1. pop_queue[i].socket # NoSocket => SocketOf(i) = pop_queue[i].socket
            BY <2>a, <4>2, SocketFound
          <6>2. pop_queue[i].socket = NoSocket =>
                   InUse(SocketOf(i)) /\ open_sockets[SocketOf(i)].port = mem[pop_queue[i].frame]
            BY <2>a, <4>2, <4>3, <5>2, SocketFound
          <6> QED BY <2>c, <4>3, <5>2, <6>1, <6>2 DEF QueuedForPort, InUse
        <5> QED BY <4>1, <4>2, <5>1, <5>2
      <4> QED BY <4>1, <4>2, <4>3 DEF QueuedForPort, InUse
    <3>2. CASE ~pop_service_thread_scan
      <4>1. \A i \in LiveSlots' : pop_queue'[i].socket # NoSocket =>
              /\ i \in LiveSlots /\ pop_queue'[i].socket = pop_queue[i].socket
              /\ mem'[pop_queue'[i].frame] = mem[pop_queue[i].frame]
        BY <1>2, <2>a, <3>2, QueuedStep
      <4>2. ASSUME NEW i \in LiveSlots, pop_queue[i].socket # NoSocket, InUse(pop_queue[i].socket)
            PROVE  /\ open_sockets'[pop_queue[i].socket].protocol # "none"
                   /\ open_sockets'[pop_queue[i].socket].port = open_sockets[pop_queue[i].socket].port
        <5>1. pop_queue[i].socket \in Sockets
          BY <2>a, <4>2, Fields DEF LiveSlots, Queued
        <5> QED BY <1>2, <2>a, <4>2, <5>1, BoundStep
      <4> QED BY <2>c, <4>1, <4>2, QueuedSame
    <3> QED BY <3>1, <3>2
  <2>2. ASSUME NEW c \in Clients PROVE client'[c].got \in {0, client'[c].port}
    <3>1. CASE pop_service_thread_copy
      <4>1. PICK t \in Sockets : t = Target /\ open_sockets[t].rbuf # Nobody
        BY <2>a, <3>1 DEF pop_service_thread_copy, ServiceOK, ReceiversOK
      <4>5. /\ service.slot \in LiveSlots /\ service.f = pop_queue[service.slot].frame
            /\ pop_queue[service.slot].socket = t
        BY <2>a, <3>1, <4>1, Fields
        DEF pop_service_thread_copy, ServiceOK, LiveSlots, Queued, EmptySlots, Target
      <4>6. open_sockets[t].port = mem[service.f]
        BY <2>c, <4>5, Sizes DEF QueuedForPort
      <4>7. client'[c] = IF c = open_sockets[t].rbuf /\ client[c].s = t
                         THEN [client[c] EXCEPT !.got = open_sockets[t].port] ELSE client[c]
        BY <3>1, <4>1, <4>6 DEF pop_service_thread_copy
      <4>8. client[c] \in ClientType
        BY <2>a DEF PopTypeOK
      <4>9. client[c].s = t => open_sockets[t].port = client[c].port
        BY <2>a, Sizes DEF ReceiversOK
      <4>10. CASE c = open_sockets[t].rbuf /\ client[c].s = t
        BY <4>7, <4>8, <4>9, <4>10 DEF ClientType
      <4>11. CASE ~(c = open_sockets[t].rbuf /\ client[c].s = t)
        BY <2>c, <4>7, <4>11
      <4> QED BY <4>10, <4>11
    <3>2. CASE ~pop_service_thread_copy
      BY <1>2, <2>a, <2>c, <3>2, GotStep
    <3> QED BY <3>1, <3>2
  <2> QED BY <2>1, <2>2
<1>3. CASE PopNext
  BY <1>2, <1>3 DEF DeliveredToPort
<1> QED BY <1>1, <1>3

(* Who called socket_recvfrom gets only what was sent to the port its       *)
(* socket was bound to when it called, for any number of sockets, frames    *)
(* and threads - as long as no socket is closed that frames are queued for. *)
THEOREM DeliveredInvariant == PopSpec => []DeliveredToPort
<1>1. PopInit => DeliveredToPort
  BY DEF PopInit, DeliveredToPort, QueuedForPort, LiveSlots, Queued, EmptySlots, EmptySlot, Outside
<1>2. PopInv /\ DeliveredToPort /\ [PopNext]_vars => DeliveredToPort'
  BY DeliveredStep
<1> QED BY <1>1, <1>2, PopInvariant, PTL DEF PopSpec

(* socket_recvfrom returns only after a packet was copied to the buffer of  *)
(* that very call, for any number of sockets and threads, unless another    *)
(* call was let into the socket since the last time it was quiet - which    *)
(* the code does as soon as the service thread has taken the buffer out.    *)
THEOREM ReturnsOnlyWithPacket == PopSpec => ReturnsWithPacket
<1> DEFINE Returns ==
             \A c \in Clients :
                client[c].pc = "recv" /\ client'[c].pc = "out" /\ client[c].s \notin crowded =>
                   client[c].got # 0
<1>1. ASSUME PopInv, [PopNext]_vars PROVE [Returns]_vars
  <2> SUFFICES ASSUME PopNext, NEW c \in Clients, client[c].pc = "recv", client'[c].pc = "out",
                      client[c].s \notin crowded
               PROVE  client[c].got # 0
    BY <1>1
  <2>a. PopTypeOK /\ ReceiversOK
    BY <1>1 DEF PopNext, PopInv, Halted
  <2> USE DEF tableVars, queueVars, poolVars, threadVars, historyVars
  <2>1. CASE socket_recvfrom_return(c)
    <3>1. complete[client[c].s] > 0
      BY <2>1 DEF socket_recvfrom_return
    <3>2. ~AwaitsPacket(c)
      BY <3>1 DEF AwaitsPacket
    <3> QED BY <2>a, <3>2 DEF ReceiversOK, HasPacket
  <2>2. ASSUME NEW d \in Clients,
               ClientContinues(d) \/ ClientCalls(d), ~socket_recvfrom_return(c)
        PROVE  client'[c].pc # "out"
    <3>0. ASSUME NEW r, client' = [client EXCEPT ![d] = r], c # d PROVE client'[c].pc # "out"
      BY <2>a, <3>0 DEF PopTypeOK
    <3>1. CASE c # d
      <4>1. UNCHANGED client \/ \E r : client' = [client EXCEPT ![d] = r]
        BY <2>2 DEF ClientContinues, ClientCalls, network_send_free, pop_push_frame_loopback,
                    socket_recvfrom_return, socket_open, socket_close, socket_sendto,
                    socket_recvfrom
      <4> QED BY <3>0, <3>1, <4>1
    <3>2. CASE c = d
      BY <2>2, <3>2 DEF ClientContinues, ClientCalls, network_send_free, pop_push_frame_loopback,
                        socket_open, socket_close, socket_sendto, socket_recvfrom
    <3> QED BY <3>1, <3>2
  <2>3. ASSUME \/ pop_service_thread
               \/ \E n \in Interfaces : network_receive_thread(n)
               \/ \E n \in Interfaces, frame \in Ports \cup {Unknown} : gnd_recv(n, frame)
               \/ Tick
        PROVE  client'[c].pc = client[c].pc
    <3>1. CASE pop_service_thread_copy
      BY <2>a, <3>1 DEF pop_service_thread_copy, PopTypeOK, ClientType
    <3>2. CASE ~pop_service_thread_copy
      BY <2>3, <3>2 DEF pop_service_thread, pop_service_thread_scan, pop_service_thread_discard,
                pop_service_thread_clear, pop_service_thread_wake, pop_service_thread_empty,
                pop_service_thread_sleep, network_receive_thread, network_receive_thread_page,
                network_receive_frame, gnd_recv, Tick
    <3> QED BY <3>1, <3>2
  <2> QED BY <2>1, <2>2, <2>3 DEF PopNext
<1> QED BY <1>1, PopInvariant, PTL DEF PopSpec, ReturnsWithPacket
=============================================================================
