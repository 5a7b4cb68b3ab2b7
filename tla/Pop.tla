---------------------------------- MODULE Pop ----------------------------------
(***************************************************************************)
(* The network of Buenos above its devices: sockets (net/socket.c), the     *)
(* packet protocol POP (net/pop.c) and the frame layer (net/network.c,      *)
(* net/protocols.c), with the page pool they take their frames from         *)
(* (vm/pagepool.c).                                                         *)
(*                                                                          *)
(* A section of code under open_sockets_sem, pop_queue_sem or               *)
(* pagepool_slock is one step; what runs between two sections, and the      *)
(* service thread's work on a frame, which takes no lock, is cut where      *)
(* another thread could see the difference.  A frame is the number of the   *)
(* port it is for.  Device, wire and clock are the environment: a frame     *)
(* arrives, or never does, for any port and any protocol.                   *)
(***************************************************************************)
EXTENDS Integers, FiniteSets, FiniteSetsExt

CONSTANTS
    NumPages,     \* pages of the pool that the network uses
    MaxSockets,   \* CONFIG_MAX_OPEN_SOCKETS
    QueueSize,    \* CONFIG_POP_QUEUE_SIZE
    MinAge,       \* CONFIG_POP_QUEUE_MIN_AGE
    MaxPort,      \* ports are 1 .. MaxPort
    Clients,      \* threads that call the socket functions
    Interfaces,   \* the network devices, each with its receiving thread
    Protocols,    \* protocols that sockets are opened for
    MaxFrames,    \* bound: frames that arrive or are sent
    MaxTime       \* bound: ticks of the clock

ASSUME PopAssumption ==
    /\ NumPages \in Nat \ {0} /\ MaxSockets \in Nat \ {0} /\ QueueSize \in Nat \ {0}
    /\ MinAge \in Nat /\ MaxPort \in Nat /\ MaxFrames \in Nat /\ MaxTime \in Nat
    /\ MaxPort >= MaxSockets /\ Protocols \subseteq {"pop", "sop"}
    /\ IsFiniteSet(Interfaces) /\ IsFiniteSet(Clients) /\ "nobody" \notin Clients

VARIABLES
    pool,          \* pagepool_free_pages: the pages that are free
    mem,           \* what each page holds: the port of a frame, or Junk, or Unknown
    open_sockets,  \* the table of sockets
    complete,      \* value of each socket's receive_complete
    pop_queue,     \* the queue of frames
    service,       \* the service thread
    service_sem,   \* value of pop_service_thread_sem
    receiver,      \* the receiving thread of each interface
    client,        \* the threads that use sockets
    now,           \* rtc_get_msec
    frames,        \* frames that were sent or arrived so far
    panicked,      \* an assertion failed or a null pointer was used
    raced,         \* history: a frame was replaced that was being discarded
    reused,        \* history: a socket was closed that frames were queued for
    crowded        \* history: the sockets that, since nobody received from them,
                   \* more than one thread was receiving from at a time

tableVars   == <<open_sockets, complete>>
queueVars   == <<pop_queue, service, service_sem>>
poolVars    == <<pool, mem>>
threadVars  == <<receiver, client>>
historyVars == <<raced, reused, crowded>>
vars == <<poolVars, tableVars, queueVars, threadVars, historyVars, now, frames, panicked>>

Pages      == 1 .. NumPages
NoPage     == 0
Sockets    == 0 .. (MaxSockets - 1)
NoSocket   == -1
Slots      == 0 .. (QueueSize - 1)
Ports      == 1 .. MaxPort
Junk       == 0
Elsewhere  == 0       \* a port of another host
Unknown    == -1      \* a frame of a protocol that has no handler
Nobody     == "nobody"
SendBuffer == 1       \* the page that pop_init keeps

(* The entries as socket_init and pop_init leave them. *)
FreeSocket == [protocol |-> "none", port |-> 0, rbuf |-> Nobody, ret |-> Nobody]
EmptySlot  == [frame |-> NoPage, socket |-> NoSocket, stamp |-> 0, busy |-> FALSE]

(* A thread outside of the socket functions.  Inside, it knows its socket,  *)
(* the port of that socket when it called, the page it sends and, when it   *)
(* receives, what was copied to its buffer.                                 *)
Outside == [pc |-> "out", s |-> NoSocket, port |-> 0, page |-> NoPage, got |-> 0]

PopInit ==
    /\ pool = Pages \ {SendBuffer}
    /\ mem = [p \in Pages |-> Junk]
    /\ open_sockets = [s \in Sockets |-> FreeSocket]
    /\ complete = [s \in Sockets |-> 0]
    /\ pop_queue = [i \in Slots |-> EmptySlot]
    /\ service = [pc |-> "scan", slot |-> 0, f |-> NoPage]
    /\ service_sem = 0
    /\ receiver = [n \in Interfaces |-> [pc |-> "page", page |-> NoPage]]
    /\ client = [c \in Clients |-> Outside]
    /\ now = 0
    /\ frames = 0
    /\ panicked = FALSE
    /\ raced = FALSE
    /\ reused = FALSE
    /\ crowded = {}
-----------------------------------------------------------------------------
(* pagepool_free_phys_page asserts that the page was reserved.  What a free *)
(* page holds is of no interest to anyone.                                  *)
FreePage(p) ==
    /\ panicked' = (p \in pool)
    /\ pool' = pool \cup {p}
    /\ mem' = [mem EXCEPT ![p] = Junk]

(* A frame is given back with its page. *)
network_free_frame(page) == FreePage(page)

(* pagepool_get_phys_page takes the first free page. *)
FirstPage == Min(pool)

(* protocols_get_frame_handler knows only POP. *)
HasHandler(frame) == frame # Unknown
-----------------------------------------------------------------------------
(* socket.c *)

InUse(s) == open_sockets[s].protocol # "none"

PortsInUse == {open_sockets[s].port : s \in {t \in Sockets : InUse(t)}}

FreeSockets == {s \in Sockets : ~InUse(s)}

(* The port a socket gets: the one asked for if nobody has it, for 0 the    *)
(* first one that nobody has.                                               *)
PortFor(port) == IF port = 0 THEN {Min(Ports \ PortsInUse)} ELSE {port} \ PortsInUse

(* A call that fails (table full, port taken, no semaphore) changes nothing. *)
socket_open(c, protocol, port) ==
    /\ client[c].pc = "out"
    /\ FreeSockets # {}
    /\ \E p \in PortFor(port) :
          LET s == Min(FreeSockets) IN
          /\ open_sockets' = [open_sockets EXCEPT ![s] =
                                [@ EXCEPT !.port = p, !.protocol = protocol, !.rbuf = Nobody]]
          /\ complete' = [complete EXCEPT ![s] = 0]
    /\ UNCHANGED <<poolVars, queueVars, threadVars, historyVars, now, frames, panicked>>

(* The threads inside of socket_recvfrom on a socket. *)
Callers(s) == {c \in Clients : client[c].s = s}

(* A socket is not closed while someone receives from it: "the socket must  *)
(* not be used after this operation".                                       *)
socket_close(c, s) ==
    /\ client[c].pc = "out"
    /\ InUse(s)
    /\ Callers(s) = {}
    /\ open_sockets' = [open_sockets EXCEPT ![s] = FreeSocket]
    /\ reused' = (reused \/ \E i \in Slots : pop_queue[i].frame # NoPage /\ pop_queue[i].socket = s)
    /\ UNCHANGED <<poolVars, complete, queueVars, threadVars, raced, crowded, now, frames,
                   panicked>>
-----------------------------------------------------------------------------
(* pop.c: sending *)

(* One thread at a time has the send buffer, and a page for its frame. *)
Sending == {c \in Clients : client[c].page # NoPage}

(* network_send up to the sending: it takes a page and fills it.  Without a *)
(* page the call fails and changes nothing.                                 *)
network_send_page(dport) ==
    /\ pool # {}
    /\ pool' = pool \ {FirstPage}
    /\ mem' = [mem EXCEPT ![FirstPage] = dport]

(* socket_sendto: the socket must be one of POP.  It locks the send buffer  *)
(* and sends to a port of this host (loopback) or to another host.          *)
socket_sendto(c, s, dport) ==
    /\ client[c].pc = "out"
    /\ frames < MaxFrames
    /\ open_sockets[s].protocol = "pop"
    /\ Sending = {}
    /\ network_send_page(dport)
    /\ client' = [client EXCEPT ![c] = [Outside EXCEPT !.page = FirstPage,
                                           !.pc = IF dport = Elsewhere THEN "free" ELSE "push"]]
    /\ frames' = frames + 1
    /\ UNCHANGED <<tableVars, queueVars, receiver, historyVars, now, panicked>>

(* The frame went out through every interface, or was not accepted by the   *)
(* queue: its page is given back and the send buffer unlocked.              *)
network_send_free(c) ==
    /\ client[c].pc = "free"
    /\ FreePage(client[c].page)
    /\ client' = [client EXCEPT ![c] = Outside]
    /\ UNCHANGED <<tableVars, queueVars, receiver, historyVars, now, frames>>
-----------------------------------------------------------------------------
(* pop.c: the queue *)

EmptySlots == {i \in Slots : pop_queue[i].frame = NoPage}

(* The oldest slot that is not busy; of several the first. *)
OldestSlots ==
    LET quiet == {i \in Slots : ~pop_queue[i].busy}
    IN  {i \in quiet : \A j \in quiet : \/ pop_queue[i].stamp < pop_queue[j].stamp
                                        \/ pop_queue[i].stamp = pop_queue[j].stamp /\ i <= j}

Aged(i) == now - pop_queue[i].stamp >= MinAge

(* Where pop_push_frame puts a frame: at most one slot, none when the queue *)
(* is full of frames that are too young to be replaced.                     *)
PushSlot == IF EmptySlots # {} THEN {Min(EmptySlots)} ELSE {i \in OldestSlots : Aged(i)}

(* As if the page of a replaced frame were forgotten. *)
MakeRoom_leaks(i) == UNCHANGED <<poolVars, panicked>>

(* Before a frame takes the place of another the other's page is freed.     *)
MakeRoom(i) ==
    IF pop_queue[i].frame # NoPage THEN network_free_frame(pop_queue[i].frame)
                                   ELSE UNCHANGED <<poolVars, panicked>>

(* pop_push_frame when it accepts a frame, the signal to the service thread *)
(* included.                                                                *)
Accept(page, i) ==
    /\ MakeRoom(i)
    /\ pop_queue' = [pop_queue EXCEPT ![i] = [EmptySlot EXCEPT !.frame = page, !.stamp = now]]
    /\ service_sem' = service_sem + 1
    /\ raced' = (raced \/ (service.pc \in {"discard", "empty"} /\ service.slot = i))

(* A frame this host sent to itself. *)
pop_push_frame_loopback(c) ==
    /\ client[c].pc = "push"
    /\ \/ \E i \in PushSlot :
             /\ Accept(client[c].page, i)
             /\ client' = [client EXCEPT ![c] = Outside]
       \/ /\ PushSlot = {}
          /\ client' = [client EXCEPT ![c].pc = "free"]
          /\ UNCHANGED <<poolVars, pop_queue, service_sem, panicked, raced>>
    /\ UNCHANGED <<tableVars, service, receiver, reused, crowded, now, frames>>
-----------------------------------------------------------------------------
(* network.c: the thread of an interface *)

(* A frame needs a page; without one the kernel stops. *)
network_receive_thread_page(n) ==
    /\ receiver[n].pc = "page"
    /\ IF pool = {}
       THEN /\ panicked' = TRUE
            /\ UNCHANGED <<pool, receiver>>
       ELSE /\ pool' = pool \ {FirstPage}
            /\ receiver' = [receiver EXCEPT ![n] = [pc |-> "recv", page |-> FirstPage]]
            /\ UNCHANGED panicked
    /\ UNCHANGED <<mem, tableVars, queueVars, client, historyVars, now, frames>>

(* gnd->recv: a frame of POP for some port, or one of another protocol.  A  *)
(* receive that fails leaves everything as it is.                           *)
gnd_recv(n, frame) ==
    /\ receiver[n].pc = "recv"
    /\ frames < MaxFrames
    /\ mem' = [mem EXCEPT ![receiver[n].page] = frame]
    /\ receiver' = [receiver EXCEPT ![n].pc = "push"]
    /\ frames' = frames + 1
    /\ UNCHANGED <<pool, tableVars, queueVars, client, historyVars, now, panicked>>

(* network_receive_frame finds the protocol's handler: only POP has one.  A *)
(* frame that nobody takes leaves its page to the next frame.               *)
network_receive_frame(n) ==
    /\ receiver[n].pc = "push"
    /\ LET page == receiver[n].page
           slot == IF HasHandler(mem[page]) THEN PushSlot ELSE {}
       IN  \/ \E i \in slot :
                 /\ Accept(page, i)
                 /\ receiver' = [receiver EXCEPT ![n] = [pc |-> "page", page |-> NoPage]]
           \/ /\ slot = {}
              /\ receiver' = [receiver EXCEPT ![n].pc = "recv"]
              /\ UNCHANGED <<poolVars, pop_queue, service_sem, panicked, raced>>
    /\ UNCHANGED <<tableVars, service, client, reused, crowded, now, frames>>
-----------------------------------------------------------------------------
(* pop.c: receiving *)

(* socket_recvfrom up to its wait: it says where the packet is to go and    *)
(* wakes the service thread, for a packet may be there already.  The call   *)
(* fails while the socket has a buffer; it does not look for threads that   *)
(* still wait to be signalled after their buffer was taken out.             *)
socket_recvfrom(c, s) ==
    /\ client[c].pc = "out"
    /\ open_sockets[s].protocol = "pop"
    /\ open_sockets[s].rbuf = Nobody
    /\ open_sockets' = [open_sockets EXCEPT ![s].rbuf = c, ![s].ret = c]
    /\ service_sem' = service_sem + 1
    /\ client' = [client EXCEPT ![c] = [Outside EXCEPT !.pc = "recv", !.s = s,
                                                       !.port = open_sockets[s].port]]
    /\ crowded' = IF Callers(s) = {} THEN crowded ELSE crowded \cup {s}
    /\ UNCHANGED <<poolVars, complete, pop_queue, service, receiver, raced, reused,
                   now, frames, panicked>>

(* The wait on receive_complete is over, for whoever waits there. *)
socket_recvfrom_return(c) ==
    /\ client[c].pc = "recv"
    /\ complete[client[c].s] > 0
    /\ complete' = [complete EXCEPT ![client[c].s] = @ - 1]
    /\ client' = [client EXCEPT ![c] = Outside]
    /\ crowded' = IF Callers(client[c].s) = {c} THEN crowded \ {client[c].s} ELSE crowded
    /\ UNCHANGED <<poolVars, open_sockets, queueVars, receiver, raced, reused, now, frames,
                   panicked>>
-----------------------------------------------------------------------------
(* pop.c: the service thread *)

(* As if the first socket of POP were taken, whatever its port. *)
SocketOf_any(i) ==
    LET found == {s \in Sockets : open_sockets[s].protocol = "pop"}
    IN  IF pop_queue[i].socket # NoSocket THEN pop_queue[i].socket
        ELSE IF found = {} THEN NoSocket ELSE Min(found)

(* The socket a queued frame is for: looked up once, by its port.           *)
SocketOf(i) ==
    LET found == {s \in Sockets : /\ open_sockets[s].protocol = "pop"
                                  /\ open_sockets[s].port = mem[pop_queue[i].frame]}
    IN  IF pop_queue[i].socket # NoSocket THEN pop_queue[i].socket
        ELSE IF found = {} THEN NoSocket ELSE Min(found)

Unlistened(i) == SocketOf(i) = NoSocket \/ open_sockets[SocketOf(i)].protocol # "pop"

Wanted(i) == ~Unlistened(i) /\ open_sockets[SocketOf(i)].rbuf # Nobody

Queued == Slots \ EmptySlots

(* The slots that the scan passes over or stops at remember their socket.   *)
Scanned(last) ==
    [i \in Slots |-> IF i \in Queued /\ i <= last
                     THEN [pop_queue[i] EXCEPT !.socket = SocketOf(i)] ELSE pop_queue[i]]

(* The scan under both locks stops at the first frame that nobody listens   *)
(* for or that somebody waits for, and marks the latter busy.               *)
pop_service_thread_scan ==
    /\ service.pc = "scan"
    /\ LET ready == {i \in Queued : Unlistened(i) \/ Wanted(i)} IN
       IF ready = {}
       THEN /\ pop_queue' = Scanned(QueueSize)
            /\ service' = [service EXCEPT !.pc = "sleep"]
       ELSE LET i == Min(ready) IN
            /\ pop_queue' = [Scanned(i) EXCEPT ![i].busy = @ \/ Wanted(i)]
            /\ service' = [pc |-> IF Wanted(i) THEN "copy" ELSE "discard",
                           slot |-> i, f |-> pop_queue[i].frame]
    /\ UNCHANGED <<poolVars, tableVars, service_sem, threadVars, historyVars, now, frames, panicked>>

(* POP_ACTION_DISCARD, first half: the page is freed. *)
pop_service_thread_discard ==
    /\ service.pc = "discard"
    /\ network_free_frame(service.f)
    /\ service' = [service EXCEPT !.pc = "empty"]
    /\ UNCHANGED <<tableVars, pop_queue, service_sem, threadVars, historyVars, now, frames>>

(* The last write of both actions marks the slot as free.  What else the    *)
(* slot holds is not looked at before the next frame overwrites it.         *)
pop_service_thread_empty ==
    /\ service.pc = "empty"
    /\ pop_queue' = [pop_queue EXCEPT ![service.slot] = EmptySlot]
    /\ service' = [pc |-> "scan", slot |-> 0, f |-> NoPage]
    /\ UNCHANGED <<poolVars, tableVars, service_sem, threadVars, historyVars, now, frames, panicked>>

Target == pop_queue[service.slot].socket

(* POP_ACTION_TRANSFER: the payload is copied, the sender and the length    *)
(* are stored, and the buffer is taken out of the socket.  The call may     *)
(* have returned without its packet: then nobody gets this one.             *)
pop_service_thread_copy ==
    /\ service.pc = "copy"
    /\ panicked' = (Nobody \in {open_sockets[Target].rbuf, open_sockets[Target].ret})
    /\ client' = [c \in Clients |->
                    IF c = open_sockets[Target].rbuf /\ client[c].s = Target
                    THEN [client[c] EXCEPT !.got = mem[service.f]] ELSE client[c]]
    /\ open_sockets' = [open_sockets EXCEPT ![Target].rbuf = Nobody]
    /\ service' = [service EXCEPT !.pc = "clear"]
    /\ UNCHANGED <<poolVars, complete, pop_queue, service_sem, receiver, historyVars,
                   now, frames>>

(* The places for the results are taken out of the socket and the page is   *)
(* freed.                                                                   *)
pop_service_thread_clear ==
    /\ service.pc = "clear"
    /\ open_sockets' = [open_sockets EXCEPT ![Target].ret = Nobody]
    /\ network_free_frame(service.f)
    /\ service' = [service EXCEPT !.pc = "wake"]
    /\ UNCHANGED <<complete, pop_queue, service_sem, threadVars, historyVars, now, frames>>

(* As if the receiver were signalled twice. *)
pop_service_thread_wake_twice ==
    /\ service.pc = "wake"
    /\ complete' = [complete EXCEPT ![Target] = @ + 2]
    /\ service' = [service EXCEPT !.pc = "empty"]
    /\ UNCHANGED <<poolVars, open_sockets, pop_queue, service_sem, threadVars, historyVars, now,
                   frames, panicked>>

(* As if the receiver were not signalled. *)
pop_service_thread_wake_nobody ==
    /\ service.pc = "wake"
    /\ service' = [service EXCEPT !.pc = "empty"]
    /\ UNCHANGED <<poolVars, tableVars, pop_queue, service_sem, threadVars, historyVars, now,
                   frames, panicked>>

(* The receiver's wait is over. *)
pop_service_thread_wake ==
    /\ service.pc = "wake"
    /\ complete' = [complete EXCEPT ![Target] = @ + 1]
    /\ service' = [service EXCEPT !.pc = "empty"]
    /\ UNCHANGED <<poolVars, open_sockets, pop_queue, service_sem, threadVars, historyVars, now,
                   frames, panicked>>

(* Nothing was to be done: the thread waits for its signal. *)
pop_service_thread_sleep ==
    /\ service.pc = "sleep"
    /\ service_sem > 0
    /\ service_sem' = service_sem - 1
    /\ service' = [service EXCEPT !.pc = "scan"]
    /\ UNCHANGED <<poolVars, tableVars, pop_queue, threadVars, historyVars, now, frames, panicked>>
-----------------------------------------------------------------------------
Tick ==
    /\ now < MaxTime
    /\ now' = now + 1
    /\ UNCHANGED <<poolVars, tableVars, queueVars, threadVars, historyVars, frames, panicked>>

pop_service_thread ==
    \/ pop_service_thread_scan
    \/ pop_service_thread_discard
    \/ pop_service_thread_copy
    \/ pop_service_thread_clear
    \/ pop_service_thread_wake
    \/ pop_service_thread_empty
    \/ pop_service_thread_sleep

network_receive_thread(n) == network_receive_thread_page(n) \/ network_receive_frame(n)

(* What a thread does once it is inside of a socket function. *)
ClientContinues(c) ==
    \/ network_send_free(c)
    \/ pop_push_frame_loopback(c)
    \/ socket_recvfrom_return(c)

ClientCalls(c) ==
    \/ \E protocol \in Protocols, port \in Ports \cup {0} : socket_open(c, protocol, port)
    \/ \E s \in Sockets : socket_close(c, s)
    \/ \E s \in Sockets, dport \in Ports \cup {Elsewhere} : socket_sendto(c, s, dport)
    \/ \E s \in Sockets : socket_recvfrom(c, s)

(* After a panic the system does nothing.  A race for a frame that is being *)
(* discarded is the end, too: its page is about to be freed twice.          *)
Halted == panicked \/ raced

PopNext ==
    /\ ~Halted
    /\ \/ pop_service_thread
       \/ \E n \in Interfaces : network_receive_thread(n)
       \/ \E n \in Interfaces, frame \in Ports \cup {Unknown} : gnd_recv(n, frame)
       \/ \E c \in Clients : ClientContinues(c)
       \/ \E c \in Clients : ClientCalls(c)
       \/ Tick

(* The scheduler does not leave the processor idle while a thread can move, *)
(* and no lock is held for ever: among the threads inside of the kernel     *)
(* someone takes a step.  Nobody has to call anything and nothing has to    *)
(* arrive.                                                                  *)
PopFairness ==
    WF_vars(/\ ~Halted
            /\ \/ pop_service_thread
               \/ \E n \in Interfaces : network_receive_thread(n)
               \/ \E c \in Clients : ClientContinues(c))

PopSpec == PopInit /\ [][PopNext]_vars /\ PopFairness
-----------------------------------------------------------------------------
(* The types of sockets, queue, threads and pages. *)
SocketType   == [protocol : Protocols \cup {"none"}, port : Ports \cup {0},
                 rbuf : Clients \cup {Nobody}, ret : Clients \cup {Nobody}]
SlotType     == [frame : Pages \cup {NoPage}, socket : Sockets \cup {NoSocket},
                 stamp : 0 .. MaxTime, busy : BOOLEAN]
ServiceType  == [pc : {"scan", "discard", "copy", "clear", "wake", "empty", "sleep"},
                 slot : Slots, f : Pages \cup {NoPage}]
ReceiverType == [pc : {"page", "recv", "push"}, page : Pages \cup {NoPage}]
ClientType   == [pc : {"out", "push", "free", "recv"}, s : Sockets \cup {NoSocket},
                 page : Pages \cup {NoPage}, port : Ports \cup {0}, got : Ports \cup {Junk}]

PopTypeOK ==
    /\ pool \subseteq Pages
    /\ mem \in [Pages -> Ports \cup {Junk, Unknown}]
    /\ open_sockets \in [Sockets -> SocketType]
    /\ complete \in [Sockets -> Nat]
    /\ pop_queue \in [Slots -> SlotType]
    /\ service \in ServiceType
    /\ service_sem \in Nat
    /\ receiver \in [Interfaces -> ReceiverType]
    /\ client \in [Clients -> ClientType]
    /\ now \in 0 .. MaxTime /\ frames \in 0 .. MaxFrames
    /\ panicked \in BOOLEAN /\ raced \in BOOLEAN /\ reused \in BOOLEAN
    /\ crowded \subseteq Sockets

(* The slots whose frame has not been freed yet. *)
LiveSlots == {i \in Queued : ~(service.pc \in {"wake", "empty"} /\ service.slot = i)}

Receiving == {n \in Interfaces : receiver[n].page # NoPage}

(* A page for the send buffer, for the frame that is sent, for every slot   *)
(* of the queue and every interface.                                        *)
EnoughPages == NumPages >= 2 + QueueSize + Cardinality(Interfaces)

(* Every page is free, or belongs to exactly one of: the send buffer, a     *)
(* queue slot, the thread of an interface, a thread that sends.  None is    *)
(* lost on any path of network_send, pop_push_frame or the service thread,  *)
(* none is freed twice, and so the assertions of the page pool hold, and    *)
(* that of network_receive_thread does when there are enough pages.  (A     *)
(* second receiver may leave the service thread with null pointers.)        *)
PagesOwnedOnce ==
    /\ panicked /\ crowded = {} => pool = {} /\ ~EnoughPages
    /\ \A p \in Pages :
          \/ p \in pool \cup {SendBuffer}
          \/ \E i \in LiveSlots : pop_queue[i].frame = p
          \/ \E n \in Receiving : receiver[n].page = p
          \/ \E c \in Sending : client[c].page = p
    /\ SendBuffer \notin pool
    /\ \A i \in LiveSlots :
          /\ pop_queue[i].frame \notin pool \cup {SendBuffer}
          /\ \A j \in LiveSlots : pop_queue[i].frame = pop_queue[j].frame => i = j
          /\ \A n \in Receiving : pop_queue[i].frame # receiver[n].page
          /\ \A c \in Sending : pop_queue[i].frame # client[c].page
    /\ \A n \in Receiving :
          /\ receiver[n].page \notin pool \cup {SendBuffer}
          /\ \A m \in Receiving : receiver[n].page = receiver[m].page => n = m
          /\ \A c \in Sending : receiver[n].page # client[c].page
    /\ \A c \in Sending : client[c].page \notin pool \cup {SendBuffer}
    /\ \A c, d \in Sending : c = d

(* What a page holds that is on its way to the queue or in it; a thread has *)
(* a page where its code needs one.                                         *)
FramesOK ==
    /\ \A i \in LiveSlots : mem[pop_queue[i].frame] \in Ports
    /\ \A n \in Interfaces :
          /\ n \in Receiving <=> receiver[n].pc # "page"
          /\ receiver[n].pc = "push" => mem[receiver[n].page] \in Ports \cup {Unknown}
    /\ \A c \in Clients :
          /\ c \in Sending <=> client[c].pc \in {"push", "free"}
          /\ client[c].pc = "push" => mem[client[c].page] \in Ports

(* What the service thread remembers of the slot it works on stays true     *)
(* while it holds no lock: nobody replaces a busy frame.                    *)
ServiceOK ==
    /\ service.pc \notin {"scan", "sleep"} =>
          service.f # NoPage /\ pop_queue[service.slot].frame = service.f
    /\ service.pc \in {"copy", "clear", "wake"} =>
          pop_queue[service.slot].busy /\ Target \in Sockets

Serving(s) == service.pc \in {"clear", "wake"} /\ Target = s

(* Where a receiver is: waiting for a packet, given one but not signalled,  *)
(* or signalled.                                                            *)
AwaitsPacket(c) ==
    LET s == client[c].s
    IN  /\ open_sockets[s].rbuf = c /\ open_sockets[s].ret = c
        /\ client[c].got = 0 /\ complete[s] = 0 /\ ~Serving(s)

HasPacket(c) ==
    LET s == client[c].s
    IN  /\ open_sockets[s].rbuf = Nobody /\ client[c].got # 0
        /\ Serving(s) => complete[s] = 0
        /\ ~Serving(s) => complete[s] = 1

One(holds) == IF holds THEN 1 ELSE 0

(* However many threads receive from a socket: as many wait as there are    *)
(* buffers in it, packets given and not signalled, and signals not taken.   *)
(* So no signal is left over for a later call, and a socket that nobody     *)
(* receives from has no buffer.                                             *)
CallersCounted ==
    \A s \in Sockets :
       Cardinality(Callers(s)) =
          complete[s] + One(Serving(s)) + One(open_sockets[s].rbuf # Nobody)

(* Who receives alone waits for a packet or has been given it.              *)
ReceiversOK ==
    /\ \A c \in Clients :
          /\ client[c].s # NoSocket <=> client[c].pc = "recv"
          /\ client[c].pc = "recv" =>
                /\ InUse(client[c].s) /\ open_sockets[client[c].s].port = client[c].port
                /\ client[c].s \notin crowded => AwaitsPacket(c) \/ HasPacket(c)
          /\ client[c].pc # "recv" => client[c].got = 0
    /\ \A c, d \in Clients :
          client[c].s = client[d].s /\ client[c].pc = "recv" /\ client[c].s \notin crowded => c = d
    /\ service.pc = "copy" => open_sockets[Target].rbuf # Nobody

(* A frame that is queued for a socket is for its port, as long as no       *)
(* socket is closed while frames are queued for it.                         *)
QueuedForPort ==
    \A i \in LiveSlots : pop_queue[i].socket # NoSocket =>
       /\ InUse(pop_queue[i].socket)
       /\ open_sockets[pop_queue[i].socket].port = mem[pop_queue[i].frame]

(* A receiver is given a frame for the port its socket was bound to when it *)
(* called socket_recvfrom - as long as no socket is closed while frames are *)
(* queued for it: the queue remembers the socket, not the port.             *)
DeliveredToPort ==
    ~raced /\ ~reused =>
       QueuedForPort /\ \A c \in Clients : client[c].got \in {0, client[c].port}

(* socket_recvfrom returns only after a packet was copied to the buffer of  *)
(* that very call, unless another call was in the socket at the same time.  *)
(* ("There can be only one active recvfrom at a time", says its comment;    *)
(* there can be two, and one of them takes the other's signal.)  With the   *)
(* last call of such a crowd the disorder ends.                             *)
ReturnsWithPacket ==
    [][\A c \in Clients :
          client[c].pc = "recv" /\ client'[c].pc = "out" /\ client[c].s \notin crowded =>
             client[c].got # 0]_vars

Deliverable(c) == \E i \in LiveSlots : SocketOf(i) = client[c].s

(* A receiver that a frame is queued for, or whose frame is being copied,   *)
(* returns: no signal to the service thread is lost, whether the frame came *)
(* before the call or after it.  (A frame may still be replaced when it has *)
(* aged.  Of a crowd that receives from one socket any call may return for  *)
(* any other.)                                                              *)
PacketsReachReceivers ==
    \A c \in Clients :
       /\ client[c].pc = "recv"
       /\ Deliverable(c) \/ open_sockets[client[c].s].rbuf # c
       ~> \/ client[c].pc # "recv" \/ client[c].s \in crowded
          \/ open_sockets[client[c].s].rbuf = c /\ ~Deliverable(c)
          \/ Halted

(* While the service thread sleeps and no signal is pending, every frame in *)
(* the queue has been looked at and none has a receiver: the signals of     *)
(* pop_push_frame and socket_recvfrom, sent after their locks are released, *)
(* are not missed by a scan that is under way.                              *)
NoLostSignal ==
    service.pc = "sleep" /\ service_sem = 0 =>
       \A i \in Queued : pop_queue[i].socket # NoSocket /\ ~Wanted(i)

(* The invariant of the queue and its pages (net/pop.c, net/network.c):     *)
(* pages have one owner, the service thread sleeps only when it may and     *)
(* knows what it works on, no call of socket_recvfrom is forgotten and no   *)
(* signal left over, and who receives alone gets a packet before the        *)
(* signal - as long as no frame is replaced in the queue while the service  *)
(* thread, holding no lock, discards it.                                    *)
PopInv ==
    /\ PopTypeOK
    /\ NoLostSignal
    /\ ~raced => PagesOwnedOnce /\ FramesOK /\ ServiceOK /\ ReceiversOK /\ CallersCounted
=============================================================================
