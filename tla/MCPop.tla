--------------------------------- MODULE MCPop ---------------------------------
(* The network with one interface.  Pages: the send buffer, one per slot of *)
(* the queue, one for the interface's thread and one for the thread that    *)
(* holds the send buffer.                                                   *)
EXTENDS Pop

(* Some time after the start: a socket is open at port 1, frames came for   *)
(* it that nobody has asked for yet, they fill the queue, and the service   *)
(* thread is about to look at the last one.  One more frame is to come.     *)
PopLater ==
    /\ pool = Pages \ (1 .. QueueSize + 1)
    /\ mem = [p \in Pages |-> IF p \in 2 .. QueueSize + 1 THEN 1 ELSE Junk]
    /\ open_sockets = [s \in Sockets |->
                         IF s = 0 THEN [FreeSocket EXCEPT !.protocol = "pop", !.port = 1]
                         ELSE FreeSocket]
    /\ complete = [s \in Sockets |-> 0]
    /\ pop_queue = [i \in Slots |-> [EmptySlot EXCEPT !.frame = i + 2,
                                     !.socket = IF i = QueueSize - 1 THEN NoSocket ELSE 0]]
    /\ service = [pc |-> "sleep", slot |-> 0, f |-> NoPage]
    /\ service_sem = 1
    /\ receiver = [n \in Interfaces |-> [pc |-> "page", page |-> NoPage]]
    /\ client = [c \in Clients |-> Outside]
    /\ now = 0 /\ frames = MaxFrames - 1
    /\ panicked = FALSE /\ raced = FALSE /\ reused = FALSE /\ crowded = {}

MCPopSpec == (PopInit \/ PopLater) /\ [][PopNext]_vars /\ PopFairness
=============================================================================
