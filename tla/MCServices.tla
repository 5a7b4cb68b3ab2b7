------------------------------ MODULE MCServices ------------------------------
(* An instance for TLC of five components that do not interact: the         *)
(* semaphores of processes, their memory, the allocator of the userland     *)
(* library, the heap of the heap assignment, and the boot of the kernel.    *)
(* Each behaviour exercises one of them; the others stay in their initial   *)
(* states.                                                                  *)
EXTENDS UsrSem, Memory, Malloc, Heap, Boot

VARIABLE component   \* the one that runs

servicesVars == <<usrSemVars, memVars, mallocVars, heapVars, bootVars, component>>

(* Two programs with a read-only page and a writable one.  The file of the  *)
(* first fills half of the page, so that its heap begins in it; that of the *)
(* second fills it, so that process_start has to map one page more.         *)
TwoPrograms ==
    {[ro |-> {2}, rw |-> 3, size |-> 1, memsize |-> 2],
     [ro |-> {2}, rw |-> 3, size |-> 2, memsize |-> 2]}

(* Machines with up to four devices of these types; nobody drives a nic. *)
SmallMachines == UNION {[1 .. n -> {"cpu", "tty", "disk", "rtc", "nic"}] : n \in 0 .. 4}

(* Structures of a few bytes, some of them no multiple of a word. *)
SmallStructs == [cpu |-> <<5, 2>>, tty |-> <<5, 4, 6>>, disk |-> <<5, 4, 3>>, rtc |-> <<>>]

ServicesInit ==
    /\ UsrSemInit /\ MemInit /\ MallocInit /\ HeapInit /\ BootInit
    /\ component \in {"semaphores", "memory", "malloc", "heap", "boot"}
    /\ component # "boot" => machine = <<>> /\ kernel_end = Min(KernelEnds)

ServicesNext ==
    \/ /\ component = "semaphores" /\ UsrSemNext
       /\ UNCHANGED <<memVars, mallocVars, heapVars, bootVars, component>>
    \/ /\ component = "memory" /\ MemNext
       /\ UNCHANGED <<usrSemVars, mallocVars, heapVars, bootVars, component>>
    \/ /\ component = "malloc" /\ MallocNext
       /\ UNCHANGED <<usrSemVars, memVars, heapVars, bootVars, component>>
    \/ /\ component = "heap" /\ HeapNext
       /\ UNCHANGED <<usrSemVars, memVars, mallocVars, bootVars, component>>
    \/ /\ component = "boot" /\ BootNext
       /\ UNCHANGED <<usrSemVars, memVars, mallocVars, heapVars, component>>

ServicesSpec == ServicesInit /\ [][ServicesNext]_servicesVars
=============================================================================
