------------------------------ MODULE AtomicDisk ------------------------------
(***************************************************************************)
(* What a generic block device promises its callers (drivers/gbd.h): a     *)
(* synchronous read or write takes effect at once, at some moment between  *)
(* its call and its return, and only if it returns success.                *)
(***************************************************************************)
CONSTANTS Clients, Blocks, Values

VARIABLES
    store,      \* the contents of each block
    calls       \* the request of each client and how far it is

atomicVars == <<store, calls>>

Requests == [at : {"idle", "called", "done"}, op : {"read", "write"},
             block : Blocks, buf : Values, ok : BOOLEAN]

AtomicInit ==
    /\ store \in [Blocks -> Values]
    /\ calls \in [Clients -> {r \in Requests : r.at = "idle" /\ ~r.ok}]

Call(c) ==
    /\ calls[c].at = "idle"
    /\ \E r \in Requests : r.at = "called" /\ ~r.ok /\ calls' = [calls EXCEPT ![c] = r]
    /\ UNCHANGED store

Transfer(c) ==
    LET r == calls[c] IN
    /\ r.at = "called"
    /\ IF r.op = "write"
       THEN /\ store' = [store EXCEPT ![r.block] = r.buf]
            /\ calls' = [calls EXCEPT ![c].at = "done"]
       ELSE /\ calls' = [calls EXCEPT ![c].at = "done", ![c].buf = store[r.block]]
            /\ UNCHANGED store

Return(c) ==
    /\ calls[c].at = "done"
    /\ calls' = [calls EXCEPT ![c].at = "idle", ![c].ok = TRUE]
    /\ UNCHANGED store

Fail(c) ==
    /\ calls[c].at = "called"
    /\ calls' = [calls EXCEPT ![c].at = "idle"]
    /\ UNCHANGED store

AtomicNext == \E c \in Clients : Call(c) \/ Transfer(c) \/ Return(c) \/ Fail(c)

AtomicSpec == AtomicInit /\ [][AtomicNext]_atomicVars
=============================================================================
