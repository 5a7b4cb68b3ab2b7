-------------------------------- MODULE UsrSem --------------------------------
(***************************************************************************)
(* Semaphores of processes (proc/usr_sem.c): a table of named entries, each *)
(* with a semaphore of the kernel's table (kernel/semaphore.c).             *)
(*                                                                          *)
(* usr_sem_open runs under usr_sem_table_slock, which keeps out no other    *)
(* call than usr_sem_open: the rest takes no lock, and may meet an entry    *)
(* that is in use and has yet to get its kernel semaphore.  So it is two    *)
(* steps, one to take the entry and one to give it a semaphore.  In the     *)
(* other calls the test of the entry, with the read of its kernel_sem, is   *)
(* one step and what is done with the kernel semaphore another.  Sleeping   *)
(* and waking are module Kernel's subject: here a thread sleeps on a kernel *)
(* semaphore, and semaphore_V wakes one.                                    *)
(***************************************************************************)
EXTENDS SemTable

CONSTANTS
    MaxUsrSem,    \* MAX_USR_SEM
    SemUsers,     \* threads of processes
    ShortNames,   \* names that fit in MAX_USR_SEM_NAME
    LongNames,    \* names that do not
    CutName,      \* what stringcopy keeps of a long name
    Values,       \* initial values that semaphores are opened with
    MaxValue      \* bound: semaphores are not raised above it

VARIABLES
    creator,        \* creator of each entry of semaphore_table
    value,          \* value of each entry of semaphore_table
    next_sem,       \* the static variable of semaphore_create
    usr_sem_table,  \* the entries of usr_sem.c
    user,           \* where each thread is, its entry and its kernel semaphore
    broken          \* "race": a kernel semaphore was destroyed under its users, or one
                    \* used that the entry has no more; "null": an entry without one was used

usrSemVars == <<creator, value, next_sem, usr_sem_table, user, broken>>

UsrSems == 0 .. (MaxUsrSem - 1)
NoEntry == -1
FreeEntry == [state |-> "FREE", name |-> CutName, kernel_sem |-> NoSem]
Away == [pc |-> "away", h |-> NoEntry, sem |-> NoSem]

ASSUME UsrSemAssumption ==
    /\ MaxUsrSem \in Nat \ {0} /\ Values \subseteq Nat
    /\ CutName \notin ShortNames \cup LongNames
    /\ IsFiniteSet(SemUsers) /\ Nobody \notin SemUsers /\ MaxValue \in Nat

(* semaphore_init and usr_sem_init. *)
UsrSemInit ==
    /\ creator = [k \in SemIds |-> Nobody]
    /\ value = [k \in SemIds |-> 0]
    /\ next_sem = 0
    /\ usr_sem_table = [h \in UsrSems |-> FreeEntry]
    /\ user = [t \in SemUsers |-> Away]
    /\ broken = "no"
-----------------------------------------------------------------------------
(* What the table stores of a name; names are compared with what is stored. *)
Stored(name) == IF name \in LongNames THEN CutName ELSE name

Used(h) == usr_sem_table[h].state = "USED"

Named(name) == {h \in UsrSems : Used(h) /\ usr_sem_table[h].name = name}

FreeEntries == {h \in UsrSems : ~Used(h)}

Locked == \E t \in SemUsers : user[t].pc = "open"

(* usr_sem_open with a value takes an entry, unless the name is taken or    *)
(* the table full, and keeps the lock.  The entry still has the kernel_sem  *)
(* of the semaphore that was in it before.  To look a semaphore up, and to  *)
(* fail, changes nothing.                                                   *)
usr_sem_open(t, name) ==
    /\ user[t].pc = "away"
    /\ ~Locked
    /\ Named(name) = {}
    /\ FreeEntries # {}
    /\ LET h == Min(FreeEntries)
       IN  /\ usr_sem_table' = [usr_sem_table EXCEPT ![h] =
                                  [@ EXCEPT !.state = "USED", !.name = Stored(name)]]
           /\ user' = [user EXCEPT ![t] = [pc |-> "open", h |-> h, sem |-> NoSem]]
    /\ UNCHANGED <<creator, value, next_sem, broken>>

(* semaphore_create for it, with the value of the call, which nobody looked *)
(* at before.  The entry stays in use even if there is no semaphore left.   *)
usr_sem_open_kernel(t, v) ==
    /\ user[t].pc = "open"
    /\ LET k == ReservedSem(creator, next_sem)
       IN  /\ usr_sem_table' = [usr_sem_table EXCEPT ![user[t].h].kernel_sem = k]
           /\ next_sem' = NextSem(creator, next_sem)
           /\ IF k = NoSem THEN UNCHANGED <<creator, value>>
              ELSE /\ creator' = [creator EXCEPT ![k] = t]
                   /\ value' = [value EXCEPT ![k] = v]
    /\ user' = [user EXCEPT ![t] = Away]
    /\ UNCHANGED broken

(* An entry in use without a semaphore of its own: it is still to get one,  *)
(* or its semaphore is destroyed and the entry still to be freed.           *)
Halfway(h) == \E t \in SemUsers : user[t].pc \in {"open", "release"} /\ user[t].h = h

(* What a call does to the system that got as far as entry h: by a handle   *)
(* from before, it gets at whatever kernel_sem the entry had.               *)
Outcome(h) ==
    IF usr_sem_table[h].kernel_sem = NoSem THEN "null" ELSE IF Halfway(h) THEN "race" ELSE "no"

(* The test with which usr_sem_p and usr_sem_v begin. *)
usr_sem_find(t, h, call) ==
    /\ user[t].pc = "away"
    /\ Used(h)
    /\ user' = [user EXCEPT ![t] = [pc |-> call, h |-> h, sem |-> usr_sem_table[h].kernel_sem]]
    /\ broken' = Outcome(h)
    /\ UNCHANGED <<creator, value, next_sem, usr_sem_table>>

(* semaphore_P: the caller sleeps when the value falls below zero. *)
usr_sem_p(t) ==
    /\ user[t].pc = "p"
    /\ value' = [value EXCEPT ![user[t].sem] = @ - 1]
    /\ user' = [user EXCEPT ![t] =
                  IF value[user[t].sem] > 0 THEN Away ELSE [@ EXCEPT !.pc = "asleep"]]
    /\ UNCHANGED <<creator, next_sem, usr_sem_table, broken>>

Asleep(k) == {t \in SemUsers : user[t].pc = "asleep" /\ user[t].sem = k}

(* semaphore_V: a sleeper is woken when the value was below zero. *)
usr_sem_v(t) ==
    /\ user[t].pc = "v"
    /\ value[user[t].sem] < MaxValue
    /\ LET k == user[t].sem IN
       /\ value' = [value EXCEPT ![k] = @ + 1]
       /\ IF value[k] < 0 /\ Asleep(k) # {}
          THEN \E s \in Asleep(k) : user' = [user EXCEPT ![t] = Away, ![s] = Away]
          ELSE user' = [user EXCEPT ![t] = Away]
    /\ UNCHANGED <<creator, next_sem, usr_sem_table, broken>>

(* usr_sem_destroy refuses when threads sleep on the semaphore. *)
usr_sem_destroy(t, h) ==
    /\ user[t].pc = "away"
    /\ Used(h)
    /\ usr_sem_table[h].kernel_sem # NoSem => value[usr_sem_table[h].kernel_sem] >= 0
    /\ user' = [user EXCEPT ![t] = [pc |-> "destroy", h |-> h,
                                    sem |-> usr_sem_table[h].kernel_sem]]
    /\ broken' = Outcome(h)
    /\ UNCHANGED <<creator, value, next_sem, usr_sem_table>>

Using(k) == {t \in SemUsers : user[t].sem = k}

(* semaphore_destroy: the race that usr_sem.c warns of is lost when other   *)
(* threads are past their test by now.                                      *)
usr_sem_destroy_kernel(t) ==
    /\ user[t].pc = "destroy"
    /\ creator' = [creator EXCEPT ![user[t].sem] = Nobody]
    /\ broken' = IF Using(user[t].sem) = {t} THEN "no" ELSE "race"
    /\ user' = [user EXCEPT ![t] = [pc |-> "release", h |-> user[t].h, sem |-> NoSem]]
    /\ UNCHANGED <<value, next_sem, usr_sem_table>>

(* The entry is free; its name and its kernel_sem stay what they were. *)
usr_sem_destroy_entry(t) ==
    /\ user[t].pc = "release"
    /\ usr_sem_table' = [usr_sem_table EXCEPT ![user[t].h].state = "FREE"]
    /\ user' = [user EXCEPT ![t] = Away]
    /\ UNCHANGED <<creator, value, next_sem, broken>>

(* Once a semaphore was used that is not there, nothing is claimed. *)
UsrSemNext ==
    /\ broken = "no"
    /\ \E t \in SemUsers :
          \/ \E name \in ShortNames \cup LongNames : usr_sem_open(t, name)
          \/ \E v \in Values : usr_sem_open_kernel(t, v)
          \/ \E h \in UsrSems, call \in {"p", "v"} : usr_sem_find(t, h, call)
          \/ usr_sem_p(t)
          \/ usr_sem_v(t)
          \/ \E h \in UsrSems : usr_sem_destroy(t, h)
          \/ usr_sem_destroy_kernel(t)
          \/ usr_sem_destroy_entry(t)

UsrSemSpec == UsrSemInit /\ [][UsrSemNext]_usrSemVars
-----------------------------------------------------------------------------
(* The types of both tables and of what each thread is doing. *)
UsrSemTypeOK ==
    /\ creator \in [SemIds -> SemUsers \cup {Nobody}]
    /\ value \in [SemIds -> Int]
    /\ next_sem \in SemIds
    /\ usr_sem_table \in [UsrSems -> [state : {"FREE", "USED"},
                                      name : ShortNames \cup {CutName},
                                      kernel_sem : SemIds \cup {NoSem}]]
    /\ user \in [SemUsers -> [pc : {"away", "open", "p", "v", "asleep", "destroy", "release"},
                              h : UsrSems \cup {NoEntry}, sem : SemIds \cup {NoSem}]]
    /\ broken \in {"no", "race", "null"}

(* Two entries in use never have the same name, although entries are freed  *)
(* without the lock: a name is looked for and stored in one critical        *)
(* section.  (Names that were cut are not found again.)                     *)
NamesUnique ==
    \A h, i \in UsrSems :
       Used(h) /\ Used(i) /\ h # i /\ usr_sem_table[h].name # CutName =>
          usr_sem_table[h].name # usr_sem_table[i].name

(* Entries in use and reserved kernel semaphores belong together one to     *)
(* one: no two entries share a semaphore, no entry has one that was given   *)
(* away, none is leaked - as long as nobody loses the race with             *)
(* usr_sem_destroy or uses a handle whose entry is being opened anew, and   *)
(* except where semaphore_create had none left.                             *)
Holders == {h \in UsrSems : Used(h) /\ ~Halfway(h) /\ usr_sem_table[h].kernel_sem # NoSem}

EntriesOwnSemaphores ==
    /\ {usr_sem_table[h].kernel_sem : h \in Holders} = {k \in SemIds : creator[k] # Nobody}
    /\ \A h, i \in Holders : usr_sem_table[h].kernel_sem = usr_sem_table[i].kernel_sem => h = i

(* A call works on the semaphore of an entry that is in use, or is the only *)
(* one that has to do with an entry without a semaphore of its own.         *)
CallOK(t) ==
    /\ user[t].pc = "away" => user[t].h = NoEntry /\ user[t].sem = NoSem
    /\ user[t].pc \in {"p", "v", "asleep", "destroy"} =>
          user[t].h \in Holders /\ user[t].sem = usr_sem_table[user[t].h].kernel_sem
    /\ user[t].pc \in {"open", "release"} =>
          /\ user[t].h \in UsrSems /\ Used(user[t].h) /\ user[t].sem = NoSem
          /\ \A u \in SemUsers \ {t} : user[u].h # user[t].h

(* Who sleeps does so on a semaphore that is reserved, and is counted in    *)
(* its value: whoever was let pass usr_sem_destroy's test is not forgotten. *)
SleepersCounted ==
    \A k \in SemIds :
       /\ Asleep(k) # {} => value[k] = -Cardinality(Asleep(k))
       /\ creator[k] # Nobody /\ Asleep(k) = {} => value[k] >= 0

(* The table of names and the kernel's table agree with each other and      *)
(* with who sleeps (proc/usr_sem.c, kernel/semaphore.c).                    *)
UsrSemInv ==
    /\ UsrSemTypeOK /\ NamesUnique
    /\ broken = "no" =>
          EntriesOwnSemaphores /\ (\A t \in SemUsers : CallOK(t)) /\ SleepersCounted
=============================================================================
