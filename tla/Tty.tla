--------------------------------- MODULE Tty ---------------------------------
(***************************************************************************)
(* The terminal driver (drivers/tty.c): two ring buffers shared by writers, *)
(* readers and the interrupt handler, which any CPU may run.                *)
(*                                                                          *)
(* Characters are numbered, modulo Numbers, in the order in which writers   *)
(* hand them over and in the order in which they are typed.  A section of a *)
(* thread under the lock is one step; those of the handler are one step per *)
(* round of their loops, since the device goes on meanwhile.                *)
(***************************************************************************)
EXTENDS Integers, FiniteSets

CONSTANTS
    Writers, TtyReaders,    \* threads
    Typist,                 \* who types
    TtyUsers,               \* sets of those who use the terminal, one in each behaviour
    TtyCpus,                \* the CPUs
    TTY_BUF_SIZE,
    MaxLen,                 \* bound: characters in a call of tty_write or tty_read
    MaxInput,               \* bound: characters that wait in the device
    Numbers                 \* bound: characters are told apart up to this many

VARIABLES
    write_buf, write_head, write_count,
    read_buf, read_head, read_count,
    wbusy, wirq, rirq,      \* bits of the status port
    input,                  \* characters that wait in the device
    tty_slock,              \* the CPU whose handler holds the lock, or none
    tty_users,              \* those who use the terminal
    tty_pc,                 \* where each thread is
    left,                   \* characters each writer has still to hand over
    tty_handler,            \* where each CPU is in tty_interrupt_handle
    accepted, printed, typed,   \* history: the next character of each kind
    intact                  \* history: no overrun since the read buffer was empty

writeVars == <<write_buf, write_head, write_count, accepted, printed>>
readVars  == <<read_buf, read_head, read_count, intact>>
ttyVars == <<write_buf, write_head, write_count, read_buf, read_head, read_count, wbusy, wirq,
             rirq, input, tty_slock, tty_users, tty_pc, left, tty_handler, accepted, printed, typed, intact>>

ASSUME TtyAssumption ==
    /\ TTY_BUF_SIZE \in Nat /\ TTY_BUF_SIZE > 1
    /\ MaxLen \in Nat /\ MaxInput \in Nat /\ Numbers \in Nat
    /\ Writers \intersect TtyReaders = {}
    /\ TtyUsers \subseteq SUBSET (Writers \union TtyReaders \union {Typist})
    /\ Numbers > TTY_BUF_SIZE + MaxInput

Slots == 0 .. (TTY_BUF_SIZE - 1)
Slot(i) == i % TTY_BUF_SIZE
Number(n) == n % Numbers
Unlocked == "unlocked"
Least(a, b) == IF a < b THEN a ELSE b

(* tty_init. *)
TtyInit ==
    /\ write_buf = [i \in Slots |-> 0] /\ write_head = 0 /\ write_count = 0
    /\ read_buf = [i \in Slots |-> 0] /\ read_head = 0 /\ read_count = 0
    /\ wbusy = FALSE /\ wirq = FALSE /\ rirq = FALSE /\ input = 0
    /\ tty_slock = Unlocked
    /\ tty_users \in TtyUsers
    /\ tty_pc = [t \in Writers \union TtyReaders |-> "idle"]
    /\ left = [t \in Writers |-> 0]
    /\ tty_handler = [c \in TtyCpus |-> "none"]
    /\ accepted = 0 /\ printed = 0 /\ typed = 0 /\ intact = TRUE

----------------------------------------------------------------------------
(* The threads. *)

WriteCall(t) ==
    /\ tty_pc[t] = "idle"
    /\ \E n \in 1 .. MaxLen : left' = [left EXCEPT ![t] = n]
    /\ tty_pc' = [tty_pc EXCEPT ![t] = "running"]
    /\ UNCHANGED <<writeVars, readVars, wbusy, wirq, rirq, input, tty_slock, tty_handler, typed>>

(* Mutant: the characters are put in from the start of the buffer. *)
Filled_start(n) ==
    [i \in Slots |-> IF i < n THEN Number(accepted + i) ELSE write_buf[i]]

(* The write buffer, empty before, after n characters are put in. *)
Filled(n) ==
    [i \in Slots |-> LET k == Slot(i - write_head + TTY_BUF_SIZE) IN
                     IF k < n THEN Number(accepted + k) ELSE write_buf[i]]

(* Mutant: an idle device is left to ask for the characters by itself. *)
StartDevice_waits(n) == write_count' = n /\ UNCHANGED <<write_head, printed, wbusy>>

(* The first of the n characters in the buffer goes to the device, unless    *)
(* that is busy and will ask for them by itself.                             *)
StartDevice(n) ==
    /\ write_head' = IF wbusy THEN write_head ELSE Slot(write_head + 1)
    /\ write_count' = IF wbusy THEN n ELSE n - 1
    /\ printed' = IF wbusy THEN printed ELSE Number(printed + 1)
    /\ wbusy' = TRUE

(* A section of tty_write: it sleeps while the buffer holds characters, else *)
(* fills it, starts the device, and returns or sleeps again.                 *)
tty_write(t) ==
    LET n == Least(left[t], TTY_BUF_SIZE) IN
    /\ tty_pc[t] = "running"
    /\ tty_slock = Unlocked
    /\ IF write_count > 0
       THEN /\ tty_pc' = [tty_pc EXCEPT ![t] = "asleep"]
            /\ UNCHANGED <<writeVars, left, wbusy>>
       ELSE /\ write_buf' = Filled(n)
            /\ accepted' = Number(accepted + n)
            /\ StartDevice(n)
            /\ left' = [left EXCEPT ![t] = @ - n]
            /\ tty_pc' = [tty_pc EXCEPT ![t] = IF left[t] > n THEN "asleep" ELSE "idle"]
    /\ UNCHANGED <<readVars, wirq, rirq, input, tty_slock, tty_handler, typed>>

ReadCall(t) ==
    /\ tty_pc[t] = "idle"
    /\ tty_pc' = [tty_pc EXCEPT ![t] = "running"]
    /\ UNCHANGED <<writeVars, readVars, wbusy, wirq, rirq, input, tty_slock, left, tty_handler, typed>>

HeadAfter(n) == Slot(read_head + n)

(* A section of tty_read: it sleeps if the buffer is empty, else takes up to *)
(* the length asked for and returns.                                         *)
tty_read(t) ==
    /\ tty_pc[t] = "running"
    /\ tty_slock = Unlocked
    /\ IF read_count = 0
       THEN /\ tty_pc' = [tty_pc EXCEPT ![t] = "asleep"]
            /\ UNCHANGED readVars
       ELSE \E len \in 1 .. MaxLen :
            LET n == Least(len, read_count) IN
            /\ read_head' = HeadAfter(n)
            /\ read_count' = read_count - n
            /\ intact' = (intact \/ read_count = n)
            /\ tty_pc' = [tty_pc EXCEPT ![t] = "idle"]
            /\ UNCHANGED read_buf
    /\ UNCHANGED <<writeVars, wbusy, wirq, rirq, input, tty_slock, left, tty_handler, typed>>

----------------------------------------------------------------------------
(* The device. *)

(* A character has been printed. *)
DevicePrints ==
    /\ wbusy
    /\ wbusy' = FALSE /\ wirq' = TRUE
    /\ UNCHANGED <<writeVars, readVars, rirq, input, tty_slock, tty_pc, left, tty_handler, typed>>

(* A character is typed. *)
DeviceTyped ==
    /\ input < MaxInput
    /\ input' = input + 1 /\ rirq' = TRUE /\ typed' = Number(typed + 1)
    /\ UNCHANGED <<writeVars, readVars, wbusy, wirq, tty_slock, tty_pc, left, tty_handler>>

----------------------------------------------------------------------------
(* The interrupt handler. *)

HandlerGoto(c, label) == tty_handler' = [tty_handler EXCEPT ![c] = label]

(* All threads of a set that sleep are woken. *)
Woken(threads) ==
    [t \in DOMAIN tty_pc |-> IF t \in threads /\ tty_pc[t] = "asleep" THEN "running" ELSE tty_pc[t]]

(* The handler begins, and tests WIRQ without the lock. *)
TtyInterrupt(c) ==
    /\ tty_handler[c] = "none"
    /\ wirq \/ rirq
    /\ HandlerGoto(c, IF wirq THEN "lock_write" ELSE "lock_read")
    /\ UNCHANGED <<writeVars, readVars, wbusy, wirq, rirq, input, tty_slock, tty_pc, left, typed>>

HandlerLockWrite(c) ==
    /\ tty_handler[c] = "lock_write"
    /\ tty_slock = Unlocked
    /\ tty_slock' = c
    /\ wirq' = FALSE
    /\ HandlerGoto(c, "output")
    /\ UNCHANGED <<writeVars, readVars, wbusy, rirq, input, tty_pc, left, typed>>

HandlerOutput(c) ==
    /\ tty_handler[c] = "output"
    /\ ~wbusy /\ write_count > 0
    /\ wbusy' = TRUE
    /\ write_head' = Slot(write_head + 1)
    /\ write_count' = write_count - 1
    /\ printed' = Number(printed + 1)
    /\ wirq' = FALSE
    /\ UNCHANGED <<write_buf, accepted, readVars, rirq, input, tty_slock, tty_pc, left,
                   tty_handler, typed>>

WritersWoken == IF write_count = 0 THEN Woken(Writers) ELSE tty_pc

(* The rest of the first section, and the test of RIRQ. *)
HandlerOutputDone(c) ==
    /\ tty_handler[c] = "output"
    /\ wbusy \/ write_count = 0
    /\ tty_pc' = WritersWoken
    /\ tty_slock' = Unlocked
    /\ HandlerGoto(c, IF rirq THEN "lock_read" ELSE "none")
    /\ UNCHANGED <<writeVars, readVars, wbusy, wirq, rirq, input, left, typed>>

HandlerLockRead(c) ==
    /\ tty_handler[c] = "lock_read"
    /\ tty_slock = Unlocked
    /\ tty_slock' = c
    /\ rirq' = FALSE
    /\ HandlerGoto(c, "input")
    /\ UNCHANGED <<writeVars, readVars, wbusy, wirq, input, tty_pc, left, typed>>

InputSlot == Slot(read_head + read_count)

(* The next character of the device is read, and dropped if the buffer is    *)
(* more than full: a full one takes it in place of its oldest.               *)
HandlerInput(c) ==
    /\ tty_handler[c] = "input"
    /\ input > 0
    /\ input' = input - 1
    /\ IF read_count > TTY_BUF_SIZE
       THEN UNCHANGED readVars
       ELSE /\ read_buf' = [read_buf EXCEPT ![InputSlot] = Number(typed - input + Numbers)]
            /\ read_count' = read_count + 1
            /\ intact' = (intact /\ read_count < TTY_BUF_SIZE)
            /\ UNCHANGED read_head
    /\ UNCHANGED <<writeVars, wbusy, wirq, rirq, tty_slock, tty_pc, left, tty_handler, typed>>

HandlerInputDone(c) ==
    /\ tty_handler[c] = "input"
    /\ input = 0
    /\ tty_slock' = Unlocked
    /\ HandlerGoto(c, "wake")
    /\ UNCHANGED <<writeVars, readVars, wbusy, wirq, rirq, input, tty_pc, left, typed>>

(* Mutant: only one of the readers is woken. *)
ReadersWoken_one ==
    LET asleep == {t \in TtyReaders : tty_pc[t] = "asleep"} IN
    IF asleep = {} THEN tty_pc ELSE [tty_pc EXCEPT ![CHOOSE t \in asleep : TRUE] = "running"]

ReadersWoken == Woken(TtyReaders)

HandlerWake(c) ==
    /\ tty_handler[c] = "wake"
    /\ tty_pc' = ReadersWoken
    /\ HandlerGoto(c, "none")
    /\ UNCHANGED <<writeVars, readVars, wbusy, wirq, rirq, input, tty_slock, left, typed>>

tty_interrupt_handle(c) ==
    \/ TtyInterrupt(c) \/ HandlerLockWrite(c) \/ HandlerOutput(c) \/ HandlerOutputDone(c)
    \/ HandlerLockRead(c) \/ HandlerInput(c) \/ HandlerInputDone(c) \/ HandlerWake(c)

TtyNext ==
    /\ \/ \E t \in Writers \intersect tty_users : WriteCall(t) \/ tty_write(t)
       \/ \E t \in TtyReaders \intersect tty_users : ReadCall(t) \/ tty_read(t)
       \/ DevicePrints
       \/ Typist \in tty_users /\ DeviceTyped
       \/ \E c \in TtyCpus : tty_interrupt_handle(c)
    /\ UNCHANGED tty_users

(* The device prints what it is given, a pending interrupt is taken, and a   *)
(* handler runs to its end.                                                  *)
TtyFairness ==
    /\ WF_ttyVars(DevicePrints /\ UNCHANGED tty_users)
    /\ \A c \in TtyCpus : WF_ttyVars(tty_interrupt_handle(c) /\ UNCHANGED tty_users)

TtySpec == TtyInit /\ [][TtyNext]_ttyVars /\ TtyFairness

----------------------------------------------------------------------------
(* The types of the driver's state. *)
TtyTypeOK ==
    /\ write_buf \in [Slots -> 0 .. (Numbers - 1)] /\ read_buf \in [Slots -> 0 .. (Numbers - 1)]
    /\ write_head \in Slots /\ read_head \in Slots
    /\ write_count \in 0 .. TTY_BUF_SIZE /\ read_count \in 0 .. (TTY_BUF_SIZE + 1)
    /\ wbusy \in BOOLEAN /\ wirq \in BOOLEAN /\ rirq \in BOOLEAN /\ intact \in BOOLEAN
    /\ input \in 0 .. MaxInput
    /\ tty_slock \in TtyCpus \union {Unlocked}
    /\ tty_pc \in [Writers \union TtyReaders -> {"idle", "running", "asleep"}]
    /\ left \in [Writers -> 0 .. MaxLen]
    /\ tty_handler \in [TtyCpus -> {"none", "lock_write", "output", "lock_read", "input", "wake"}]
    /\ {accepted, printed, typed} \subseteq 0 .. (Numbers - 1)

(* The write buffer holds exactly the characters handed over and not yet     *)
(* printed, in order, whoever starts the device: tty_write or the handlers.  *)
WrittenInOrder ==
    /\ accepted = Number(printed + write_count)
    /\ \A k \in 0 .. (write_count - 1) :
         write_buf[Slot(write_head + k)] = Number(printed + k)

(* As long as it does not overrun, the read buffer holds exactly the         *)
(* characters typed and not yet read, in order: nothing is lost, doubled or  *)
(* swapped between handlers and readers, and an overrun is forgotten once    *)
(* the buffer has been emptied.                                              *)
ReadInOrder ==
    intact => /\ read_count <= TTY_BUF_SIZE
              /\ \A k \in 0 .. (read_count - 1) :
                   read_buf[Slot(read_head + k)]
                       = Number(typed - input - read_count + k + 2 * Numbers)

(* A writer inside tty_write still has characters to hand over, so that it   *)
(* never starts the device with none.                                        *)
WritersHaveLeft == \A t \in Writers : tty_pc[t] # "idle" => left[t] > 0

(* Both ring buffers of drivers/tty.c keep what was put in, in order, as far *)
(* as nothing overran them.                                                  *)
BuffersOK == TtyTypeOK /\ WrittenInOrder /\ ReadInOrder /\ WritersHaveLeft

(* No sleeper is forgotten.  While a writer sleeps, or characters wait to be *)
(* printed, an interrupt that leads to its waking is due; a reader sleeps    *)
(* with characters in the buffer only until the handler that put them there  *)
(* has woken it.                                                             *)
NobodyForgotten ==
    /\ (\E t \in Writers : tty_pc[t] = "asleep") \/ write_count > 0 =>
         wbusy \/ wirq \/ \E c \in TtyCpus : tty_handler[c] = "output"
    /\ (\E t \in TtyReaders : tty_pc[t] = "asleep") /\ read_count > 0 =>
         \E c \in TtyCpus : tty_handler[c] \in {"input", "wake"}

(* Once nobody types any more every character that was handed over is        *)
(* printed (a handler that is kept reading holds the lock).                  *)
WrittenIsPrinted == <>[](input = 0) => (write_count > 0 ~> write_count = 0)

(* A reader that waits while characters have been typed is woken, unless     *)
(* the typist never lets the handler out of its loop.                        *)
TypedWakesReaders ==
    <>[](input = 0) =>
        \A t \in TtyReaders : tty_pc[t] = "asleep" /\ input > 0 ~> tty_pc[t] # "asleep"
(* Both directions of the terminal go on as long as its handler gets out of  *)
(* the loop in which it reads.                                               *)
TtyProgress == WrittenIsPrinted /\ TypedWakesReaders
=============================================================================
