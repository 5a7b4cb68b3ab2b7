--------------------------------- MODULE Vfs ---------------------------------
(***************************************************************************)
(* The virtual filesystem (fs/vfs.c) with its three binary semaphores, as   *)
(* used by processes through their table of handles (proc/io.c), and the    *)
(* forced unmount at shutdown (vfs_deinit, called by halt_kernel).          *)
(*                                                                          *)
(* A filesystem is one driver instance; a call to a driver is a step of its *)
(* own, taken with the semaphores the code holds then.  The sections of     *)
(* vfs_start_op and vfs_end_op wait for nothing and are one step each.  The *)
(* id of a file is abstracted to the driver that issued it.                 *)
(***************************************************************************)
EXTENDS Integers, FiniteSets

CONSTANTS
    Threads,        \* the processes that use the VFS, one thread each
    MaxFiles,       \* CONFIG_MAX_OPEN_FILES
    MaxRows,        \* CONFIG_MAX_FILESYSTEMS
    Filesystems,    \* driver instances
    Names,          \* names of mount points
    NoFs,           \* NULL
    NoName,         \* the empty string
    NoThread,       \* the holder of a free semaphore
    MaxPos,         \* bound: a read or write moves the position up to it
    ForkShares,     \* processes fork, and so share handles
    BadHandles,     \* a process uses handle 2, which io.c maps to file -1
    MaxLeaked,      \* bound: files are used while fewer operations have leaked
    Halts           \* some process halts the system

VARIABLES
    mounted,        \* vfs_table.filesystems
    files,          \* openfile_table.files
    alive,          \* the driver instance is initialised
    vfs_ops, vfs_usable, vfs_unmount_sem,
    vfs_op_sem, table_sem, file_sem,    \* the holder of each lock
    handles,        \* the files of each process
    pc, loc,        \* where each thread is, with its local variables
    halted,         \* the machine is off
    leaked,         \* history: operations that returned without vfs_end_op
    touched         \* history: the open file has been read, written or sought

tables == <<mounted, files, alive>>
opVars == <<vfs_ops, vfs_usable, vfs_unmount_sem>>
vars == <<mounted, files, alive, vfs_ops, vfs_usable, vfs_unmount_sem, vfs_op_sem,
          table_sem, file_sem, handles, pc, loc, halted, leaked, touched>>

Files  == 0 .. (MaxFiles - 1)
Rows   == 0 .. (MaxRows - 1)
NoFile == -1
NoLocals == [op |-> "none", file |-> NoFile, name |-> NoName, fs |-> NoFs, id |-> NoFs]

ASSUME MaxFilesAssumption == MaxFiles \in Nat /\ MaxRows \in Nat /\ MaxPos \in Nat /\ MaxLeaked \in Nat
ASSUME ThreadsAssumption == IsFiniteSet(Threads)
ASSUME ConstantsAssumption ==
    NoFs \notin Filesystems /\ NoName \notin Names /\ NoThread \notin Threads

(* vfs_init, and vfs_mount_all on a system with one disk. *)
Init ==
    /\ \E g \in Filesystems, n \in Names :
         /\ mounted = [r \in Rows |-> IF r = 0 THEN [fs |-> g, name |-> n]
                                      ELSE [fs |-> NoFs, name |-> NoName]]
         /\ alive = [h \in Filesystems |-> h = g]
    /\ files = [f \in Files |-> [fs |-> NoFs, id |-> NoFs, pos |-> 0]]
    /\ vfs_ops = 0 /\ vfs_usable = TRUE /\ vfs_unmount_sem = 0
    /\ vfs_op_sem = NoThread /\ table_sem = NoThread /\ file_sem = NoThread
    /\ handles = [t \in Threads |-> {}]
    /\ pc = [t \in Threads |-> "idle"]
    /\ loc = [t \in Threads |-> NoLocals]
    /\ halted = FALSE
    /\ leaked = 0
    /\ touched = [f \in Files |-> FALSE]

At(t, label) == pc[t] = label /\ ~halted
Goto(t, label) == pc' = [pc EXCEPT ![t] = label]

(* Both tables' semaphores keep their holders, and the rest that most steps  *)
(* leave alone.                                                              *)
SameLocks == UNCHANGED <<vfs_op_sem, table_sem, file_sem>>
SameRest  == UNCHANGED <<opVars, handles, halted, leaked>>

----------------------------------------------------------------------------
(* Mutant: an operation that is refused is counted as well. *)
Started_refused == vfs_ops + 1

(* The number of operations after vfs_start_op, which refuses new ones once  *)
(* vfs_deinit has begun.                                                     *)
Started == IF vfs_usable THEN vfs_ops + 1 ELSE vfs_ops

(* vfs_start_op, as the first step of an operation with locals l, which goes *)
(* on at one of the labels.                                                  *)
vfs_start_op(t, l, labels) ==
    /\ At(t, "idle")
    /\ vfs_op_sem = NoThread
    /\ vfs_ops' = Started
    /\ IF vfs_usable
       THEN (\E label \in labels : Goto(t, label)) /\ loc' = [loc EXCEPT ![t] = l]
       ELSE UNCHANGED <<pc, loc>>
    /\ UNCHANGED <<mounted, files, vfs_usable, vfs_unmount_sem, halted, leaked, touched>>
    /\ SameLocks

(* Mutant: the last operation does not wake vfs_deinit. *)
UnmountWoken_never(ops) == vfs_unmount_sem

(* vfs_unmount_sem when ops operations are left: vfs_deinit is woken by the  *)
(* last one.                                                                 *)
UnmountWoken(ops) == vfs_unmount_sem + (IF ~vfs_usable /\ ops = 0 THEN 1 ELSE 0)

(* io_open adds the file that vfs_open returned to the process. *)
HandlesAfter(t) ==
    IF loc[t].op = "open" /\ loc[t].file # NoFile THEN handles[t] \union {loc[t].file} ELSE handles[t]

(* vfs_end_op, and what the caller does when the operation returns: io_open  *)
(* adds the file to the process, vfs_mount_fs gives up a driver that was not *)
(* mounted.                                                                  *)
vfs_end_op(t) ==
    /\ At(t, "end")
    /\ vfs_op_sem = NoThread
    /\ vfs_ops' = vfs_ops - 1
    /\ vfs_unmount_sem' = UnmountWoken(vfs_ops - 1)
    /\ handles' = [handles EXCEPT ![t] = HandlesAfter(t)]
    /\ alive' = [h \in Filesystems |-> alive[h] /\ ~(loc[t].op = "mount" /\ loc[t].fs = h)]
    /\ Goto(t, "idle")
    /\ loc' = [loc EXCEPT ![t] = NoLocals]
    /\ UNCHANGED <<mounted, files, vfs_usable, halted, leaked, touched>>
    /\ SameLocks

(* An operation that returns VFS_NOT_OPEN: vfs_end_op is not called. *)
NotOpen(t) ==
    /\ Goto(t, "idle")
    /\ loc' = [loc EXCEPT ![t] = NoLocals]
    /\ leaked' = leaked + 1
    /\ UNCHANGED <<tables, opVars, handles, halted, touched>>

(* vfs_verify_open *)
IsOpen(f) == f \in Files /\ files[f].fs # NoFs

(* vfs_get_filesystem, and the same search in vfs_unmount: the first row     *)
(* with the name, mounted or not.                                            *)
NamedRows(n) == {r \in Rows : mounted[r].name = n}
FirstOf(S) == CHOOSE r \in S : \A q \in S : r <= q
vfs_get_filesystem(n) == IF NamedRows(n) = {} THEN NoFs ELSE mounted[FirstOf(NamedRows(n))].fs

----------------------------------------------------------------------------
(* Mounting and unmounting. *)
vfs_mount_fs(t) ==
    \E g \in Filesystems, n \in Names :
        /\ ~alive[g]
        /\ vfs_start_op(t, [NoLocals EXCEPT !.op = "mount", !.name = n, !.fs = g], {"mount"})
        /\ alive' = [alive EXCEPT ![g] = vfs_usable]
        /\ UNCHANGED handles

FreeRows == {r \in Rows : mounted[r].fs = NoFs}

(* vfs_mount fails: no row is free, or a row has the name. *)
MountRefused(n) == FreeRows = {} \/ NamedRows(n) # {}

vfs_mount(t) ==
    LET n == loc[t].name
    IN /\ At(t, "mount")
       /\ table_sem = NoThread
       /\ IF MountRefused(n) THEN UNCHANGED <<mounted, loc>>
          ELSE /\ mounted' = [mounted EXCEPT ![FirstOf(FreeRows)] = [fs |-> loc[t].fs, name |-> n]]
               /\ loc' = [loc EXCEPT ![t].fs = NoFs]
       /\ Goto(t, "end")
       /\ UNCHANGED <<files, alive, touched>> /\ SameLocks /\ SameRest

Call_unmount(t) ==
    \E n \in Names :
        /\ vfs_start_op(t, [NoLocals EXCEPT !.op = "unmount", !.name = n], {"unmount"})
        /\ UNCHANGED <<handles, alive>>

(* Mutant: the table stays locked when nothing is mounted there. *)
UnmountFind_keeps_lock(t) ==
    /\ At(t, "unmount")
    /\ table_sem = NoThread
    /\ Goto(t, IF vfs_get_filesystem(loc[t].name) = NoFs THEN "end" ELSE "unmount_files")
    /\ table_sem' = t
    /\ UNCHANGED <<tables, touched, loc, vfs_op_sem, file_sem>> /\ SameRest

UnmountFind(t) ==
    /\ At(t, "unmount")
    /\ table_sem = NoThread
    /\ IF vfs_get_filesystem(loc[t].name) = NoFs
       THEN Goto(t, "end") /\ UNCHANGED table_sem
       ELSE Goto(t, "unmount_files") /\ table_sem' = t
    /\ UNCHANGED <<tables, touched, loc, vfs_op_sem, file_sem>> /\ SameRest

(* Mutant: open files do not keep a filesystem from being unmounted. *)
InUse_never(fs) == FALSE

(* The search for an open file in vfs_unmount. *)
InUse(fs) == \E f \in Files : files[f].fs = fs

UnmountFiles(t) ==
    LET fs == vfs_get_filesystem(loc[t].name)
    IN /\ At(t, "unmount_files")
       /\ file_sem = NoThread
       /\ IF InUse(fs)
          THEN table_sem' = NoThread /\ Goto(t, "end") /\ UNCHANGED <<file_sem, loc>>
          ELSE /\ file_sem' = t
               /\ loc' = [loc EXCEPT ![t].fs = fs]
               /\ Goto(t, "fs_unmount")
               /\ UNCHANGED table_sem
       /\ UNCHANGED <<tables, touched, vfs_op_sem>> /\ SameRest

FsUnmount(t) ==
    /\ At(t, "fs_unmount")
    /\ alive' = [alive EXCEPT ![loc[t].fs] = FALSE]
    /\ mounted' = [mounted EXCEPT ![FirstOf(NamedRows(loc[t].name))].fs = NoFs]
    /\ file_sem' = NoThread /\ table_sem' = NoThread
    /\ Goto(t, "end")
    /\ UNCHANGED <<files, touched, loc, vfs_op_sem>> /\ SameRest

vfs_unmount(t) == UnmountFind(t) \/ UnmountFiles(t) \/ FsUnmount(t)

----------------------------------------------------------------------------
(* Opening a file. *)
io_open(t) ==
    \E n \in Names :
        /\ vfs_start_op(t, [NoLocals EXCEPT !.op = "open", !.name = n], {"open_table", "end"})
        /\ UNCHANGED <<handles, alive>>

OpenTable(t) ==
    /\ At(t, "open_table")
    /\ table_sem = NoThread
    /\ table_sem' = t
    /\ Goto(t, "open_files")
    /\ UNCHANGED <<tables, touched, loc, vfs_op_sem, file_sem>> /\ SameRest

(* Mutant: the entry is not taken before the tables are unlocked. *)
Reserved_not(file, fs) == files

(* The entry of a file that is being opened: taken, with the id and the      *)
(* position of the last file in it.                                          *)
Reserved(file, fs) == [files EXCEPT ![file].fs = fs]

(* The entry is reserved, both tables are unlocked. *)
OpenReserve(t) ==
    LET free == {f \in Files : files[f].fs = NoFs}
        fs   == vfs_get_filesystem(loc[t].name)
        file == FirstOf(free)
    IN /\ At(t, "open_files")
       /\ file_sem = NoThread
       /\ IF free = {} \/ fs = NoFs THEN Goto(t, "end") /\ UNCHANGED <<files, loc>>
          ELSE /\ files' = Reserved(file, fs)
               /\ loc' = [loc EXCEPT ![t].fs = fs, ![t].file = file]
               /\ Goto(t, "fs_open")
       /\ table_sem' = NoThread
       /\ UNCHANGED <<mounted, alive, touched, vfs_op_sem, file_sem>> /\ SameRest

(* The driver's open returns an id or an error. *)
FsOpen(t) ==
    /\ At(t, "fs_open")
    /\ \E label \in {"open_set", "open_fail"} : Goto(t, label)
    /\ UNCHANGED <<tables, touched, loc>> /\ SameLocks /\ SameRest

OpenFail(t) ==
    /\ At(t, "open_fail")
    /\ file_sem = NoThread
    /\ files' = [files EXCEPT ![loc[t].file].fs = NoFs]
    /\ loc' = [loc EXCEPT ![t].file = NoFile]
    /\ Goto(t, "end")
    /\ UNCHANGED <<mounted, alive, touched>> /\ SameLocks /\ SameRest

(* The entry of the open file. *)
Filled(entry, fs) == [entry EXCEPT !.id = fs, !.pos = 0]

(* Without the semaphore. *)
OpenSet(t) ==
    /\ At(t, "open_set")
    /\ files' = [files EXCEPT ![loc[t].file] = Filled(@, loc[t].fs)]
    /\ touched' = [touched EXCEPT ![loc[t].file] = FALSE]
    /\ Goto(t, "end")
    /\ UNCHANGED <<mounted, alive, loc>> /\ SameLocks /\ SameRest

vfs_open(t) == OpenTable(t) \/ OpenReserve(t) \/ FsOpen(t) \/ OpenFail(t) \/ OpenSet(t)

----------------------------------------------------------------------------
(* Operations on an open file.  Handle 2 passes process_has_open_file as     *)
(* file -1 in io_close, io_seek and io_tell.                                 *)
Usable(t) == handles[t] \union (IF BadHandles THEN {NoFile} ELSE {})

io_close(t) ==
    \E f \in Usable(t) :
        /\ leaked < MaxLeaked
        /\ vfs_start_op(t, [NoLocals EXCEPT !.op = "close", !.file = f], {"close"})
        /\ handles' = [handles EXCEPT ![t] = @ \ {f}]
        /\ UNCHANGED alive

CloseEntry(t) ==
    LET f == loc[t].file
    IN /\ At(t, "close")
       /\ file_sem = NoThread
       /\ \/ ~IsOpen(f) /\ NotOpen(t) /\ UNCHANGED file_sem
          \/ /\ IsOpen(f)
             /\ file_sem' = t
             /\ loc' = [loc EXCEPT ![t].fs = files[f].fs]
             /\ Goto(t, "fs_close")
             /\ UNCHANGED <<tables, touched>> /\ SameRest
       /\ UNCHANGED <<vfs_op_sem, table_sem>>

FsClose(t) ==
    /\ At(t, "fs_close")
    /\ files' = [files EXCEPT ![loc[t].file].fs = NoFs]
    /\ file_sem' = NoThread
    /\ Goto(t, "end")
    /\ UNCHANGED <<mounted, alive, touched, loc, vfs_op_sem, table_sem>> /\ SameRest

vfs_close(t) == CloseEntry(t) \/ FsClose(t)

(* io_seek and io_tell *)
io_seek(t) ==
    \E f \in Usable(t), o \in {"seek", "tell"} :
        /\ leaked < MaxLeaked
        /\ vfs_start_op(t, [NoLocals EXCEPT !.op = o, !.file = f], {"seek"})
        /\ UNCHANGED <<handles, alive>>

vfs_seek(t) ==
    LET f == loc[t].file
    IN /\ At(t, "seek")
       /\ file_sem = NoThread
       /\ \/ ~IsOpen(f) /\ NotOpen(t)
          \/ /\ IsOpen(f)
             /\ IF loc[t].op = "seek"
                THEN /\ \E p \in 0 .. MaxPos : files' = [files EXCEPT ![f].pos = p]
                     /\ touched' = [touched EXCEPT ![f] = TRUE]
                ELSE UNCHANGED <<files, touched>>
             /\ Goto(t, "end")
             /\ UNCHANGED <<mounted, alive, loc>> /\ SameRest
       /\ SameLocks

(* io_read and io_write *)
io_read(t) ==
    \E f \in handles[t] :
        /\ leaked < MaxLeaked
        /\ vfs_start_op(t, [NoLocals EXCEPT !.op = "read", !.file = f], {"read"})
        /\ UNCHANGED <<handles, alive>>

(* vfs_read and vfs_write: the entry is read, the driver is called without   *)
(* a semaphore, and if it moved data the position is updated.                *)
ReadEntry(t) ==
    LET f == loc[t].file
    IN /\ At(t, "read")
       /\ file_sem = NoThread
       /\ \/ ~IsOpen(f) /\ NotOpen(t)
          \/ /\ IsOpen(f)
             /\ loc' = [loc EXCEPT ![t].fs = files[f].fs, ![t].id = files[f].id]
             /\ touched' = [touched EXCEPT ![f] = TRUE]
             /\ Goto(t, "fs_read")
             /\ UNCHANGED tables /\ SameRest
       /\ SameLocks

FsRead(t) ==
    /\ At(t, "fs_read")
    /\ \E label \in {"read_update", "end"} : Goto(t, label)
    /\ UNCHANGED <<tables, touched, loc>> /\ SameLocks /\ SameRest

ReadUpdate(t) ==
    LET f == loc[t].file
    IN /\ At(t, "read_update")
       /\ file_sem = NoThread
       /\ files' = [files EXCEPT ![f].pos = IF @ < MaxPos THEN @ + 1 ELSE @]
       /\ Goto(t, "end")
       /\ UNCHANGED <<mounted, alive, touched, loc>> /\ SameLocks /\ SameRest

vfs_read(t) == ReadEntry(t) \/ FsRead(t) \/ ReadUpdate(t)

----------------------------------------------------------------------------
(* vfs_create, vfs_remove and vfs_getfree call the driver with the table     *)
(* of mounted filesystems locked.                                            *)
io_create(t) ==
    \E n \in Names :
        /\ vfs_start_op(t, [NoLocals EXCEPT !.op = "create", !.name = n], {"create", "end"})
        /\ UNCHANGED <<handles, alive>>

CreateFind(t) ==
    LET fs == vfs_get_filesystem(loc[t].name)
    IN /\ At(t, "create")
       /\ table_sem = NoThread
       /\ IF fs = NoFs THEN Goto(t, "end") /\ UNCHANGED <<table_sem, loc>>
          ELSE /\ Goto(t, "fs_create")
               /\ table_sem' = t
               /\ loc' = [loc EXCEPT ![t].fs = fs]
       /\ UNCHANGED <<tables, touched, vfs_op_sem, file_sem>> /\ SameRest

FsCreate(t) ==
    /\ At(t, "fs_create")
    /\ table_sem' = NoThread
    /\ Goto(t, "end")
    /\ UNCHANGED <<tables, touched, loc, vfs_op_sem, file_sem>> /\ SameRest

vfs_create(t) == CreateFind(t) \/ FsCreate(t)

----------------------------------------------------------------------------
(* vfs_deinit, called by halt_kernel. *)
(* Mutant: the last pending operation is not waited for. *)
Pending_off_by_one == vfs_ops > 1

(* Operations are pending when vfs_deinit begins. *)
Pending == vfs_ops > 0

DeinitStart(t) ==
    /\ At(t, "idle")
    /\ Halts
    /\ vfs_op_sem = NoThread
    /\ vfs_usable' = FALSE
    /\ IF Pending THEN Goto(t, "deinit_wait") /\ UNCHANGED vfs_op_sem
       ELSE Goto(t, "deinit_table") /\ vfs_op_sem' = t
    /\ UNCHANGED <<tables, touched, vfs_ops, vfs_unmount_sem, table_sem, file_sem, handles,
                   loc, halted, leaked>>

DeinitWait(t) ==
    /\ At(t, "deinit_wait")
    /\ vfs_unmount_sem > 0
    /\ vfs_unmount_sem' = vfs_unmount_sem - 1
    /\ Goto(t, "deinit_op")
    /\ UNCHANGED <<tables, touched, vfs_ops, vfs_usable, handles, loc, halted, leaked>>
    /\ SameLocks

DeinitOp(t) ==
    /\ At(t, "deinit_op")
    /\ vfs_op_sem = NoThread
    /\ vfs_op_sem' = t
    /\ Goto(t, "deinit_table")
    /\ UNCHANGED <<tables, touched, loc, table_sem, file_sem>> /\ SameRest

DeinitTable(t) ==
    /\ At(t, "deinit_table")
    /\ table_sem = NoThread
    /\ table_sem' = t
    /\ Goto(t, "deinit_files")
    /\ UNCHANGED <<tables, touched, loc, vfs_op_sem, file_sem>> /\ SameRest

DeinitFiles(t) ==
    /\ At(t, "deinit_files")
    /\ file_sem = NoThread
    /\ file_sem' = t
    /\ Goto(t, "deinit_unmount")
    /\ UNCHANGED <<tables, touched, loc, vfs_op_sem, table_sem>> /\ SameRest

(* The filesystems are unmounted and the machine is switched off. *)
DeinitUnmount(t) ==
    /\ At(t, "deinit_unmount")
    /\ mounted' = [r \in Rows |-> [mounted[r] EXCEPT !.fs = NoFs]]
    /\ alive' = [h \in Filesystems |-> alive[h] /\ \A r \in Rows : mounted[r].fs # h]
    /\ file_sem' = NoThread /\ table_sem' = NoThread /\ vfs_op_sem' = NoThread
    /\ halted' = TRUE
    /\ Goto(t, "idle")
    /\ UNCHANGED <<files, touched, loc, opVars, handles, leaked>>

vfs_deinit(t) ==
    DeinitWait(t) \/ DeinitOp(t) \/ DeinitTable(t) \/ DeinitFiles(t) \/ DeinitUnmount(t)

(* process_fork: the child u has the parent's handles. *)
ForkHandles(t, u) ==
    /\ ForkShares
    /\ At(t, "idle") /\ At(u, "idle") /\ t # u
    /\ handles[u] = {}
    /\ handles' = [handles EXCEPT ![u] = handles[t]]
    /\ UNCHANGED <<tables, touched, opVars, pc, loc, halted, leaked>> /\ SameLocks

----------------------------------------------------------------------------
(* The start of an operation, and the steps that carry it on. *)
Begins(t) ==
    vfs_mount_fs(t) \/ Call_unmount(t) \/ io_open(t) \/ io_close(t) \/ io_seek(t) \/ io_read(t)
    \/ io_create(t) \/ DeinitStart(t) \/ \E u \in Threads : ForkHandles(t, u)

GoesOn(t) ==
    \/ vfs_mount(t) \/ vfs_unmount(t) \/ vfs_open(t) \/ vfs_close(t)
    \/ vfs_seek(t) \/ vfs_read(t) \/ vfs_create(t) \/ vfs_end_op(t)
    \/ vfs_deinit(t)

Off == halted /\ UNCHANGED vars

Next == Off \/ \E t \in Threads : Begins(t) \/ GoesOn(t)

(* The kernel's semaphores are first-come first-served (CountingSemaphore),  *)
(* so a thread that waits for one that is released again and again gets it.  *)
Fairness == \A t \in Threads : SF_vars(GoesOn(t))

Spec == Init /\ [][Next]_vars /\ Fairness

----------------------------------------------------------------------------
Labels == {"idle", "mount", "unmount", "unmount_files", "fs_unmount", "open_table", "open_files", "fs_open",
           "open_set", "open_fail", "close", "fs_close", "seek", "read", "fs_read", "read_update", "create",
           "fs_create", "end", "deinit_wait", "deinit_op", "deinit_table", "deinit_files",
           "deinit_unmount"}
Operations == {"none", "mount", "unmount", "open", "close", "seek", "tell", "read", "create"}
DeinitLabels == {"deinit_wait", "deinit_op", "deinit_table", "deinit_files", "deinit_unmount"}

(* The local variables of an operation. *)
Locals == [op : Operations, file : Files \union {NoFile}, name : Names \union {NoName},
           fs : Filesystems \union {NoFs}, id : Filesystems \union {NoFs}]

(* openfile_entry_t *)
Entries == [fs : Filesystems \union {NoFs}, id : Filesystems \union {NoFs}, pos : 0 .. MaxPos]

(* The variables have their types. *)
TypeOK ==
    /\ mounted \in [Rows -> [fs : Filesystems \union {NoFs}, name : Names \union {NoName}]]
    /\ files \in [Files -> Entries]
    /\ alive \in [Filesystems -> BOOLEAN]
    /\ vfs_ops \in Nat /\ vfs_usable \in BOOLEAN /\ vfs_unmount_sem \in Nat
    /\ {vfs_op_sem, table_sem, file_sem} \subseteq Threads \union {NoThread}
    /\ handles \in [Threads -> SUBSET Files]
    /\ pc \in [Threads -> Labels]
    /\ loc \in [Threads -> Locals]
    /\ touched \in [Files -> BOOLEAN]
    /\ halted \in BOOLEAN /\ leaked \in Nat

(* The threads inside an operation. *)
Active == {t \in Threads : pc[t] \notin {"idle"} \union DeinitLabels}

(* vfs_ops counts the active operations and those that returned             *)
(* VFS_NOT_OPEN without vfs_end_op: it never falls behind, so the            *)
(* assertions of vfs_end_op and vfs_deinit hold.  vfs_deinit goes on, or is  *)
(* woken, only when there are none and none is let in.                       *)
OpsCountOK ==
    /\ vfs_ops = Cardinality(Active) + leaked
    /\ vfs_unmount_sem > 0 \/ (\E t \in Threads : pc[t] \in DeinitLabels \ {"deinit_wait"}) =>
         vfs_ops = 0 /\ ~vfs_usable

(* The forced unmount at shutdown runs only when no thread is inside an      *)
(* operation, and none can start: no driver is called after it.              *)
ForcedUnmountAlone == (\E t \in Threads : pc[t] \in {"deinit_table", "deinit_files", "deinit_unmount"}) => Active = {}

(* A process has open files behind its handles: the entry is filled in, and  *)
(* so no operation on it returns VFS_NOT_OPEN.                               *)
HandlesOK(t) ==
    \A f \in handles[t] : IsOpen(f) /\ files[f].id = files[f].fs

(* The entry that t is opening, and has no handle for yet, or is closing,    *)
(* and has none for any longer.                                              *)
InHand(t) ==
    IF pc[t] \in {"fs_open", "open_set", "open_fail", "close", "fs_close"}
       \/ (pc[t] = "end" /\ loc[t].op = "open")
    THEN {loc[t].file} \ {NoFile} ELSE {}

(* Such an entry is taken: the driver's open runs without a semaphore, on an *)
(* entry that only fs marks.                                                 *)
InHandOK(t) ==
    /\ \A f \in InHand(t) :
         IsOpen(f) /\ f \notin handles[t] /\ (pc[t] = "end" => files[f].id = files[f].fs)
    /\ pc[t] \in {"fs_open", "open_set", "open_fail"} =>
         loc[t].file # NoFile /\ files[loc[t].file].fs = loc[t].fs
    /\ pc[t] \in {"open_table", "open_files"} => loc[t].file = NoFile
    /\ loc[t].op = "open" =>
         pc[t] \in {"open_table", "open_files", "fs_open", "open_set", "open_fail", "end"}

(* A thread works on a file that it has a handle for, and that stays open,   *)
(* with the driver it was opened on.                                         *)
WorksOnOwn(t) ==
    LET f == loc[t].file
    IN /\ pc[t] \in {"seek", "read"} => f \in handles[t] \union {NoFile}
       /\ pc[t] \in {"fs_read", "read_update"} => f \in handles[t] /\ loc[t].fs = files[f].fs /\ touched[f]
       /\ pc[t] = "fs_close" => f # NoFile /\ loc[t].fs = files[f].fs

(* No two processes have an entry in common, if they share no handles. *)
Own(t) == handles[t] \union InHand(t)
FilesApart == \A t, u \in Threads : t # u => Own(t) \intersect Own(u) = {}

(* vfs_open "Set file's seek position to zero": it stays there until the     *)
(* file is read, written or sought (roadmap.tex:4646).                       *)
NewFileAtZero == \A f \in Files : ~touched[f] => files[f].pos = 0

(* The table of open files: handles of processes that share none refer to    *)
(* files of their own, which begin at position zero (vfs_open, vfs_close).   *)
OpenFilesOK ==
    /\ TypeOK /\ FilesApart /\ NewFileAtZero
    /\ \A t \in Threads : HandlesOK(t) /\ InHandOK(t) /\ WorksOnOwn(t)

(* A driver is called only while it is initialised: neither vfs_unmount nor  *)
(* the forced unmount takes it away from under an operation or, before the   *)
(* machine is off, from under an open file.  tfs_unmount says of the         *)
(* driver's lock that "the semaphore should be free at this point"           *)
(* (tfs.c:188).                                                              *)
DriverAlive ==
    /\ \A t \in Threads : pc[t] \in {"fs_open", "fs_read", "fs_close", "fs_create", "fs_unmount"} => alive[loc[t].fs]
    /\ \A f \in Files : IsOpen(f) /\ ~halted => alive[files[f].fs]

(* Every mounted driver is initialised and mounted once, under one name; a   *)
(* row keeps its name when it is unmounted, and the name is not given again. *)
MountTableOK ==
    /\ \A r \in Rows : mounted[r].fs # NoFs => alive[mounted[r].fs]
    /\ \A q, r \in Rows : q # r =>
         /\ mounted[q].fs # NoFs => mounted[q].fs # mounted[r].fs
         /\ mounted[q].name # NoName => mounted[q].name # mounted[r].name

(* A thread is the one that holds the semaphores where it relies on them. *)
SemaphoresHeld(t) ==
    /\ pc[t] \in {"unmount_files", "fs_unmount", "open_files", "fs_create", "deinit_files", "deinit_unmount"} =>
         table_sem = t
    /\ pc[t] \in {"fs_unmount", "fs_close", "deinit_unmount"} => file_sem = t

(* The driver that t has initialised for vfs_mount_fs, until it is mounted   *)
(* or given up.                                                              *)
Initialised(t) ==
    IF pc[t] \in {"mount", "end"} /\ loc[t].op = "mount" THEN {loc[t].fs} \ {NoFs} ELSE {}

(* It is not in use yet, and no other thread has initialised it. *)
InitialisedUnused(t) ==
    \A g \in Initialised(t) :
        alive[g] /\ (\A r \in Rows : mounted[r].fs # g) /\ \A f \in Files : files[f].fs # g
InitialisedApart == \A t, u \in Threads : t # u => Initialised(t) \intersect Initialised(u) = {}

(* The driver that vfs_unmount or vfs_create has found under the name is     *)
(* still mounted there; the one that is being unmounted is not in use.       *)
DriverInHand(t) ==
    /\ pc[t] = "mount" => loc[t].op = "mount" /\ loc[t].fs # NoFs
    /\ loc[t].op = "mount" => pc[t] \in {"mount", "end"}
    /\ pc[t] \in {"mount", "unmount", "unmount_files", "fs_unmount", "open_table", "open_files", "create"} =>
         loc[t].name \in Names
    /\ pc[t] = "unmount_files" => vfs_get_filesystem(loc[t].name) # NoFs
    /\ pc[t] = "fs_unmount" =>
         loc[t].fs # NoFs /\ vfs_get_filesystem(loc[t].name) = loc[t].fs /\ ~InUse(loc[t].fs)
    /\ pc[t] = "fs_create" => loc[t].fs # NoFs /\ \E r \in Rows : mounted[r].fs = loc[t].fs

(* The mount table and the calls of drivers: what is mounted, or in use,     *)
(* has been initialised and not yet unmounted (vfs_mount, vfs_unmount).      *)
DriversOK ==
    /\ DriverAlive /\ MountTableOK /\ InitialisedApart
    /\ \A t \in Threads : SemaphoresHeld(t) /\ InitialisedUnused(t) /\ DriverInHand(t)

(* vfs_deinit finishes if no operation has been left uncounted. *)
ShutdownCompletes ==
    \A t \in Threads : pc[t] = "deinit_wait" ~> (halted \/ leaked > 0)

(* Every operation returns: the order in which the three semaphores are      *)
(* taken excludes a deadlock.                                                *)
OperationsReturn ==
    \A t \in Threads : t \in Active ~> (pc[t] = "idle" \/ halted)
=============================================================================
