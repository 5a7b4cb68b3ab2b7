------------------------------- MODULE VfsProofs -------------------------------
(***************************************************************************)
(* Proofs about the virtual filesystem, for any number of processes, open   *)
(* files, mount points, drivers and names.                                  *)
(***************************************************************************)
EXTENDS Vfs, FiniteSetTheorems, WellFoundedInduction, TLAPS

----------------------------------------------------------------------------
(* Lemmas about the operators of the model. *)

(* The first of some rows, or entries, is one of them. *)
LEMMA FirstIsOne ==
    ASSUME NEW S \in SUBSET Nat, S # {}
    PROVE  FirstOf(S) \in S
<1> DEFINE Less == OpToRel(<, Nat)
<1>1. \A x, y \in Nat : <<y, x>> \notin Less => x <= y
  BY DEF OpToRel
<1>2. IsWellFoundedOn(Less, Nat)
  BY NatLessThanWellFounded
<1> HIDE DEF Less
<1>3. \E x \in S : \A y \in S : <<y, x>> \notin Less
  BY <1>2, WFMin
<1>4. \E r \in S : \A q \in S : r <= q
  BY <1>1, <1>3
<1> QED BY <1>4 DEF FirstOf

(* The first of a set that is not empty is an element of it. *)
LEMMA FirstRow ==
    /\ \A n : NamedRows(n) # {} => FirstOf(NamedRows(n)) \in NamedRows(n)
    /\ FreeRows # {} => FirstOf(FreeRows) \in FreeRows
    /\ {f \in Files : files[f].fs = NoFs} # {} =>
         FirstOf({f \in Files : files[f].fs = NoFs}) \in {f \in Files : files[f].fs = NoFs}
<1>1. FreeRows \in SUBSET Nat /\ {f \in Files : files[f].fs = NoFs} \in SUBSET Nat
  BY MaxFilesAssumption DEF FreeRows, Rows, Files
<1>2. \A n : NamedRows(n) \in SUBSET Nat
  BY MaxFilesAssumption DEF NamedRows, Rows
<1> QED BY <1>1, <1>2, FirstIsOne

(* vfs_get_filesystem returns a filesystem mounted under the name, or none. *)
LEMMA FilesystemFound ==
    ASSUME TypeOK, NEW n
    PROVE  /\ vfs_get_filesystem(n) \in Filesystems \union {NoFs}
           /\ vfs_get_filesystem(n) # NoFs => \E r \in Rows : mounted[r].fs = vfs_get_filesystem(n) /\ mounted[r].name = n
BY FirstRow DEF vfs_get_filesystem, NamedRows, TypeOK

(* The locals with which operations begin. *)
LEMMA LocalsBegin ==
    /\ NoLocals \in Locals
    /\ \A o \in Operations, n \in Names : [NoLocals EXCEPT !.op = o, !.name = n] \in Locals
    /\ \A o \in Operations, f \in Files \union {NoFile} : [NoLocals EXCEPT !.op = o, !.file = f] \in Locals
    /\ \A n \in Names, g \in Filesystems :
         [NoLocals EXCEPT !.op = "mount", !.name = n, !.fs = g] \in Locals
<1>1. NoLocals \in Locals
  BY DEF NoLocals, Locals, Operations
<1>2. "mount" \in Operations
  BY DEF Operations
<1> QED BY <1>1, <1>2 DEF Locals

(* The assignments to locals and to entries of the table of open files. *)
LEMMA LocalsChange ==
    ASSUME TypeOK, NEW t \in Threads
    PROVE  /\ \A g \in Filesystems \union {NoFs} : [loc EXCEPT ![t].fs = g] \in [Threads -> Locals]
           /\ \A f \in Files \union {NoFile} : [loc EXCEPT ![t].file = f] \in [Threads -> Locals]
           /\ \A g \in Filesystems \union {NoFs}, f \in Files \union {NoFile} :
                [loc EXCEPT ![t].fs = g, ![t].file = f] \in [Threads -> Locals]
           /\ \A g, h \in Filesystems \union {NoFs} : [loc EXCEPT ![t].fs = g, ![t].id = h] \in [Threads -> Locals]
<1> SUFFICES ASSUME NEW g \in Filesystems \union {NoFs}, NEW h \in Filesystems \union {NoFs},
                    NEW f \in Files \union {NoFile}
             PROVE  /\ [loc EXCEPT ![t].fs = g] \in [Threads -> Locals]
                    /\ [loc EXCEPT ![t].file = f] \in [Threads -> Locals]
                    /\ [loc EXCEPT ![t].fs = g, ![t].file = f] \in [Threads -> Locals]
                    /\ [loc EXCEPT ![t].fs = g, ![t].id = h] \in [Threads -> Locals]
  BY Zenon
<1>1. loc \in [Threads -> Locals] /\ loc[t] \in Locals
  BY DEF TypeOK
<1>2. \A x \in Locals : [x EXCEPT !.fs = g] \in Locals /\ [x EXCEPT !.file = f] \in Locals /\ [x EXCEPT !.id = h] \in Locals
  BY DEF Locals
<1>3. \A x \in [Threads -> Locals] :
        /\ [x EXCEPT ![t].fs = g] \in [Threads -> Locals] /\ [x EXCEPT ![t].file = f] \in [Threads -> Locals]
        /\ [x EXCEPT ![t].id = h] \in [Threads -> Locals]
  BY <1>2
<1>4. PICK y \in [Threads -> Locals] : y = [loc EXCEPT ![t].fs = g]
  BY <1>1, <1>3
<1>5. [y EXCEPT ![t].file = f] \in [Threads -> Locals] /\ [y EXCEPT ![t].id = h] \in [Threads -> Locals]
  BY <1>3
<1> QED BY <1>1, <1>3, <1>4, <1>5

(* Assignments to an entry of the table of open files leave it well typed. *)
LEMMA EntriesChange ==
    ASSUME TypeOK, NEW f
    PROVE  /\ \A g \in Filesystems \union {NoFs} : [files EXCEPT ![f].fs = g] \in [Files -> Entries]
           /\ \A p \in 0 .. MaxPos : [files EXCEPT ![f].pos = p] \in [Files -> Entries]
           /\ \A g \in Filesystems \union {NoFs} : [files EXCEPT ![f] = Filled(@, g)] \in [Files -> Entries]
<1>1. files \in [Files -> Entries]
  BY DEF TypeOK
<1>2. ASSUME NEW g \in Filesystems \union {NoFs} PROVE [files EXCEPT ![f].fs = g] \in [Files -> Entries]
  <2>1. \A x \in Entries : [x EXCEPT !.fs = g] \in Entries
    BY DEF Entries
  <2> QED BY <1>1, <2>1
<1>3. ASSUME NEW p \in 0 .. MaxPos PROVE [files EXCEPT ![f].pos = p] \in [Files -> Entries]
  <2>1. \A x \in Entries : [x EXCEPT !.pos = p] \in Entries
    BY DEF Entries
  <2> QED BY <1>1, <2>1
<1>4. ASSUME NEW g \in Filesystems \union {NoFs} PROVE [files EXCEPT ![f] = Filled(@, g)] \in [Files -> Entries]
  <2>1. \A x \in Entries : [x EXCEPT !.id = g] \in Entries
    BY DEF Entries
  <2>2. \A x \in Entries : [x EXCEPT !.pos = 0] \in Entries
    BY MaxFilesAssumption DEF Entries
  <2>3. \A x \in Entries : Filled(x, g) \in Entries
    <3> SUFFICES ASSUME NEW x \in Entries PROVE Filled(x, g) \in Entries
      OBVIOUS
    <3>1. PICK y \in Entries : y = [x EXCEPT !.id = g]
      BY <2>1
    <3>2. Filled(x, g) = [y EXCEPT !.pos = 0]
      BY <3>1 DEF Filled
    <3> QED BY <2>2, <3>2
  <2> HIDE DEF Filled
  <2> QED BY <1>1, <2>3
<1> QED BY <1>2, <1>3, <1>4

----------------------------------------------------------------------------
(* The variables have their types. *)

LEMMA VfsInitialTypes == Init => TypeOK
<1> SUFFICES ASSUME Init PROVE TypeOK
  OBVIOUS
<1>1. PICK g \in Filesystems, n \in Names :
         /\ mounted = [r \in Rows |-> IF r = 0 THEN [fs |-> g, name |-> n]
                                      ELSE [fs |-> NoFs, name |-> NoName]]
         /\ alive = [h \in Filesystems |-> h = g]
  BY DEF Init
<1>2. mounted \in [Rows -> [fs : Filesystems \union {NoFs}, name : Names \union {NoName}]]
  BY <1>1
<1>3. alive \in [Filesystems -> BOOLEAN]
  BY <1>1
<1>4. files \in [Files -> Entries]
  BY MaxFilesAssumption DEF Init, Entries
<1>5. /\ handles \in [Threads -> SUBSET Files] /\ touched \in [Files -> BOOLEAN]
      /\ pc \in [Threads -> Labels] /\ loc \in [Threads -> Locals]
  BY LocalsBegin DEF Init, Labels
<1>6. /\ vfs_ops \in Nat /\ vfs_usable \in BOOLEAN /\ vfs_unmount_sem \in Nat
      /\ {vfs_op_sem, table_sem, file_sem} \subseteq Threads \union {NoThread}
      /\ halted \in BOOLEAN /\ leaked \in Nat
  BY DEF Init
<1> QED BY <1>2, <1>3, <1>4, <1>5, <1>6 DEF TypeOK

(* vfs_start_op changes the count, and where the thread is. *)
LEMMA StartTypes ==
    ASSUME TypeOK, NEW t \in Threads, NEW l \in Locals, NEW labels \in SUBSET Labels, vfs_start_op(t, l, labels)
    PROVE  /\ pc' \in [Threads -> Labels] /\ loc' \in [Threads -> Locals] /\ vfs_ops' \in Nat
           /\ UNCHANGED <<mounted, files, vfs_usable, vfs_unmount_sem, halted, leaked, touched,
                          vfs_op_sem, table_sem, file_sem>>
BY DEF vfs_start_op, TypeOK, Started, Goto, SameLocks

(* Starting an operation keeps the types. *)
LEMMA BeginTypes ==
    ASSUME TypeOK, NEW t \in Threads, Begins(t)
    PROVE  TypeOK'
<1> USE DEF Labels
<1>1. ASSUME vfs_mount_fs(t) PROVE TypeOK'
  <2>1. PICK g \in Filesystems, n \in Names :
          /\ vfs_start_op(t, [NoLocals EXCEPT !.op = "mount", !.name = n, !.fs = g], {"mount"})
          /\ alive' = [alive EXCEPT ![g] = vfs_usable]
          /\ UNCHANGED handles
    BY <1>1 DEF vfs_mount_fs
  <2>2. alive' \in [Filesystems -> BOOLEAN]
    BY <2>1 DEF TypeOK
  <2> QED BY <2>1, <2>2, LocalsBegin, StartTypes DEF TypeOK
<1>2. ASSUME Call_unmount(t) \/ io_open(t) \/ io_create(t) PROVE TypeOK'
  <2>1. PICK n \in Names, o \in {"unmount", "open", "create"}, labels \in SUBSET Labels :
          vfs_start_op(t, [NoLocals EXCEPT !.op = o, !.name = n], labels) /\ UNCHANGED <<handles, alive>>
    BY <1>2 DEF Call_unmount, io_open, io_create
  <2> QED BY <2>1, LocalsBegin, StartTypes, ZenonT(30) DEF TypeOK, Operations
<1>3. ASSUME io_close(t) PROVE TypeOK'
  <2>1. PICK f \in Usable(t) :
          /\ vfs_start_op(t, [NoLocals EXCEPT !.op = "close", !.file = f], {"close"})
          /\ handles' = [handles EXCEPT ![t] = @ \ {f}]
          /\ UNCHANGED alive
    BY <1>3 DEF io_close
  <2>2. f \in Files \union {NoFile} /\ handles' \in [Threads -> SUBSET Files]
    BY <2>1 DEF Usable, TypeOK
  <2> QED BY <2>1, <2>2, LocalsBegin, StartTypes DEF TypeOK, Operations
<1>4. ASSUME io_seek(t) \/ io_read(t) PROVE TypeOK'
  <2>1. PICK f \in Files \union {NoFile}, o \in {"seek", "tell", "read"}, labels \in SUBSET Labels :
          vfs_start_op(t, [NoLocals EXCEPT !.op = o, !.file = f], labels) /\ UNCHANGED <<handles, alive>>
    BY <1>4 DEF io_seek, io_read, Usable, TypeOK
  <2> QED BY <2>1, LocalsBegin, StartTypes, ZenonT(30) DEF TypeOK, Operations
<1>5. ASSUME DeinitStart(t) PROVE TypeOK'
  BY <1>5 DEF DeinitStart, TypeOK, Goto, tables
<1>6. ASSUME NEW u \in Threads, ForkHandles(t, u) PROVE TypeOK'
  BY <1>6 DEF ForkHandles, TypeOK, tables, opVars, SameLocks
<1> QED BY <1>1, <1>2, <1>3, <1>4, <1>5, <1>6 DEF Begins

(* Going on with an operation keeps the types: the counter is not lowered below zero. *)
LEMMA GoOnTypes ==
    ASSUME TypeOK, NEW t \in Threads, GoesOn(t), t \in Active => vfs_ops > 0
    PROVE  TypeOK'
<1> USE DEF Labels, Goto, SameLocks, SameRest, tables, opVars
<1> DEFINE l == loc[t]
<1>0. l \in Locals /\ l.fs \in Filesystems \union {NoFs} /\ l.file \in Files \union {NoFile}
  BY DEF TypeOK, Locals
<1>1. ASSUME vfs_mount(t) PROVE TypeOK'
  <2>1. /\ pc' \in [Threads -> Labels]
        /\ UNCHANGED <<files, alive, touched, vfs_ops, vfs_usable, vfs_unmount_sem, handles, halted, leaked,
                       vfs_op_sem, table_sem, file_sem>>
    BY <1>1 DEF vfs_mount, TypeOK
  <2>2. CASE MountRefused(l.name)
    <3>1. UNCHANGED <<mounted, loc>>
      BY <1>1, <2>2 DEF vfs_mount
    <3> QED BY <2>1, <3>1 DEF TypeOK
  <2>3. CASE ~MountRefused(l.name)
    <3>1. /\ mounted' = [mounted EXCEPT ![FirstOf(FreeRows)] = [fs |-> l.fs, name |-> l.name]]
          /\ loc' = [loc EXCEPT ![t].fs = NoFs]
      BY <1>1, <2>3 DEF vfs_mount
    <3>2. mounted' \in [Rows -> [fs : Filesystems \union {NoFs}, name : Names \union {NoName}]]
      BY <1>0, <3>1 DEF TypeOK, Locals
    <3>3. loc' \in [Threads -> Locals]
      BY <3>1, ZenonT(30) DEF TypeOK, Locals
    <3> QED BY <2>1, <3>2, <3>3 DEF TypeOK
  <2> QED BY <2>2, <2>3
<1>2. ASSUME UnmountFind(t) PROVE TypeOK'
  BY <1>2 DEF UnmountFind, TypeOK
<1>3. ASSUME UnmountFiles(t) PROVE TypeOK'
  <2>1. /\ pc' \in [Threads -> Labels] /\ {table_sem', file_sem'} \subseteq Threads \union {NoThread}
        /\ UNCHANGED <<tables, touched, vfs_ops, vfs_usable, vfs_unmount_sem, handles, halted, leaked, vfs_op_sem>>
        /\ loc' = loc \/ \E g \in Filesystems \union {NoFs} : loc' = [loc EXCEPT ![t].fs = g]
    BY <1>3, FilesystemFound DEF UnmountFiles, TypeOK
  <2>2. loc' \in [Threads -> Locals]
    <3>1. CASE loc' = loc
      BY <3>1 DEF TypeOK
    <3>2. ASSUME NEW g \in Filesystems \union {NoFs}, loc' = [loc EXCEPT ![t].fs = g]
          PROVE  loc' \in [Threads -> Locals]
      BY <3>2, LocalsChange
    <3> QED BY <2>1, <3>1, <3>2
  <2> QED BY <2>1, <2>2 DEF TypeOK
<1>4. ASSUME FsUnmount(t) PROVE TypeOK'
  <2>1. alive' \in [Filesystems -> BOOLEAN]
    BY <1>4 DEF FsUnmount, TypeOK
  <2>2. mounted' \in [Rows -> [fs : Filesystems \union {NoFs}, name : Names \union {NoName}]]
    BY <1>4 DEF FsUnmount, TypeOK
  <2> QED BY <1>4, <2>1, <2>2 DEF FsUnmount, TypeOK
<1>5. ASSUME OpenTable(t) \/ FsOpen(t) \/ FsRead(t) \/ FsCreate(t) PROVE TypeOK'
  BY <1>5 DEF OpenTable, FsOpen, FsRead, FsCreate, TypeOK
<1>6. ASSUME OpenReserve(t) PROVE TypeOK'
  <2> DEFINE free == {f \in Files : files[f].fs = NoFs}
  <2>1. /\ pc' \in [Threads -> Labels] /\ table_sem' = NoThread
        /\ UNCHANGED <<mounted, alive, touched, vfs_ops, vfs_usable, vfs_unmount_sem, handles, halted, leaked,
                       vfs_op_sem, file_sem>>
    BY <1>6 DEF OpenReserve, TypeOK
  <2>2. \/ UNCHANGED <<files, loc>>
        \/ \E f \in Files, g \in Filesystems \union {NoFs} :
             /\ files' = [files EXCEPT ![f].fs = g]
             /\ loc' = [loc EXCEPT ![t].fs = g, ![t].file = f]
    BY <1>6, FirstRow, FilesystemFound DEF OpenReserve, Reserved
  <2>3. files' \in [Files -> Entries]
    <3>1. CASE files' = files
      BY <3>1 DEF TypeOK
    <3>2. ASSUME NEW f \in Files, NEW g \in Filesystems \union {NoFs}, files' = [files EXCEPT ![f].fs = g]
          PROVE  files' \in [Files -> Entries]
      BY <3>2, EntriesChange
    <3> QED BY <2>2, <3>1, <3>2
  <2>4. loc' \in [Threads -> Locals]
    <3>1. CASE loc' = loc
      BY <3>1 DEF TypeOK
    <3>2. ASSUME NEW f \in Files, NEW g \in Filesystems \union {NoFs},
                 loc' = [loc EXCEPT ![t].fs = g, ![t].file = f]
          PROVE  loc' \in [Threads -> Locals]
      BY <3>2, LocalsChange
    <3> QED BY <2>2, <3>1, <3>2
  <2> QED BY <2>1, <2>3, <2>4 DEF TypeOK
<1>7. ASSUME OpenFail(t) PROVE TypeOK'
  <2>1. files' \in [Files -> Entries]
    BY <1>7, EntriesChange DEF OpenFail
  <2>2. loc' \in [Threads -> Locals]
    <3>1. loc \in [Threads -> Locals] /\ loc' = [loc EXCEPT ![t].file = NoFile]
      BY <1>7 DEF OpenFail, TypeOK
    <3>2. [loc[t] EXCEPT !.file = NoFile] \in Locals
      BY <3>1 DEF Locals
    <3> QED BY <3>1, <3>2
  <2> QED BY <1>7, <2>1, <2>2 DEF OpenFail, TypeOK
<1>8. ASSUME OpenSet(t) PROVE TypeOK'
  <2>1. files' \in [Files -> Entries]
    BY <1>0, <1>8, EntriesChange DEF OpenSet
  <2>2. touched' \in [Files -> BOOLEAN]
    BY <1>8 DEF OpenSet, TypeOK
  <2> QED BY <1>8, <2>1, <2>2 DEF OpenSet, TypeOK
<1>9. ASSUME NotOpen(t), UNCHANGED <<vfs_op_sem, table_sem, file_sem>> PROVE TypeOK'
  <2>1. loc' \in [Threads -> Locals] /\ pc' \in [Threads -> Labels]
    BY <1>9, LocalsBegin DEF NotOpen, TypeOK
  <2>2. leaked' \in Nat
    BY <1>9 DEF NotOpen, TypeOK
  <2> QED BY <1>9, <2>1, <2>2 DEF NotOpen, TypeOK
<1>10. ASSUME CloseEntry(t), IsOpen(l.file) PROVE TypeOK'
  <2>1. files[l.file].fs \in Filesystems \union {NoFs}
    BY <1>10 DEF IsOpen, TypeOK, Entries
  <2>2. loc' \in [Threads -> Locals]
    <3>1. loc' = [loc EXCEPT ![t].fs = files[l.file].fs]
      BY <1>10 DEF CloseEntry
    <3> QED BY <2>1, <3>1, LocalsChange
  <2> QED BY <1>10, <2>2 DEF CloseEntry, TypeOK
<1>11. ASSUME FsClose(t) PROVE TypeOK'
  <2>1. files' \in [Files -> Entries]
    BY <1>11, EntriesChange DEF FsClose
  <2> QED BY <1>11, <2>1 DEF FsClose, TypeOK
<1>12. ASSUME vfs_seek(t), IsOpen(l.file) PROVE TypeOK'
  <2>1. files' \in [Files -> Entries]
    <3>1. files' = files \/ \E p \in 0 .. MaxPos : files' = [files EXCEPT ![l.file].pos = p]
      BY <1>12 DEF vfs_seek
    <3>2. CASE files' = files
      BY <3>2 DEF TypeOK
    <3>3. ASSUME NEW p \in 0 .. MaxPos, files' = [files EXCEPT ![l.file].pos = p] PROVE files' \in [Files -> Entries]
      BY <3>3, EntriesChange
    <3> QED BY <3>1, <3>2, <3>3
  <2>2. touched' \in [Files -> BOOLEAN]
    BY <1>12 DEF vfs_seek, TypeOK
  <2> QED BY <1>12, <2>1, <2>2 DEF vfs_seek, TypeOK
<1>13. ASSUME ReadEntry(t), IsOpen(l.file) PROVE TypeOK'
  <2>1. files[l.file].fs \in Filesystems \union {NoFs} /\ files[l.file].id \in Filesystems \union {NoFs}
    BY <1>13 DEF IsOpen, TypeOK, Entries
  <2>2. loc' \in [Threads -> Locals]
    BY <1>13, <2>1, SMTT(20) DEF ReadEntry, TypeOK, Locals
  <2>3. touched' \in [Files -> BOOLEAN]
    BY <1>13 DEF ReadEntry, TypeOK
  <2> QED BY <1>13, <2>2, <2>3 DEF ReadEntry, TypeOK
<1>14. ASSUME ReadUpdate(t) PROVE TypeOK'
  <2>1. files' \in [Files -> Entries]
    <3>1. CASE l.file \notin Files
      BY <1>14, <3>1 DEF ReadUpdate, TypeOK
    <3>2. CASE l.file \in Files
      <4>1. files[l.file].pos \in 0 .. MaxPos
        BY <3>2 DEF TypeOK, Entries
      <4>2. PICK p \in 0 .. MaxPos : p = IF files[l.file].pos < MaxPos THEN files[l.file].pos + 1 ELSE files[l.file].pos
        BY <4>1, MaxFilesAssumption
      <4>3. files' = [files EXCEPT ![l.file].pos = p]
        BY <1>14, <4>2 DEF ReadUpdate
      <4> QED BY <4>3, EntriesChange
    <3> QED BY <3>1, <3>2
  <2> QED BY <1>14, <2>1 DEF ReadUpdate, TypeOK
<1>15. ASSUME CreateFind(t) PROVE TypeOK'
  <2>1. loc' = loc \/ \E g \in Filesystems \union {NoFs} : loc' = [loc EXCEPT ![t].fs = g]
    BY <1>15, FilesystemFound DEF CreateFind
  <2>2. loc' \in [Threads -> Locals]
    <3>1. CASE loc' = loc
      BY <3>1 DEF TypeOK
    <3>2. ASSUME NEW g \in Filesystems \union {NoFs}, loc' = [loc EXCEPT ![t].fs = g]
          PROVE  loc' \in [Threads -> Locals]
      BY <3>2, LocalsChange
    <3> QED BY <2>1, <3>1, <3>2
  <2> QED BY <1>15, <2>2 DEF CreateFind, TypeOK
<1>16. ASSUME vfs_end_op(t), vfs_ops > 0 PROVE TypeOK'
  <2>1. handles' \in [Threads -> SUBSET Files]
    <3>1. HandlesAfter(t) \in SUBSET Files
      BY <1>0 DEF HandlesAfter, TypeOK
    <3> QED BY <1>16, <3>1 DEF vfs_end_op, TypeOK
  <2>2. vfs_ops' \in Nat /\ vfs_unmount_sem' \in Nat
    BY <1>16 DEF vfs_end_op, UnmountWoken, TypeOK
  <2>3. alive' \in [Filesystems -> BOOLEAN]
    BY <1>16 DEF vfs_end_op
  <2>4. loc' \in [Threads -> Locals] /\ pc' \in [Threads -> Labels]
    BY <1>16, LocalsBegin DEF vfs_end_op, TypeOK
  <2> QED BY <1>16, <2>1, <2>2, <2>3, <2>4 DEF vfs_end_op, TypeOK
<1>17. ASSUME vfs_deinit(t) PROVE TypeOK'
  <2>1. CASE DeinitWait(t)
    BY <2>1 DEF DeinitWait, TypeOK
  <2>2. CASE DeinitOp(t) \/ DeinitTable(t) \/ DeinitFiles(t)
    BY <2>2 DEF DeinitOp, DeinitTable, DeinitFiles, TypeOK
  <2>3. CASE DeinitUnmount(t)
    <3>1. mounted' \in [Rows -> [fs : Filesystems \union {NoFs}, name : Names \union {NoName}]]
      BY <2>3, ZenonT(30) DEF DeinitUnmount, TypeOK
    <3>2. alive' \in [Filesystems -> BOOLEAN]
      BY <2>3 DEF DeinitUnmount
    <3> QED BY <2>3, <3>1, <3>2 DEF DeinitUnmount, TypeOK
  <2> QED BY <1>17, <2>1, <2>2, <2>3 DEF vfs_deinit
<1> QED
  BY <1>1, <1>2, <1>3, <1>4, <1>5, <1>6, <1>7, <1>8, <1>9, <1>10, <1>11, <1>12, <1>13, <1>14, <1>15, <1>16, <1>17
  DEF GoesOn, vfs_unmount, vfs_open, vfs_close, vfs_read, vfs_create, CloseEntry, vfs_seek, ReadEntry, vfs_end_op, At, Active, DeinitLabels

----------------------------------------------------------------------------
(* The count of operations. *)

(* How many are inside an operation after one thread has moved. *)
LEMMA ActiveAfter ==
    ASSUME TypeOK, NEW t \in Threads, NEW label \in Labels, Goto(t, label)
    PROVE  /\ Cardinality(Active) \in Nat
           /\ t \in Active => Cardinality(Active) > 0
           /\ Cardinality(Active)' =
                CASE t \in Active /\ label \in {"idle"} \union DeinitLabels -> Cardinality(Active) - 1
                  [] t \notin Active /\ label \notin {"idle"} \union DeinitLabels -> Cardinality(Active) + 1
                  [] OTHER -> Cardinality(Active)
<1>1. IsFiniteSet(Active) /\ Cardinality(Active) \in Nat
  BY ThreadsAssumption, FS_Subset, FS_CardinalityType DEF Active
<1>2. t \in Active => Cardinality(Active) > 0
  BY <1>1, FS_EmptySet
<1>3. pc \in [Threads -> Labels] /\ pc' = [pc EXCEPT ![t] = label]
  BY DEF TypeOK, Goto
<1>4. Active' = IF label \in {"idle"} \union DeinitLabels THEN Active \ {t} ELSE Active \union {t}
  BY <1>3 DEF Active
<1>5. /\ Cardinality(Active \ {t}) = IF t \in Active THEN Cardinality(Active) - 1 ELSE Cardinality(Active)
      /\ Cardinality(Active \union {t}) = IF t \in Active THEN Cardinality(Active) ELSE Cardinality(Active) + 1
  BY <1>1, FS_AddElement, FS_RemoveElement
<1> QED BY <1>1, <1>2, <1>4, <1>5

(* A thread that goes on with its operation, or begins one, or ends it. *)
LEMMA CountKept ==
    ASSUME TypeOK, OpsCountOK, NEW t \in Threads, NEW label \in Labels, Goto(t, label), t \in Active,
           label \notin {"idle"} \union DeinitLabels, UNCHANGED <<opVars, leaked>>
    PROVE  OpsCountOK'
<1>1. vfs_ops' = Cardinality(Active)' + leaked'
  BY ActiveAfter DEF OpsCountOK, opVars
<1>2. \A u \in Threads : pc'[u] \in DeinitLabels \ {"deinit_wait"} => pc[u] \in DeinitLabels \ {"deinit_wait"}
  BY DEF Goto, TypeOK
<1> QED BY <1>1, <1>2 DEF OpsCountOK, opVars

(* vfs_start_op counts the thread that becomes active. *)
LEMMA StartCounts ==
    ASSUME TypeOK, OpsCountOK, NEW t \in Threads, NEW l,
           NEW labels \in SUBSET (Labels \ ({"idle"} \union DeinitLabels)), vfs_start_op(t, l, labels)
    PROVE  OpsCountOK'
<1>1. CASE ~vfs_usable
  BY <1>1 DEF vfs_start_op, Started, OpsCountOK, Active
<1>2. CASE vfs_usable
  <2>1. PICK label \in labels : Goto(t, label)
    BY <1>2 DEF vfs_start_op
  <2>2. /\ vfs_ops' = vfs_ops + 1 /\ UNCHANGED <<vfs_usable, vfs_unmount_sem, leaked>>
        /\ t \notin Active
    BY <1>2 DEF vfs_start_op, Started, At, Active
  <2>3. vfs_ops' = Cardinality(Active)' + leaked'
    BY <2>1, <2>2, ActiveAfter DEF OpsCountOK, TypeOK
  <2>4. \A u \in Threads : pc'[u] \in DeinitLabels \ {"deinit_wait"} => pc[u] \in DeinitLabels \ {"deinit_wait"}
    BY <2>1 DEF Goto, TypeOK
  <2> QED BY <1>2, <2>2, <2>3, <2>4 DEF OpsCountOK
<1> QED BY <1>1, <1>2

(* vfs_end_op stops counting the thread that becomes idle. *)
LEMMA EndCounts ==
    ASSUME TypeOK, OpsCountOK, NEW t \in Threads, vfs_end_op(t)
    PROVE  OpsCountOK'
<1>1. t \in Active /\ Goto(t, "idle") /\ "idle" \in Labels
  BY DEF vfs_end_op, At, Active, DeinitLabels, Labels
<1>2. Cardinality(Active) \in Nat /\ Cardinality(Active) > 0 /\ Cardinality(Active)' = Cardinality(Active) - 1
  BY <1>1, ActiveAfter
<1>3. /\ vfs_ops' = vfs_ops - 1 /\ vfs_ops > 0 /\ UNCHANGED <<vfs_usable, leaked>>
      /\ vfs_unmount_sem' = UnmountWoken(vfs_ops - 1)
  BY <1>2 DEF vfs_end_op, OpsCountOK, TypeOK
<1>4. vfs_unmount_sem = 0 /\ \A u \in Threads : pc[u] \notin DeinitLabels \ {"deinit_wait"}
  BY <1>3 DEF OpsCountOK, TypeOK
<1>5. \A u \in Threads : pc'[u] \notin DeinitLabels \ {"deinit_wait"}
  BY <1>1, <1>4 DEF Goto, TypeOK, DeinitLabels
<1>6. vfs_unmount_sem' > 0 => vfs_ops' = 0 /\ ~vfs_usable'
  BY <1>3, <1>4 DEF UnmountWoken
<1> QED BY <1>2, <1>3, <1>5, <1>6 DEF OpsCountOK, TypeOK

(* An operation that ends without vfs_end_op is counted as leaked. *)
LEMMA NotOpenCounts ==
    ASSUME TypeOK, OpsCountOK, NEW t \in Threads, t \in Active, NotOpen(t)
    PROVE  OpsCountOK'
<1>1. Goto(t, "idle") /\ "idle" \in Labels
  BY DEF NotOpen, Labels
<1>2. Cardinality(Active) \in Nat /\ Cardinality(Active) > 0 /\ Cardinality(Active)' = Cardinality(Active) - 1
  BY <1>1, ActiveAfter
<1>3. UNCHANGED <<vfs_ops, vfs_usable, vfs_unmount_sem>> /\ leaked' = leaked + 1
  BY DEF NotOpen, opVars
<1>4. \A u \in Threads : pc'[u] \in DeinitLabels \ {"deinit_wait"} => pc[u] \in DeinitLabels \ {"deinit_wait"}
  BY <1>1 DEF Goto, TypeOK, DeinitLabels
<1> QED BY <1>2, <1>3, <1>4 DEF OpsCountOK, TypeOK

(* vfs_deinit is no counted operation. *)
LEMMA DeinitCounts ==
    ASSUME TypeOK, OpsCountOK, NEW t \in Threads, DeinitStart(t) \/ vfs_deinit(t)
    PROVE  OpsCountOK'
<1>1. PICK label \in {"idle"} \union DeinitLabels :
        /\ Goto(t, label) /\ label \in Labels
        /\ label \in DeinitLabels \ {"deinit_wait"} => vfs_ops = 0 /\ ~vfs_usable'
  BY DEF DeinitStart, vfs_deinit, DeinitWait, DeinitOp, DeinitTable, DeinitFiles, DeinitUnmount, Pending, At,
         OpsCountOK, DeinitLabels, Labels, TypeOK, SameRest, opVars
<1>2. /\ t \notin Active /\ UNCHANGED <<vfs_ops, leaked>> /\ (vfs_usable' => vfs_usable)
      /\ vfs_unmount_sem' > 0 => vfs_unmount_sem > 0
  BY DEF DeinitStart, vfs_deinit, DeinitWait, DeinitOp, DeinitTable, DeinitFiles, DeinitUnmount, At, Active,
         DeinitLabels, TypeOK, SameRest, opVars
<1>3. vfs_ops' = Cardinality(Active)' + leaked'
  BY <1>1, <1>2, ActiveAfter DEF OpsCountOK
<1>4. \A u \in Threads : pc'[u] \in DeinitLabels \ {"deinit_wait"} =>
         pc[u] \in DeinitLabels \ {"deinit_wait"} \/ (vfs_ops = 0 /\ ~vfs_usable')
  BY <1>1 DEF Goto, TypeOK
<1> QED BY <1>2, <1>3, <1>4 DEF OpsCountOK

(* Every step keeps the counter exact up to leaks. *)
LEMMA OpsStep ==
    ASSUME TypeOK, OpsCountOK, [Next]_vars
    PROVE  OpsCountOK'
<1>1. CASE UNCHANGED vars
  BY <1>1 DEF OpsCountOK, Active, vars
<1>2. ASSUME NEW t \in Threads, Begins(t) PROVE OpsCountOK'
  <2>1. ASSUME NEW u \in Threads, ForkHandles(t, u) PROVE OpsCountOK'
    BY <2>1 DEF ForkHandles, OpsCountOK, Active, opVars
  <2>2. {"mount", "unmount", "open_table", "close", "seek", "read", "create", "end"}
          \subseteq Labels \ ({"idle"} \union DeinitLabels)
    BY DEF Labels, DeinitLabels
  <2>3. CASE vfs_mount_fs(t) \/ Call_unmount(t) \/ io_open(t) \/ io_close(t) \/ io_seek(t) \/ io_read(t) \/ io_create(t)
    <3>1. \E l : \E labels \in SUBSET {"mount", "unmount", "open_table", "close", "seek", "read", "create", "end"} :
             vfs_start_op(t, l, labels)
      BY <2>3, Zenon DEF vfs_mount_fs, Call_unmount, io_open, io_close, io_seek, io_read, io_create
    <3>2. PICK l, labels : /\ labels \in SUBSET (Labels \ ({"idle"} \union DeinitLabels))
                           /\ vfs_start_op(t, l, labels)
      BY <2>2, <3>1
    <3> QED BY <3>2, StartCounts
  <2> QED BY <1>2, <2>1, <2>3, DeinitCounts DEF Begins
<1>3. ASSUME NEW t \in Threads, GoesOn(t) PROVE OpsCountOK'
  <2>1. CASE vfs_end_op(t)
    BY <2>1, EndCounts
  <2>2. CASE vfs_deinit(t)
    BY <2>2, DeinitCounts
  <2>3. CASE NotOpen(t) /\ pc[t] \in {"close", "seek", "read"}
    BY <2>3, NotOpenCounts DEF Active, DeinitLabels
  <2>4. ASSUME ~(NotOpen(t) /\ pc[t] \in {"close", "seek", "read"}), ~vfs_end_op(t), ~vfs_deinit(t)
        PROVE  OpsCountOK'
    <3>1. t \in Active /\ UNCHANGED <<opVars, leaked>>
      BY <1>3, <2>4 DEF GoesOn, vfs_mount, vfs_unmount, UnmountFind, UnmountFiles, FsUnmount, vfs_open, OpenTable,
         OpenReserve, FsOpen, OpenFail, OpenSet, vfs_close, CloseEntry, FsClose, vfs_seek, vfs_read, ReadEntry,
         FsRead, ReadUpdate, vfs_create, CreateFind, FsCreate, SameRest, At, Active, DeinitLabels
    <3>2. \E label \in Labels \ ({"idle"} \union DeinitLabels) : Goto(t, label)
      <4>1. \E label \in {"unmount_files", "fs_unmount", "open_files", "fs_open", "open_set", "open_fail",
                           "fs_close", "fs_read", "read_update", "fs_create", "end"} : Goto(t, label)
        BY <1>3, <2>4 DEF GoesOn, vfs_mount, vfs_unmount, UnmountFind, UnmountFiles, FsUnmount, vfs_open, OpenTable,
           OpenReserve, FsOpen, OpenFail, OpenSet, vfs_close, CloseEntry, FsClose, vfs_seek, vfs_read, ReadEntry,
           FsRead, ReadUpdate, vfs_create, CreateFind, FsCreate, At
      <4> QED BY <4>1 DEF Labels, DeinitLabels
    <3> QED BY <3>1, <3>2, CountKept
  <2> QED BY <2>1, <2>2, <2>3, <2>4
<1> QED BY <1>1, <1>2, <1>3 DEF Next, Off

(* Every step keeps the types. *)
LEMMA TypeStep ==
    ASSUME TypeOK, OpsCountOK, [Next]_vars
    PROVE  TypeOK'
<1>1. CASE UNCHANGED vars
  BY <1>1 DEF TypeOK, vars
<1>2. ASSUME NEW t \in Threads, GoesOn(t) PROVE TypeOK'
  <2>1. t \in Active => vfs_ops > 0
    <3>1. IsFiniteSet(Active) /\ Cardinality(Active) \in Nat
      BY ThreadsAssumption, FS_Subset, FS_CardinalityType DEF Active
    <3>2. t \in Active => Cardinality(Active) > 0
      BY <3>1, FS_EmptySet
    <3> QED BY <3>1, <3>2 DEF OpsCountOK, TypeOK
  <2> QED BY <1>2, <2>1, GoOnTypes
<1> QED BY <1>1, <1>2, BeginTypes DEF Next, Off

(* vfs_start_op and vfs_end_op keep count of the operations, whatever        *)
(* processes share and however often an operation returns VFS_NOT_OPEN       *)
(* without vfs_end_op, and vfs_deinit goes on only when the count is zero.   *)
THEOREM OpsCountInvariant == Spec => [](TypeOK /\ OpsCountOK)
<1>1. Init => OpsCountOK
  <2> SUFFICES ASSUME Init PROVE OpsCountOK
    OBVIOUS
  <2>1. Active = {}
    BY DEF Init, Active
  <2>2. Cardinality(Active) = 0
    BY <2>1, FS_EmptySet
  <2> QED BY <2>2 DEF Init, OpsCountOK, DeinitLabels
<1> QED BY <1>1, VfsInitialTypes, OpsStep, TypeStep, PTL DEF Spec

(* The forced unmount of vfs_deinit has the filesystems to itself: nothing   *)
(* is inside an operation when halt_kernel takes the drivers away.           *)
THEOREM ForcedUnmountInvariant == Spec => []ForcedUnmountAlone
<1>1. TypeOK /\ OpsCountOK => ForcedUnmountAlone
  <2> SUFFICES ASSUME TypeOK, OpsCountOK,
                      \E t \in Threads : pc[t] \in {"deinit_table", "deinit_files", "deinit_unmount"}
               PROVE  Active = {}
    BY DEF ForcedUnmountAlone
  <2>1. IsFiniteSet(Active) /\ Cardinality(Active) \in Nat
    BY ThreadsAssumption, FS_Subset, FS_CardinalityType DEF Active
  <2>2. Cardinality(Active) = 0
    BY <2>1 DEF OpsCountOK, TypeOK, DeinitLabels
  <2> QED BY <2>1, <2>2, FS_EmptySet
<1> QED BY <1>1, OpsCountInvariant, PTL

----------------------------------------------------------------------------
(* The table of open files. *)

(* What a thread does to the entries that are its own, or free, is not seen  *)
(* by the others.                                                            *)
LEMMA OwnStep ==
    ASSUME OpenFilesOK, TypeOK', NEW t \in Threads,
           \A u \in Threads \ {t} : pc'[u] = pc[u] /\ loc'[u] = loc[u] /\ handles'[u] = handles[u],
           \A f \in Files : f \notin Own(t) /\ files[f].fs # NoFs => files'[f] = files[f] /\ touched'[f] = touched[f],
           \A f \in Own(t)' : f \in Own(t) \/ files[f].fs = NoFs,
           HandlesOK(t)', InHandOK(t)', WorksOnOwn(t)', NewFileAtZero'
    PROVE  OpenFilesOK'
<1>1. ASSUME NEW u \in Threads \ {t}
      PROVE  /\ HandlesOK(u)' /\ InHandOK(u)' /\ WorksOnOwn(u)' /\ Own(u)' = Own(u)
             /\ \A f \in Own(u) : f \notin Own(t) /\ files[f].fs # NoFs
  <2>1. /\ HandlesOK(u) /\ InHandOK(u) /\ WorksOnOwn(u)
        /\ \A f \in Own(u) : f \in Files /\ f \notin Own(t) /\ files[f].fs # NoFs
    BY DEF OpenFilesOK, FilesApart, Own, HandlesOK, InHandOK, IsOpen
  <2>2. \A f \in Own(u) : files'[f] = files[f] /\ touched'[f] = touched[f]
    BY <2>1
  <2>3. InHand(u)' = InHand(u) /\ handles'[u] = handles[u] /\ Own(u)' = Own(u)
    BY DEF InHand, Own
  <2>4. HandlesOK(u)'
    BY <2>1, <2>2, <2>3 DEF HandlesOK, IsOpen, Own
  <2>5. loc[u].file \in Files \union {NoFile}
    BY DEF OpenFilesOK, TypeOK, Locals
  <2>6. pc[u] \in {"fs_open", "open_set", "open_fail", "fs_close"} /\ loc[u].file # NoFile => loc[u].file \in InHand(u)
    BY DEF InHand
  <2>7. InHandOK(u)'
    <3>1. \A f \in InHand(u)' : IsOpen(f)' /\ f \notin handles'[u] /\ (pc'[u] = "end" => files'[f].id = files'[f].fs)
      BY <2>1, <2>2, <2>3 DEF InHandOK, IsOpen, Own
    <3>2. pc'[u] \in {"fs_open", "open_set", "open_fail"} =>
             loc'[u].file # NoFile /\ files'[loc'[u].file].fs = loc'[u].fs
      BY <2>1, <2>2, <2>6 DEF InHandOK, Own
    <3> QED BY <2>1, <3>1, <3>2 DEF InHandOK
  <2>8. WorksOnOwn(u)'
    BY <2>1, <2>2, <2>3, <2>6 DEF WorksOnOwn, Own
  <2> QED BY <2>1, <2>3, <2>4, <2>7, <2>8
<1>2. FilesApart'
  <2> SUFFICES ASSUME NEW u \in Threads, NEW v \in Threads, u # v PROVE (Own(u) \intersect Own(v))' = {}
    BY DEF FilesApart
  <2>1. CASE u # t /\ v # t
    BY <1>1, <2>1 DEF OpenFilesOK, FilesApart
  <2>2. CASE u = t
    BY <1>1, <2>2
  <2>3. CASE v = t
    BY <1>1, <2>3
  <2> QED BY <2>1, <2>2, <2>3
<1> QED BY <1>1, <1>2 DEF OpenFilesOK

(* A step that leaves the table alone needs only be looked at for itself. *)
LEMMA OwnMove ==
    ASSUME OpenFilesOK, TypeOK', NEW t \in Threads,
           \A u \in Threads \ {t} : pc'[u] = pc[u] /\ loc'[u] = loc[u] /\ handles'[u] = handles[u],
           \A f \in Files : files'[f] = files[f] /\ touched'[f] = touched[f],
           Own(t)' \subseteq Own(t), handles'[t] \subseteq handles[t],
           InHandOK(t)', WorksOnOwn(t)'
    PROVE  OpenFilesOK'
<1>1. HandlesOK(t)'
  BY DEF OpenFilesOK, HandlesOK, IsOpen
<1>2. NewFileAtZero'
  BY DEF OpenFilesOK, NewFileAtZero
<1> QED BY <1>1, <1>2, OwnStep

(* Starting an operation changes no open file. *)
LEMMA BeginFiles ==
    ASSUME OpenFilesOK, TypeOK', ~ForkShares, NEW t \in Threads, Begins(t)
    PROVE  OpenFilesOK'
<1>1. pc[t] = "idle" /\ InHand(t) = {} /\ Own(t) = handles[t] /\ TypeOK /\ InHandOK(t) /\ WorksOnOwn(t)
  BY DEF Begins, vfs_mount_fs, Call_unmount, io_open, io_close, io_seek, io_read, io_create, DeinitStart,
         ForkHandles, vfs_start_op, At, InHand, Own, OpenFilesOK
<1>2. ASSUME NEW l, NEW labels, vfs_start_op(t, l, labels)
      PROVE  /\ \A f \in Files : files'[f] = files[f] /\ touched'[f] = touched[f]
             /\ \A u \in Threads \ {t} : pc'[u] = pc[u] /\ loc'[u] = loc[u]
             /\ \/ pc'[t] \in labels /\ loc'[t] = l
                \/ pc'[t] = "idle" /\ loc'[t] = loc[t]
  BY <1>1, <1>2 DEF vfs_start_op, Goto, TypeOK
<1>3. ASSUME vfs_mount_fs(t) \/ Call_unmount(t) \/ io_open(t) \/ io_create(t) PROVE OpenFilesOK'
  <2>1. PICK l, labels :
          /\ vfs_start_op(t, l, labels)
          /\ l.file = NoFile /\ labels \subseteq {"mount", "unmount", "open_table", "create", "end"}
          /\ l.op = "open" => labels \subseteq {"open_table", "end"}
    <3>1. CASE vfs_mount_fs(t)
      <4>1. PICK g \in Filesystems, n \in Names :
              vfs_start_op(t, [NoLocals EXCEPT !.op = "mount", !.name = n, !.fs = g], {"mount"})
        BY <3>1 DEF vfs_mount_fs
      <4>2. PICK l : l = [NoLocals EXCEPT !.op = "mount", !.name = n, !.fs = g] /\ l.op = "mount" /\ l.file = NoFile
        <5>1. [NoLocals EXCEPT !.op = "mount", !.name = n, !.fs = g].op = "mount" /\ [NoLocals EXCEPT !.op = "mount", !.name = n, !.fs = g].file = NoFile
          BY DEF NoLocals
        <5> QED BY <5>1, Zenon
      <4> QED BY <4>1, <4>2
    <3>2. CASE Call_unmount(t) \/ io_create(t)
      <4>1. PICK n \in Names, o \in {"unmount", "create"}, labels \in {{"unmount"}, {"create", "end"}} :
              vfs_start_op(t, [NoLocals EXCEPT !.op = o, !.name = n], labels)
        BY <3>2 DEF Call_unmount, io_create
      <4>2. PICK l : l = [NoLocals EXCEPT !.op = o, !.name = n] /\ l.op = o /\ l.file = NoFile
        <5>1. [NoLocals EXCEPT !.op = o, !.name = n].op = o /\ [NoLocals EXCEPT !.op = o, !.name = n].file = NoFile
          BY DEF NoLocals
        <5> QED BY <5>1, Zenon
      <4> QED BY <4>1, <4>2
    <3>3. CASE io_open(t)
      <4>1. PICK n \in Names : vfs_start_op(t, [NoLocals EXCEPT !.op = "open", !.name = n], {"open_table", "end"})
        BY <3>3 DEF io_open
      <4>2. PICK l : l = [NoLocals EXCEPT !.op = "open", !.name = n] /\ l.op = "open" /\ l.file = NoFile
        <5>1. [NoLocals EXCEPT !.op = "open", !.name = n].op = "open" /\ [NoLocals EXCEPT !.op = "open", !.name = n].file = NoFile
          BY DEF NoLocals
        <5> QED BY <5>1, Zenon
      <4> QED BY <4>1, <4>2
    <3> QED BY <1>3, <3>1, <3>2, <3>3
  <2>2. handles' = handles
    BY <1>3 DEF vfs_mount_fs, Call_unmount, io_open, io_create
  <2>3. \/ pc'[t] \in labels /\ loc'[t] = l
        \/ pc'[t] = "idle" /\ loc'[t] = loc[t]
    BY <1>2, <2>1
  <2>4. InHand(t)' = {}
    BY <2>1, <2>3 DEF InHand
  <2>5. Own(t)' \subseteq Own(t) /\ InHandOK(t)' /\ WorksOnOwn(t)'
    BY <1>1, <2>1, <2>2, <2>3, <2>4 DEF Own, InHandOK, WorksOnOwn
  <2> QED BY <1>2, <2>1, <2>2, <2>5, OwnMove
<1>4. ASSUME io_close(t) PROVE OpenFilesOK'
  <2>1. PICK f \in Usable(t) :
          /\ vfs_start_op(t, [NoLocals EXCEPT !.op = "close", !.file = f], {"close"})
          /\ handles' = [handles EXCEPT ![t] = @ \ {f}]
    BY <1>4 DEF io_close
  <2>2. PICK l : l = [NoLocals EXCEPT !.op = "close", !.file = f] /\ l.op = "close" /\ l.file = f
    <3>1. [NoLocals EXCEPT !.op = "close", !.file = f].op = "close" /\ [NoLocals EXCEPT !.op = "close", !.file = f].file = f
      BY DEF NoLocals
    <3> QED BY <3>1, Zenon
  <2>3. handles'[t] = handles[t] \ {f} /\ \A u \in Threads \ {t} : handles'[u] = handles[u]
    BY <1>1, <2>1 DEF TypeOK
  <2>4. f \in handles[t] \union {NoFile}
    BY DEF Usable
  <2>5. InHand(t)' \subseteq {f} \ {NoFile}
    BY <1>1, <1>2, <2>1, <2>2 DEF InHand
  <2>6. Own(t)' \subseteq Own(t)
    BY <1>1, <2>3, <2>4, <2>5 DEF Own
  <2>7. \A h \in InHand(t)' : IsOpen(h)' /\ h \notin handles'[t]
    BY <1>2, <2>1, <2>3, <2>4, <2>5 DEF OpenFilesOK, HandlesOK, IsOpen
  <2>8. pc'[t] \in {"idle", "close"} /\ (loc'[t].op = "open" => loc[t].op = "open" /\ pc'[t] = "idle")
    <3>1. \/ pc'[t] = "close" /\ loc'[t] = l
          \/ pc'[t] = "idle" /\ loc'[t] = loc[t]
      BY <1>2, <2>1, <2>2
    <3> QED BY <2>2, <3>1
  <2>9. InHandOK(t)' /\ WorksOnOwn(t)'
    BY <1>1, <2>7, <2>8 DEF InHandOK, WorksOnOwn
  <2> QED BY <1>2, <2>1, <2>3, <2>6, <2>9, OwnMove
<1>5. ASSUME io_seek(t) \/ io_read(t) PROVE OpenFilesOK'
  <2>1. PICK f \in Usable(t), o \in {"seek", "tell", "read"}, labels \in {{"seek"}, {"read"}} :
          vfs_start_op(t, [NoLocals EXCEPT !.op = o, !.file = f], labels) /\ handles' = handles
    BY <1>5 DEF io_seek, io_read, Usable
  <2>2. PICK l : l = [NoLocals EXCEPT !.op = o, !.file = f] /\ l.op = o /\ l.file = f
    <3>1. [NoLocals EXCEPT !.op = o, !.file = f].op = o /\ [NoLocals EXCEPT !.op = o, !.file = f].file = f
      BY DEF NoLocals
    <3> QED BY <3>1, Zenon
  <2>3. f \in handles[t] \union {NoFile}
    BY DEF Usable
  <2>4. \/ pc'[t] \in {"seek", "read"} /\ loc'[t] = l
        \/ pc'[t] = "idle" /\ loc'[t] = loc[t]
    BY <1>2, <2>1, <2>2
  <2>5. InHand(t)' = {} /\ Own(t)' \subseteq Own(t) /\ InHandOK(t)' /\ WorksOnOwn(t)'
    BY <1>1, <2>1, <2>2, <2>3, <2>4 DEF InHand, Own, InHandOK, WorksOnOwn
  <2> QED BY <1>2, <2>1, <2>5, OwnMove
<1>6. ASSUME DeinitStart(t) PROVE OpenFilesOK'
  <2>1. /\ pc'[t] \in {"deinit_wait", "deinit_table"} /\ UNCHANGED <<files, touched, handles, loc>>
        /\ \A u \in Threads \ {t} : pc'[u] = pc[u]
    BY <1>1, <1>6 DEF DeinitStart, Goto, TypeOK, tables
  <2>2. InHand(t)' = {} /\ Own(t)' \subseteq Own(t) /\ InHandOK(t)' /\ WorksOnOwn(t)'
    BY <1>1, <2>1 DEF InHand, Own, InHandOK, WorksOnOwn
  <2> QED BY <2>1, <2>2, OwnMove
<1> QED BY <1>3, <1>4, <1>5, <1>6 DEF Begins, ForkHandles

(* vfs_mount, vfs_unmount, vfs_create and vfs_deinit open and close nothing. *)
LEMMA OtherFiles ==
    ASSUME OpenFilesOK, TypeOK', NEW t \in Threads,
           vfs_mount(t) \/ vfs_unmount(t) \/ vfs_create(t) \/ vfs_deinit(t)
    PROVE  OpenFilesOK'
<1> USE DEF Goto, SameLocks, SameRest, tables
<1>1. TypeOK /\ InHandOK(t) /\ WorksOnOwn(t)
  BY DEF OpenFilesOK
<1>2. /\ UNCHANGED <<files, touched, handles>>
      /\ pc[t] \in {"mount", "unmount", "unmount_files", "fs_unmount", "create", "fs_create"} \union DeinitLabels
      /\ \E label \in {"unmount_files", "fs_unmount", "fs_create", "end", "idle"} \union DeinitLabels :
            pc' = [pc EXCEPT ![t] = label]
      /\ loc' = loc \/ \E g : loc' = [loc EXCEPT ![t].fs = g]
  BY DEF vfs_mount, vfs_unmount, UnmountFind, UnmountFiles, FsUnmount, vfs_create, CreateFind, FsCreate,
         vfs_deinit, DeinitWait, DeinitOp, DeinitTable, DeinitFiles, DeinitUnmount, At, DeinitLabels
<1>3. /\ \A u \in Threads \ {t} : loc'[u] = loc[u]
      /\ loc'[t].op = loc[t].op /\ loc'[t].file = loc[t].file
  <2>1. CASE loc' = loc
    BY <2>1
  <2>2. ASSUME NEW g, loc' = [loc EXCEPT ![t].fs = g]
        PROVE  /\ \A u \in Threads \ {t} : loc'[u] = loc[u]
               /\ loc'[t].op = loc[t].op /\ loc'[t].file = loc[t].file
    BY <1>1, <2>2 DEF TypeOK, Locals
  <2> QED BY <1>2, <2>1, <2>2
<1>4. /\ \A u \in Threads \ {t} : pc'[u] = pc[u]
      /\ pc'[t] \in {"unmount_files", "fs_unmount", "fs_create", "end", "idle"} \union DeinitLabels
  BY <1>1, <1>2 DEF TypeOK
<1>5. loc[t].op # "open"
  BY <1>1, <1>2 DEF InHandOK, DeinitLabels
<1>6. InHand(t)' = {}
  BY <1>3, <1>4, <1>5 DEF InHand, DeinitLabels
<1>7. Own(t)' \subseteq Own(t) /\ InHandOK(t)' /\ WorksOnOwn(t)'
  BY <1>2, <1>3, <1>4, <1>5, <1>6 DEF Own, InHandOK, WorksOnOwn, DeinitLabels
<1> QED BY <1>2, <1>3, <1>4, <1>7, OwnMove

(* An operation that returns VFS_NOT_OPEN changes no file. *)
LEMMA NotOpenFiles ==
    ASSUME OpenFilesOK, TypeOK', NEW t \in Threads, NotOpen(t)
    PROVE  OpenFilesOK'
<1>1. /\ pc'[t] = "idle" /\ loc'[t] = NoLocals /\ UNCHANGED <<files, touched, handles>>
      /\ \A u \in Threads \ {t} : pc'[u] = pc[u] /\ loc'[u] = loc[u]
  BY DEF NotOpen, Goto, tables, OpenFilesOK, TypeOK
<1>2. NoLocals.op = "none"
  BY DEF NoLocals
<1>3. InHand(t)' = {}
  BY <1>1 DEF InHand
<1>4. Own(t)' \subseteq Own(t) /\ InHandOK(t)' /\ WorksOnOwn(t)'
  BY <1>1, <1>2, <1>3 DEF Own, InHandOK, WorksOnOwn
<1> QED BY <1>1, <1>4, OwnMove

(* vfs_open takes a free entry, at position zero. *)
LEMMA OpenKeepsFiles ==
    ASSUME OpenFilesOK, TypeOK', NEW t \in Threads, vfs_open(t)
    PROVE  OpenFilesOK'
<1> USE DEF Goto, SameLocks, SameRest, tables
<1>1. TypeOK /\ HandlesOK(t) /\ InHandOK(t) /\ WorksOnOwn(t) /\ NewFileAtZero
  BY DEF OpenFilesOK
<1>2. ASSUME NEW label, pc' = [pc EXCEPT ![t] = label] PROVE pc'[t] = label /\ \A u \in Threads \ {t} : pc'[u] = pc[u]
  BY <1>1, <1>2 DEF TypeOK
<1>3. CASE OpenTable(t)
  <2>1. pc[t] = "open_table" /\ pc'[t] = "open_files" /\ UNCHANGED <<files, touched, handles, loc>>
        /\ \A u \in Threads \ {t} : pc'[u] = pc[u]
    BY <1>2, <1>3 DEF OpenTable, At
  <2>2. InHand(t)' = {}
    BY <2>1 DEF InHand
  <2>3. Own(t)' \subseteq Own(t) /\ InHandOK(t)' /\ WorksOnOwn(t)'
    BY <1>1, <2>1, <2>2 DEF Own, InHandOK, WorksOnOwn
  <2> QED BY <2>1, <2>3, OwnMove
<1>4. CASE OpenReserve(t)
  <2>1. pc[t] = "open_files" /\ loc[t].file = NoFile /\ UNCHANGED <<touched, handles>>
    BY <1>1, <1>4 DEF OpenReserve, At, InHandOK
  <2>2. CASE pc' = [pc EXCEPT ![t] = "end"] /\ UNCHANGED <<files, loc>>
    <3>1. pc'[t] = "end" /\ \A u \in Threads \ {t} : pc'[u] = pc[u]
      BY <1>2, <2>2
    <3>2. InHand(t)' = {}
      BY <2>1, <2>2 DEF InHand
    <3>3. Own(t)' \subseteq Own(t) /\ InHandOK(t)' /\ WorksOnOwn(t)'
      BY <2>1, <2>2, <3>1, <3>2 DEF Own, InHandOK, WorksOnOwn
    <3> QED BY <2>1, <2>2, <3>1, <3>3, OwnMove
  <2>3. ASSUME NEW f \in Files, NEW g, g # NoFs, files[f].fs = NoFs, files' = [files EXCEPT ![f].fs = g],
               loc' = [loc EXCEPT ![t].fs = g, ![t].file = f], pc' = [pc EXCEPT ![t] = "fs_open"]
        PROVE  OpenFilesOK'
    <3>1. pc'[t] = "fs_open" /\ \A u \in Threads \ {t} : pc'[u] = pc[u]
      BY <1>2, <2>3
    <3>2. /\ loc'[t].fs = g /\ loc'[t].file = f /\ \A u \in Threads \ {t} : loc'[u] = loc[u]
      BY <1>1, <2>3 DEF TypeOK, Locals
    <3>3. /\ files'[f].fs = g /\ files'[f].pos = files[f].pos
          /\ \A h \in Files \ {f} : files'[h] = files[h]
      BY <1>1, <2>3 DEF TypeOK, Entries
    <3>4. f # NoFile /\ f \notin handles[t]
      BY <1>1, <2>3 DEF HandlesOK, IsOpen, Files, NoFile
    <3>5. InHand(t)' = {f}
      BY <3>1, <3>2, <3>4 DEF InHand
    <3>6. HandlesOK(t)'
      BY <1>1, <2>1, <3>3, <3>4 DEF HandlesOK, IsOpen
    <3>7. InHandOK(t)' /\ WorksOnOwn(t)'
      BY <2>1, <2>3, <3>1, <3>2, <3>3, <3>4, <3>5 DEF InHandOK, WorksOnOwn, IsOpen
    <3>8. NewFileAtZero'
      BY <1>1, <2>1, <3>3 DEF NewFileAtZero
    <3>9. \A h \in Own(t)' : h \in Own(t) \/ files[h].fs = NoFs
      BY <2>1, <2>3, <3>5 DEF Own
    <3> QED BY <2>1, <2>3, <3>1, <3>2, <3>3, <3>6, <3>7, <3>8, <3>9, OwnStep
  <2>4. \/ pc' = [pc EXCEPT ![t] = "end"] /\ UNCHANGED <<files, loc>>
        \/ \E f \in Files : \E g :
             /\ g # NoFs /\ files[f].fs = NoFs /\ files' = [files EXCEPT ![f].fs = g]
             /\ loc' = [loc EXCEPT ![t].fs = g, ![t].file = f]
             /\ pc' = [pc EXCEPT ![t] = "fs_open"]
    BY <1>4, FirstRow DEF OpenReserve, Reserved
  <2> QED BY <2>2, <2>3, <2>4
<1>5. CASE FsOpen(t)
  <2>1. /\ pc[t] = "fs_open" /\ pc'[t] \in {"open_set", "open_fail"} /\ UNCHANGED <<files, touched, handles, loc>>
        /\ \A u \in Threads \ {t} : pc'[u] = pc[u]
    BY <1>2, <1>5 DEF FsOpen, At
  <2>2. InHand(t)' = InHand(t)
    BY <2>1 DEF InHand
  <2>3. Own(t)' \subseteq Own(t) /\ InHandOK(t)' /\ WorksOnOwn(t)'
    BY <1>1, <2>1, <2>2 DEF Own, InHandOK, WorksOnOwn, IsOpen
  <2> QED BY <2>1, <2>3, OwnMove
<1>6. ASSUME pc[t] \in {"open_fail", "open_set"}
      PROVE  loc[t].file \in InHand(t) /\ loc[t].file \in Own(t) /\ loc[t].file \in Files
             /\ loc[t].file \notin handles[t] /\ files[loc[t].file].fs # NoFs
  BY <1>1, <1>6 DEF InHandOK, InHand, IsOpen, Own
<1>7. CASE OpenFail(t)
  <2>1. /\ pc[t] = "open_fail" /\ pc'[t] = "end" /\ UNCHANGED <<touched, handles>>
        /\ \A u \in Threads \ {t} : pc'[u] = pc[u]
    BY <1>2, <1>7 DEF OpenFail, At
  <2>2. loc'[t].file = NoFile /\ \A u \in Threads \ {t} : loc'[u] = loc[u]
    BY <1>1, <1>7 DEF OpenFail, TypeOK, Locals
  <2>3. /\ files'[loc[t].file].pos = files[loc[t].file].pos
        /\ \A h \in Files \ {loc[t].file} : files'[h] = files[h]
    BY <1>1, <1>6, <1>7, <2>1 DEF OpenFail, TypeOK, Entries
  <2>4. InHand(t)' = {}
    BY <2>1, <2>2 DEF InHand
  <2>5. HandlesOK(t)' /\ NewFileAtZero'
    BY <1>1, <1>6, <2>1, <2>3 DEF HandlesOK, IsOpen, NewFileAtZero
  <2>6. InHandOK(t)' /\ WorksOnOwn(t)' /\ Own(t)' \subseteq Own(t)
    BY <2>1, <2>2, <2>4 DEF InHandOK, WorksOnOwn, Own
  <2> QED BY <1>6, <2>1, <2>2, <2>3, <2>5, <2>6, OwnStep
<1>8. CASE OpenSet(t)
  <2>1. /\ pc[t] = "open_set" /\ pc'[t] = "end" /\ UNCHANGED <<loc, handles>>
        /\ \A u \in Threads \ {t} : pc'[u] = pc[u]
    BY <1>2, <1>8 DEF OpenSet, At
  <2>2. /\ files'[loc[t].file].fs = files[loc[t].file].fs /\ files'[loc[t].file].id = loc[t].fs
        /\ files'[loc[t].file].pos = 0
        /\ \A h \in Files \ {loc[t].file} : files'[h] = files[h]
    BY <1>1, <1>6, <1>8, <2>1 DEF OpenSet, Filled, TypeOK, Entries
  <2>3. \A h \in Files \ {loc[t].file} : touched'[h] = touched[h]
    BY <1>1, <1>8 DEF OpenSet, TypeOK
  <2>4. InHand(t)' \subseteq InHand(t) /\ InHand(t) = {loc[t].file}
    BY <1>6, <2>1 DEF InHand
  <2>5. HandlesOK(t)'
    BY <1>1, <1>6, <2>1, <2>2 DEF HandlesOK, IsOpen
  <2>6. NewFileAtZero'
    BY <1>1, <2>2, <2>3 DEF NewFileAtZero
  <2>7. files[loc[t].file].fs = loc[t].fs
    BY <1>1, <2>1 DEF InHandOK
  <2>8. InHandOK(t)' /\ WorksOnOwn(t)' /\ Own(t)' \subseteq Own(t)
    BY <1>6, <2>1, <2>2, <2>4, <2>7 DEF InHandOK, WorksOnOwn, Own, IsOpen
  <2> QED BY <1>6, <2>1, <2>2, <2>3, <2>5, <2>6, <2>8, OwnStep
<1> QED BY <1>3, <1>4, <1>5, <1>7, <1>8 DEF vfs_open

(* vfs_close frees the entry of its own handle. *)
LEMMA CloseKeepsFiles ==
    ASSUME OpenFilesOK, TypeOK', NEW t \in Threads, vfs_close(t)
    PROVE  OpenFilesOK'
<1> USE DEF Goto, SameLocks, SameRest, tables
<1>1. TypeOK /\ HandlesOK(t) /\ InHandOK(t) /\ WorksOnOwn(t) /\ NewFileAtZero
  BY DEF OpenFilesOK
<1>2. ASSUME NEW label, pc' = [pc EXCEPT ![t] = label] PROVE pc'[t] = label /\ \A u \in Threads \ {t} : pc'[u] = pc[u]
  BY <1>1, <1>2 DEF TypeOK
<1>3. CASE CloseEntry(t) /\ IsOpen(loc[t].file)
  <2>1. /\ pc[t] = "close" /\ pc'[t] = "fs_close" /\ UNCHANGED <<files, touched, handles>>
        /\ \A u \in Threads \ {t} : pc'[u] = pc[u]
    BY <1>2, <1>3 DEF CloseEntry, At
  <2>2. /\ loc'[t].file = loc[t].file /\ loc'[t].op = loc[t].op /\ loc'[t].fs = files[loc[t].file].fs
        /\ \A u \in Threads \ {t} : loc'[u] = loc[u]
    BY <1>1, <1>3 DEF CloseEntry, TypeOK, Locals
  <2>3. InHand(t)' = InHand(t) /\ loc[t].file # NoFile
    BY <1>3, <2>1, <2>2 DEF InHand, IsOpen, Files, NoFile
  <2>4. Own(t)' \subseteq Own(t) /\ InHandOK(t)' /\ WorksOnOwn(t)'
    BY <1>1, <2>1, <2>2, <2>3 DEF Own, InHandOK, WorksOnOwn, IsOpen
  <2> QED BY <2>1, <2>2, <2>4, OwnMove
<1>4. CASE FsClose(t)
  <2>1. /\ pc[t] = "fs_close" /\ pc'[t] = "end" /\ UNCHANGED <<loc, touched, handles>>
        /\ \A u \in Threads \ {t} : pc'[u] = pc[u]
    BY <1>2, <1>4 DEF FsClose, At
  <2>2. /\ loc[t].file \in Own(t) /\ loc[t].file \in Files /\ loc[t].file \notin handles[t]
        /\ loc[t].op # "open"
    BY <1>1, <2>1 DEF InHandOK, InHand, IsOpen, Own, WorksOnOwn
  <2>3. /\ files'[loc[t].file].pos = files[loc[t].file].pos
        /\ \A h \in Files \ {loc[t].file} : files'[h] = files[h]
    BY <1>1, <1>4, <2>2 DEF FsClose, TypeOK, Entries
  <2>4. InHand(t)' = {}
    BY <2>1, <2>2 DEF InHand
  <2>5. HandlesOK(t)' /\ NewFileAtZero'
    BY <1>1, <2>1, <2>2, <2>3 DEF HandlesOK, IsOpen, NewFileAtZero
  <2>6. InHandOK(t)' /\ WorksOnOwn(t)' /\ Own(t)' \subseteq Own(t)
    BY <2>1, <2>2, <2>4 DEF InHandOK, WorksOnOwn, Own
  <2> QED BY <2>1, <2>2, <2>3, <2>5, <2>6, OwnStep
<1> QED BY <1>3, <1>4, NotOpenFiles DEF vfs_close, CloseEntry

(* Positions move only in entries that the caller has open. *)
LEMMA SeekReadKeepsFiles ==
    ASSUME OpenFilesOK, TypeOK', NEW t \in Threads, vfs_seek(t) \/ vfs_read(t)
    PROVE  OpenFilesOK'
<1> USE DEF Goto, SameLocks, SameRest, tables
<1> DEFINE f == loc[t].file
<1>1. TypeOK /\ HandlesOK(t) /\ InHandOK(t) /\ WorksOnOwn(t) /\ NewFileAtZero
  BY DEF OpenFilesOK
<1>2. ASSUME NEW label, pc' = [pc EXCEPT ![t] = label] PROVE pc'[t] = label /\ \A u \in Threads \ {t} : pc'[u] = pc[u]
  BY <1>1, <1>2 DEF TypeOK
<1>3. loc[t].op # "open" /\ InHand(t) = {} /\ Own(t) = handles[t]
  BY <1>1 DEF vfs_seek, vfs_read, ReadEntry, FsRead, ReadUpdate, At, InHandOK, InHand, Own
<1>4. CASE FsRead(t)
  <2>1. /\ pc[t] = "fs_read" /\ pc'[t] \in {"read_update", "end"} /\ UNCHANGED <<files, touched, handles, loc>>
        /\ \A u \in Threads \ {t} : pc'[u] = pc[u]
    BY <1>2, <1>4 DEF FsRead, At
  <2>2. InHand(t)' = {}
    BY <1>3, <2>1 DEF InHand
  <2>3. Own(t)' \subseteq Own(t) /\ InHandOK(t)' /\ WorksOnOwn(t)'
    BY <1>1, <1>3, <2>1, <2>2 DEF Own, InHandOK, WorksOnOwn
  <2> QED BY <2>1, <2>3, OwnMove
<1>5. ASSUME f \in handles[t], handles' = handles,
             \A u \in Threads \ {t} : pc'[u] = pc[u] /\ loc'[u] = loc[u],
             \A h \in Files \ {f} : files'[h] = files[h] /\ touched'[h] = touched[h],
             files'[f].fs = files[f].fs, files'[f].id = files[f].id,
             touched'[f] \/ (files'[f].pos = files[f].pos /\ touched'[f] = touched[f]),
             loc'[t].op = loc[t].op, loc'[t].file = f,
             pc'[t] = "end" \/ (pc'[t] = "fs_read" /\ loc'[t].fs = files'[f].fs /\ touched'[f])
      PROVE  OpenFilesOK'
  <2>1. f \in Files
    BY <1>1, <1>5 DEF TypeOK
  <2>2. InHand(t)' = {}
    BY <1>3, <1>5 DEF InHand
  <2>3. HandlesOK(t)'
    BY <1>1, <1>5 DEF HandlesOK, IsOpen
  <2>4. NewFileAtZero'
    BY <1>1, <1>5 DEF NewFileAtZero
  <2>5. InHandOK(t)' /\ WorksOnOwn(t)' /\ Own(t)' \subseteq Own(t)
    BY <1>3, <1>5, <2>2 DEF InHandOK, WorksOnOwn, Own
  <2> QED BY <1>3, <1>5, <2>3, <2>4, <2>5, OwnStep
<1>6. ASSUME IsOpen(f), pc[t] \in {"seek", "read"} PROVE f \in Files /\ f \in handles[t]
  BY <1>1, <1>6 DEF IsOpen, WorksOnOwn, Files, NoFile
<1>7. CASE vfs_seek(t) /\ IsOpen(f)
  <2>1. /\ pc[t] = "seek" /\ pc'[t] = "end" /\ UNCHANGED <<handles, loc>>
        /\ \A u \in Threads \ {t} : pc'[u] = pc[u]
    BY <1>2, <1>7 DEF vfs_seek, At
  <2>2. f \in Files /\ f \in handles[t]
    BY <1>6, <1>7, <2>1
  <2>3. CASE UNCHANGED <<files, touched>>
    BY <1>5, <2>1, <2>2, <2>3
  <2>4. ASSUME NEW p \in 0 .. MaxPos, files' = [files EXCEPT ![f].pos = p], touched' = [touched EXCEPT ![f] = TRUE]
        PROVE  OpenFilesOK'
    <3>1. /\ files'[f].fs = files[f].fs /\ files'[f].id = files[f].id
          /\ \A h \in Files \ {f} : files'[h] = files[h]
      BY <1>1, <2>2, <2>4 DEF TypeOK, Entries
    <3>2. touched'[f] /\ \A h \in Files \ {f} : touched'[h] = touched[h]
      BY <1>1, <2>2, <2>4, ZenonT(30) DEF TypeOK
    <3> QED BY <1>5, <2>1, <2>2, <3>1, <3>2
  <2> QED BY <1>7, <2>3, <2>4 DEF vfs_seek
<1>8. CASE ReadEntry(t) /\ IsOpen(f)
  <2>1. /\ pc[t] = "read" /\ pc'[t] = "fs_read" /\ UNCHANGED <<handles, files>>
        /\ \A u \in Threads \ {t} : pc'[u] = pc[u]
    BY <1>2, <1>8 DEF ReadEntry, At
  <2>2. f \in Files /\ f \in handles[t]
    BY <1>6, <1>8, <2>1
  <2>3. touched'[f] /\ \A h \in Files \ {f} : touched'[h] = touched[h]
    BY <1>1, <1>8, <2>2 DEF ReadEntry, TypeOK
  <2>4. /\ loc'[t].op = loc[t].op /\ loc'[t].file = f /\ loc'[t].fs = files[f].fs
        /\ \A u \in Threads \ {t} : loc'[u] = loc[u]
    BY <1>1, <1>8 DEF ReadEntry, TypeOK, Locals
  <2> QED BY <1>5, <2>1, <2>2, <2>3, <2>4
<1>9. CASE ReadUpdate(t)
  <2>1. /\ pc[t] = "read_update" /\ pc'[t] = "end" /\ UNCHANGED <<handles, loc, touched>>
        /\ \A u \in Threads \ {t} : pc'[u] = pc[u]
    BY <1>2, <1>9 DEF ReadUpdate, At
  <2>2. f \in handles[t] /\ touched[f] /\ f \in Files
    BY <1>1, <2>1 DEF WorksOnOwn, TypeOK
  <2>3. PICK p : files' = [files EXCEPT ![f].pos = p]
    BY <1>9 DEF ReadUpdate
  <2>4. /\ files'[f].fs = files[f].fs /\ files'[f].id = files[f].id
        /\ \A h \in Files \ {f} : files'[h] = files[h]
    BY <1>1, <2>2, <2>3 DEF TypeOK, Entries
  <2> QED BY <1>5, <2>1, <2>2, <2>4
<1> QED BY <1>4, <1>7, <1>8, <1>9, NotOpenFiles DEF vfs_seek, vfs_read, ReadEntry

(* io_open gives the process the file, once it has been opened. *)
LEMMA EndKeepsFiles ==
    ASSUME OpenFilesOK, TypeOK', NEW t \in Threads, vfs_end_op(t)
    PROVE  OpenFilesOK'
<1>1. TypeOK /\ HandlesOK(t) /\ InHandOK(t) /\ WorksOnOwn(t) /\ NewFileAtZero
  BY DEF OpenFilesOK
<1>2. /\ pc[t] = "end" /\ pc'[t] = "idle" /\ loc'[t] = NoLocals /\ handles'[t] = HandlesAfter(t)
      /\ UNCHANGED <<files, touched>>
      /\ \A u \in Threads \ {t} : pc'[u] = pc[u] /\ loc'[u] = loc[u] /\ handles'[u] = handles[u]
  BY <1>1 DEF vfs_end_op, At, Goto, TypeOK
<1>3. handles'[t] = handles[t] \union InHand(t)
  BY <1>2 DEF HandlesAfter, InHand
<1>4. HandlesOK(t)' /\ NewFileAtZero'
  BY <1>1, <1>2, <1>3 DEF HandlesOK, InHandOK, IsOpen, NewFileAtZero
<1>5. NoLocals.op = "none"
  BY DEF NoLocals
<1>6. InHand(t)' = {}
  BY <1>2 DEF InHand
<1>7. InHandOK(t)' /\ WorksOnOwn(t)' /\ Own(t)' \subseteq Own(t)
  BY <1>2, <1>3, <1>5, <1>6 DEF InHandOK, WorksOnOwn, Own
<1> QED BY <1>2, <1>4, <1>7, OwnStep

(* Every step keeps the handles valid. *)
LEMMA FilesStep ==
    ASSUME OpenFilesOK, TypeOK', ~ForkShares, [Next]_vars
    PROVE  OpenFilesOK'
<1>1. CASE UNCHANGED vars
  BY <1>1 DEF OpenFilesOK, FilesApart, NewFileAtZero, HandlesOK, InHandOK, WorksOnOwn, IsOpen, Own, InHand, vars
<1>2. ASSUME NEW t \in Threads, GoesOn(t) PROVE OpenFilesOK'
  BY <1>2, OtherFiles, OpenKeepsFiles, CloseKeepsFiles, SeekReadKeepsFiles, EndKeepsFiles DEF GoesOn
<1> QED BY <1>1, <1>2, BeginFiles DEF Next, Off

(* Without fork, every handle of a process stands for an open file of its    *)
(* own that no other process works on, opens or closes, although vfs_open    *)
(* and vfs_read call the driver without a semaphore; a file begins at zero.  *)
THEOREM OpenFilesInvariant == ASSUME ~ForkShares PROVE Spec => []OpenFilesOK
<1>1. Init => OpenFilesOK
  <2> SUFFICES ASSUME Init PROVE OpenFilesOK
    OBVIOUS
  <2>1. \A t \in Threads : handles[t] = {} /\ pc[t] = "idle" /\ loc[t].op = "none"
    BY DEF Init, NoLocals
  <2>2. \A t \in Threads : InHand(t) = {} /\ Own(t) = {}
    BY <2>1 DEF InHand, Own
  <2>3. FilesApart /\ \A t \in Threads : HandlesOK(t) /\ InHandOK(t) /\ WorksOnOwn(t)
    BY <2>1, <2>2 DEF FilesApart, HandlesOK, InHandOK, WorksOnOwn
  <2>4. NewFileAtZero
    BY DEF Init, NewFileAtZero
  <2> QED BY <2>3, <2>4, VfsInitialTypes DEF OpenFilesOK
<1>2. OpenFilesOK /\ (TypeOK /\ OpsCountOK)' /\ [Next]_vars => OpenFilesOK'
  BY FilesStep
<1> QED BY <1>1, <1>2, OpsCountInvariant, PTL DEF Spec

----------------------------------------------------------------------------
(* Drivers: mounting and unmounting against operations in progress. *)

(* A name that has been given is in one row. *)
LEMMA NamedOnce ==
    ASSUME MountTableOK, NEW n, n # NoName, NEW r \in Rows, mounted[r].name = n
    PROVE  FirstOf(NamedRows(n)) = r /\ vfs_get_filesystem(n) = mounted[r].fs
<1>1. r \in NamedRows(n) /\ NamedRows(n) # {}
  BY DEF NamedRows
<1>2. FirstOf(NamedRows(n)) \in NamedRows(n)
  BY <1>1, FirstRow
<1>3. FirstOf(NamedRows(n)) = r
  BY <1>2 DEF NamedRows, MountTableOK
<1> QED BY <1>1, <1>3 DEF vfs_get_filesystem

(* The semaphores of the tables exclude each other's holders. *)
LEMMA SemaphoresStep ==
    ASSUME TypeOK, \A u \in Threads : SemaphoresHeld(u), [Next]_vars
    PROVE  \A u \in Threads : SemaphoresHeld(u)'
<1> USE DEF Goto, SameLocks, SameRest, At, SemaphoresHeld
<1>1. CASE UNCHANGED vars
  BY <1>1 DEF vars
<1>2. ASSUME NEW t \in Threads, NEW label, pc' = [pc EXCEPT ![t] = label],
             \A u \in Threads \ {t} : (table_sem = u => table_sem' = u) /\ (file_sem = u => file_sem' = u),
             label \in {"unmount_files", "fs_unmount", "open_files", "fs_create", "deinit_files", "deinit_unmount"} =>
               table_sem' = t,
             label \in {"fs_unmount", "fs_close", "deinit_unmount"} => file_sem' = t
      PROVE  \A u \in Threads : SemaphoresHeld(u)'
  BY <1>2 DEF TypeOK
<1>3. ASSUME NEW t \in Threads, NEW l, NEW labels, vfs_start_op(t, l, labels),
             labels \subseteq {"mount", "unmount", "open_table", "close", "seek", "read", "create", "end"}
      PROVE  \A u \in Threads : SemaphoresHeld(u)'
  <2>1. UNCHANGED <<table_sem, file_sem>> /\ (pc' = pc \/ \E label \in labels : pc' = [pc EXCEPT ![t] = label])
    BY <1>3 DEF vfs_start_op
  <2>2. CASE pc' = pc
    BY <2>1, <2>2
  <2>3. ASSUME NEW label \in labels, pc' = [pc EXCEPT ![t] = label] PROVE \A u \in Threads : SemaphoresHeld(u)'
    BY <1>2, <1>3, <2>1, <2>3
  <2> QED BY <2>1, <2>2, <2>3
<1>4. ASSUME NEW t \in Threads, Begins(t) PROVE \A u \in Threads : SemaphoresHeld(u)'
  <2>1. CASE vfs_mount_fs(t) \/ Call_unmount(t) \/ io_open(t) \/ io_close(t) \/ io_seek(t) \/ io_read(t) \/ io_create(t)
    <3>1. \E l : \E labels \in SUBSET {"mount", "unmount", "open_table", "close", "seek", "read", "create", "end"} :
             vfs_start_op(t, l, labels)
      BY <2>1, Zenon DEF vfs_mount_fs, Call_unmount, io_open, io_close, io_seek, io_read, io_create
    <3> QED BY <1>3, <3>1
  <2>2. CASE DeinitStart(t)
    BY <1>2, <2>2 DEF DeinitStart
  <2>3. ASSUME NEW v \in Threads, ForkHandles(t, v) PROVE \A u \in Threads : SemaphoresHeld(u)'
    BY <2>3 DEF ForkHandles
  <2> QED BY <1>4, <2>1, <2>2, <2>3 DEF Begins
<1>5. ASSUME NEW t \in Threads, GoesOn(t) PROVE \A u \in Threads : SemaphoresHeld(u)'
  <2>1. CASE vfs_mount(t) \/ FsOpen(t) \/ OpenFail(t) \/ OpenSet(t) \/ vfs_seek(t) \/ vfs_read(t) \/ vfs_end_op(t)
             \/ DeinitWait(t) \/ DeinitOp(t)
    <3>1. /\ UNCHANGED <<table_sem, file_sem>>
          /\ \E label \in {"end", "open_set", "open_fail", "idle", "fs_read", "read_update", "deinit_op",
                            "deinit_table"} : pc' = [pc EXCEPT ![t] = label]
      BY <2>1 DEF vfs_mount, FsOpen, OpenFail, OpenSet, vfs_seek, NotOpen, vfs_read, ReadEntry, FsRead, ReadUpdate,
                  vfs_end_op, DeinitWait, DeinitOp
    <3> QED BY <1>2, <3>1
  <2>2. CASE UnmountFind(t)
    BY <1>2, <2>2, ConstantsAssumption DEF UnmountFind
  <2>3. CASE UnmountFiles(t)
    BY <1>2, <2>3, ConstantsAssumption DEF UnmountFiles
  <2>4. CASE FsUnmount(t)
    BY <1>2, <2>4 DEF FsUnmount
  <2>5. CASE OpenTable(t)
    BY <1>2, <2>5, ConstantsAssumption DEF OpenTable
  <2>6. CASE OpenReserve(t)
    <3>1. /\ table_sem' = NoThread /\ table_sem = t /\ UNCHANGED file_sem
          /\ \E label \in {"end", "fs_open"} : pc' = [pc EXCEPT ![t] = label]
      BY <2>6 DEF OpenReserve
    <3> QED BY <1>2, <3>1
  <2>7. CASE CloseEntry(t)
    <3>1. CASE NotOpen(t) /\ UNCHANGED <<file_sem, table_sem>>
      BY <1>2, <3>1 DEF NotOpen
    <3>2. CASE file_sem = NoThread /\ file_sem' = t /\ pc' = [pc EXCEPT ![t] = "fs_close"] /\ UNCHANGED table_sem
      BY <1>2, <3>2, ConstantsAssumption
    <3> QED BY <2>7, <3>1, <3>2 DEF CloseEntry
  <2>8. CASE FsClose(t)
    BY <1>2, <2>8 DEF FsClose
  <2>9. CASE CreateFind(t)
    BY <1>2, <2>9, ConstantsAssumption DEF CreateFind
  <2>10. CASE FsCreate(t)
    BY <1>2, <2>10 DEF FsCreate
  <2>11. CASE DeinitTable(t)
    BY <1>2, <2>11, ConstantsAssumption DEF DeinitTable
  <2>12. CASE DeinitFiles(t)
    BY <1>2, <2>12, ConstantsAssumption DEF DeinitFiles
  <2>13. CASE DeinitUnmount(t)
    BY <1>2, <2>13 DEF DeinitUnmount
  <2> QED
    BY <1>5, <2>1, <2>2, <2>3, <2>4, <2>5, <2>6, <2>7, <2>8, <2>9, <2>10, <2>11, <2>12, <2>13
    DEF GoesOn, vfs_unmount, vfs_open, vfs_close, vfs_create, vfs_deinit
<1> QED BY <1>1, <1>4, <1>5 DEF Next, Off

(* What DriversOK says of the tables, and of the drivers in hand. *)
TablesOK ==
    /\ \A f \in Files : IsOpen(f) => alive[files[f].fs]
    /\ MountTableOK /\ InitialisedApart
    /\ \A t \in Threads : InitialisedUnused(t) /\ DriverInHand(t)

(* Then the driver of every call is initialised. *)
LEMMA CallsAlive == OpenFilesOK /\ TablesOK => DriverAlive
<1> SUFFICES ASSUME OpenFilesOK, TablesOK,
                    NEW t \in Threads, pc[t] \in {"fs_open", "fs_read", "fs_close", "fs_create", "fs_unmount"}
             PROVE  alive[loc[t].fs]
  BY DEF DriverAlive, TablesOK
<1>1. TypeOK /\ HandlesOK(t) /\ InHandOK(t) /\ WorksOnOwn(t) /\ DriverInHand(t)
  BY DEF OpenFilesOK, TablesOK
<1>2. CASE pc[t] \in {"fs_open", "fs_close"}
  <2>1. loc[t].file \in InHand(t) /\ files[loc[t].file].fs = loc[t].fs
    BY <1>1, <1>2 DEF InHandOK, InHand, WorksOnOwn
  <2>2. IsOpen(loc[t].file)
    BY <1>1, <2>1 DEF InHandOK
  <2> QED BY <2>1, <2>2 DEF TablesOK, IsOpen
<1>3. CASE pc[t] = "fs_read"
  BY <1>1, <1>3 DEF WorksOnOwn, HandlesOK, TablesOK, IsOpen
<1>4. CASE pc[t] = "fs_create"
  BY <1>1, <1>4 DEF DriverInHand, TablesOK, MountTableOK
<1>5. CASE pc[t] = "fs_unmount"
  <2>1. \E r \in Rows : mounted[r].fs = loc[t].fs /\ loc[t].fs # NoFs
    BY <1>1, <1>5, FilesystemFound DEF DriverInHand
  <2> QED BY <2>1 DEF TablesOK, MountTableOK
<1> QED BY <1>2, <1>3, <1>4, <1>5

(* What a name stands for depends on the mount table only. *)
LEMMA SameName ==
    ASSUME UNCHANGED mounted, NEW u, loc'[u] = loc[u]
    PROVE  vfs_get_filesystem(loc[u].name)' = vfs_get_filesystem(loc[u].name)
BY DEF vfs_get_filesystem, NamedRows

(* A step that opens no file and leaves the mount table and the drivers      *)
(* alone needs only be looked at for itself.                                 *)
LEMMA DriversMove ==
    ASSUME TablesOK, NEW t \in Threads, UNCHANGED <<mounted, alive>>,
           \A f \in Files : files'[f].fs = files[f].fs \/ files'[f].fs = NoFs,
           \A u \in Threads \ {t} : pc'[u] = pc[u] /\ loc'[u] = loc[u],
           Initialised(t)' \subseteq Initialised(t), DriverInHand(t)'
    PROVE  TablesOK'
<1>1. ASSUME NEW u \in Threads \ {t} PROVE Initialised(u)' = Initialised(u) /\ DriverInHand(u)'
  <2>1. Initialised(u)' = Initialised(u)
    BY DEF Initialised
  <2>2. vfs_get_filesystem(loc[u].name)' = vfs_get_filesystem(loc[u].name)
    BY SameName
  <2>3. loc[u].fs # NoFs /\ ~InUse(loc[u].fs) => ~InUse(loc[u].fs)'
    BY DEF InUse
  <2>4. DriverInHand(u)'
    BY <2>2, <2>3 DEF TablesOK, DriverInHand
  <2> QED BY <2>1, <2>4
<1>2. \A f \in Files : IsOpen(f)' => alive'[files'[f].fs]
  BY DEF TablesOK, IsOpen
<1>3. MountTableOK'
  BY DEF TablesOK, MountTableOK
<1>4. \A u \in Threads : Initialised(u)' \subseteq Initialised(u)
  BY <1>1
<1>5. InitialisedApart'
  BY <1>4 DEF TablesOK, InitialisedApart
<1>6. \A u \in Threads : InitialisedUnused(u)'
  <2> SUFFICES ASSUME NEW u \in Threads, NEW g \in Initialised(u)'
               PROVE  alive'[g] /\ (\A r \in Rows : mounted'[r].fs # g) /\ \A f \in Files : files'[f].fs # g
    BY DEF InitialisedUnused
  <2>1. g \in Initialised(u) /\ g # NoFs
    BY <1>4 DEF Initialised
  <2> QED BY <2>1 DEF TablesOK, InitialisedUnused
<1> QED BY <1>1, <1>2, <1>3, <1>5, <1>6 DEF TablesOK

(* Most labels need no driver to be found under a name. *)
PlainLabels == {"end", "idle", "fs_open", "open_set", "open_fail", "close", "fs_close", "seek", "read", "fs_read",
                "read_update"} \union DeinitLabels

(* A step that ends outside the drivers and mounts nothing keeps the tables. *)
LEMMA DriversPlain ==
    ASSUME TablesOK, NEW t \in Threads, UNCHANGED <<mounted, alive>>,
           \A f \in Files : files'[f].fs = files[f].fs \/ files'[f].fs = NoFs,
           \A u \in Threads \ {t} : pc'[u] = pc[u] /\ loc'[u] = loc[u],
           pc'[t] \in PlainLabels, loc'[t].op # "mount"
    PROVE  TablesOK'
<1>1. Initialised(t)' = {}
  BY DEF Initialised
<1>2. DriverInHand(t)'
  BY DEF DriverInHand, PlainLabels, DeinitLabels
<1> QED BY <1>1, <1>2, DriversMove

(* What vfs_start_op does to the labels and locals. *)
LEMMA StartMoves ==
    ASSUME TypeOK, NEW t \in Threads, NEW l, NEW labels, vfs_start_op(t, l, labels)
    PROVE  /\ UNCHANGED <<mounted, files>>
           /\ \A u \in Threads \ {t} : pc'[u] = pc[u] /\ loc'[u] = loc[u]
           /\ pc[t] = "idle"
           /\ \/ vfs_usable /\ pc'[t] \in labels /\ loc'[t] = l
              \/ ~vfs_usable /\ pc'[t] = "idle" /\ loc'[t] = loc[t]
BY DEF vfs_start_op, At, Goto, TypeOK

(* Starting an operation keeps the tables, mounting and unmounting included. *)
LEMMA BeginDrivers ==
    ASSUME TypeOK, TablesOK, ~halted, NEW t \in Threads, Begins(t)
    PROVE  TablesOK'
<1>1. DriverInHand(t)
  BY DEF TablesOK
<1>2. CASE io_close(t) \/ io_seek(t) \/ io_read(t)
  <2>1. PICK f \in Usable(t), o \in {"close", "seek", "tell", "read"}, labels \in {{"close"}, {"seek"}, {"read"}} :
          vfs_start_op(t, [NoLocals EXCEPT !.op = o, !.file = f], labels)
    BY <1>2 DEF io_close, io_seek, io_read, Usable
  <2>2. [NoLocals EXCEPT !.op = o, !.file = f].op = o
    BY DEF NoLocals
  <2>3. PICK l : l = [NoLocals EXCEPT !.op = o, !.file = f] /\ l.op = o
    BY <2>2, Zenon
  <2>4. /\ UNCHANGED <<mounted, files>> /\ pc[t] = "idle" /\ loc[t].op # "mount"
        /\ \A u \in Threads \ {t} : pc'[u] = pc[u] /\ loc'[u] = loc[u]
        /\ \/ pc'[t] \in labels /\ loc'[t] = l
           \/ pc'[t] = "idle" /\ loc'[t] = loc[t]
    BY <1>1, <2>1, <2>3, StartMoves DEF DriverInHand
  <2>5. pc'[t] \in PlainLabels /\ loc'[t].op # "mount"
    BY <2>3, <2>4 DEF PlainLabels
  <2>6. UNCHANGED alive
    BY <1>2 DEF io_close, io_seek, io_read
  <2> QED BY <2>4, <2>5, <2>6, DriversPlain
<1>3. CASE Call_unmount(t) \/ io_open(t) \/ io_create(t)
  <2>1. PICK n \in Names, o \in {"unmount", "open", "create"},
             labels \in {{"unmount"}, {"open_table", "end"}, {"create", "end"}} :
          vfs_start_op(t, [NoLocals EXCEPT !.op = o, !.name = n], labels)
    BY <1>3 DEF Call_unmount, io_open, io_create
  <2>2. [NoLocals EXCEPT !.op = o, !.name = n].op = o /\ [NoLocals EXCEPT !.op = o, !.name = n].name = n
    BY DEF NoLocals
  <2>3. PICK l : l = [NoLocals EXCEPT !.op = o, !.name = n] /\ l.op = o /\ l.name = n
    BY <2>2, Zenon
  <2>4. /\ UNCHANGED <<mounted, files>> /\ pc[t] = "idle" /\ loc[t].op # "mount"
        /\ \A u \in Threads \ {t} : pc'[u] = pc[u] /\ loc'[u] = loc[u]
        /\ \/ pc'[t] \in labels /\ loc'[t] = l
           \/ pc'[t] = "idle" /\ loc'[t] = loc[t]
    BY <1>1, <2>1, <2>3, StartMoves DEF DriverInHand
  <2>5. Initialised(t)' = {}
    BY <2>3, <2>4 DEF Initialised
  <2>6. DriverInHand(t)'
    BY <2>3, <2>4 DEF DriverInHand
  <2>7. UNCHANGED alive
    BY <1>3 DEF Call_unmount, io_open, io_create
  <2> QED BY <2>4, <2>5, <2>6, <2>7, DriversMove
<1>4. CASE DeinitStart(t)
  <2>1. pc[t] = "idle" /\ loc[t].op # "mount"
    BY <1>1, <1>4 DEF DeinitStart, At, DriverInHand
  <2>2. /\ pc'[t] \in DeinitLabels /\ UNCHANGED <<files, mounted, alive, loc>>
        /\ \A u \in Threads \ {t} : pc'[u] = pc[u]
    BY <1>4 DEF DeinitStart, Goto, TypeOK, tables, DeinitLabels
  <2> QED BY <2>1, <2>2, DriversPlain DEF PlainLabels
<1>5. ASSUME NEW v \in Threads, ForkHandles(t, v) PROVE TablesOK'
  <2>1. UNCHANGED <<mounted, alive, files, pc, loc>>
    BY <1>5 DEF ForkHandles, tables
  <2>2. loc[t].op # "mount" /\ pc[t] = "idle"
    BY <1>1, <1>5 DEF ForkHandles, At, DriverInHand
  <2> QED BY <2>1, <2>2, DriversPlain DEF PlainLabels
<1>6. CASE vfs_mount_fs(t)
  <2>1. PICK g \in Filesystems, n \in Names :
          /\ ~alive[g]
          /\ vfs_start_op(t, [NoLocals EXCEPT !.op = "mount", !.name = n, !.fs = g], {"mount"})
          /\ alive' = [alive EXCEPT ![g] = vfs_usable]
    BY <1>6 DEF vfs_mount_fs
  <2>2. PICK l : /\ l = [NoLocals EXCEPT !.op = "mount", !.name = n, !.fs = g]
                 /\ l.op = "mount" /\ l.name = n /\ l.fs = g
    <3>1. /\ [NoLocals EXCEPT !.op = "mount", !.name = n, !.fs = g].op = "mount"
          /\ [NoLocals EXCEPT !.op = "mount", !.name = n, !.fs = g].name = n
          /\ [NoLocals EXCEPT !.op = "mount", !.name = n, !.fs = g].fs = g
      BY DEF NoLocals
    <3> QED BY <3>1, Zenon
  <2>3. /\ UNCHANGED <<mounted, files>> /\ pc[t] = "idle" /\ loc[t].op # "mount"
        /\ \A u \in Threads \ {t} : pc'[u] = pc[u] /\ loc'[u] = loc[u]
        /\ \/ vfs_usable /\ pc'[t] = "mount" /\ loc'[t] = l
           \/ ~vfs_usable /\ pc'[t] = "idle" /\ loc'[t] = loc[t]
    BY <1>1, <2>1, <2>2, StartMoves DEF DriverInHand
  <2>4. CASE ~vfs_usable
    <3>1. alive' = alive
      BY <2>1, <2>4 DEF TypeOK
    <3> QED BY <2>3, <2>4, <3>1, DriversPlain DEF PlainLabels
  <2>5. CASE vfs_usable
    <3>1. \A h \in Filesystems : alive[h] => alive'[h]
      BY <2>1, <2>5 DEF TypeOK
    <3>2. alive'[g] /\ g # NoFs
      BY <2>1, <2>5, ConstantsAssumption DEF TypeOK
    <3>3. Initialised(t)' = {g} /\ DriverInHand(t)'
      BY <2>2, <2>3, <2>5, <3>2 DEF Initialised, DriverInHand
    <3>4. ASSUME NEW u \in Threads \ {t}
          PROVE  Initialised(u)' = Initialised(u) /\ DriverInHand(u)' /\ g \notin Initialised(u)
      <4>1. Initialised(u)' = Initialised(u)
        BY <2>3 DEF Initialised
      <4>2. vfs_get_filesystem(loc[u].name)' = vfs_get_filesystem(loc[u].name)
        BY <2>3, SameName
      <4>3. InUse(loc[u].fs)' = InUse(loc[u].fs)
        BY <2>3 DEF InUse
      <4>4. DriverInHand(u)'
        BY <2>3, <4>2, <4>3 DEF TablesOK, DriverInHand
      <4>5. g \notin Initialised(u)
        BY <2>1 DEF TablesOK, InitialisedUnused
      <4> QED BY <4>1, <4>4, <4>5
    <3>5. (\A r \in Rows : mounted[r].fs # g) /\ \A f \in Files : files[f].fs # g
      BY <2>1, <3>2 DEF TablesOK, MountTableOK, IsOpen
    <3>6. \A u \in Threads : InitialisedUnused(u)'
      <4>1. \A u \in Threads : \A h \in Initialised(u) : h \in Filesystems
        BY DEF TypeOK, Locals, Initialised
      <4> QED BY <2>3, <3>1, <3>2, <3>3, <3>4, <3>5, <4>1 DEF TablesOK, InitialisedUnused
    <3>7. InitialisedApart'
      BY <3>3, <3>4 DEF TablesOK, InitialisedApart
    <3>8. MountTableOK'
      BY <2>3, <3>1 DEF TablesOK, MountTableOK, TypeOK
    <3>9. \A f \in Files : IsOpen(f)' => alive'[files'[f].fs]
      BY <2>3, <3>1 DEF TablesOK, IsOpen, TypeOK, Entries
    <3> QED BY <3>3, <3>4, <3>6, <3>7, <3>8, <3>9 DEF TablesOK
  <2> QED BY <2>4, <2>5
<1> QED BY <1>2, <1>3, <1>4, <1>5, <1>6 DEF Begins

(* vfs_mount moves the driver in hand into a free row. *)
LEMMA MountDrivers ==
    ASSUME TypeOK, TablesOK, \A u \in Threads : SemaphoresHeld(u), NEW t \in Threads, vfs_mount(t)
    PROVE  TablesOK'
<1> DEFINE n == loc[t].name
           g == loc[t].fs
<1>1. /\ pc[t] = "mount" /\ loc[t].op = "mount" /\ g # NoFs /\ n \in Names /\ n # NoName
      /\ UNCHANGED <<files, alive>> /\ table_sem = NoThread
  BY ConstantsAssumption DEF vfs_mount, At, TablesOK, DriverInHand
<1>2. pc'[t] = "end" /\ \A u \in Threads \ {t} : pc'[u] = pc[u]
  BY DEF vfs_mount, Goto, TypeOK
<1>3. CASE MountRefused(n)
  <2>1. UNCHANGED <<mounted, loc>>
    BY <1>3 DEF vfs_mount
  <2>2. Initialised(t)' \subseteq Initialised(t)
    BY <1>1, <2>1 DEF Initialised
  <2>3. DriverInHand(t)'
    BY <1>1, <1>2, <2>1 DEF DriverInHand
  <2> QED BY <1>1, <1>2, <2>1, <2>2, <2>3, DriversMove
<1>4. CASE ~MountRefused(n)
  <2>1. PICK r \in Rows : r = FirstOf(FreeRows) /\ mounted[r].fs = NoFs
    BY <1>4, FirstRow DEF MountRefused, FreeRows
  <2>2. mounted' = [mounted EXCEPT ![r] = [fs |-> g, name |-> n]] /\ loc' = [loc EXCEPT ![t].fs = NoFs]
    BY <1>4, <2>1 DEF vfs_mount
  <2>3. mounted'[r].fs = g /\ mounted'[r].name = n /\ \A q \in Rows \ {r} : mounted'[q] = mounted[q]
    BY <2>1, <2>2 DEF TypeOK
  <2>4. loc'[t].fs = NoFs /\ \A u \in Threads \ {t} : loc'[u] = loc[u]
    BY <2>2 DEF TypeOK, Locals
  <2>5. loc'[t].op = loc[t].op
    BY <2>2 DEF TypeOK, Locals
  <2>6. /\ g \in Initialised(t) /\ alive[g]
        /\ \A q \in Rows : mounted[q].fs # g /\ mounted[q].name # n
    BY <1>1, <1>4 DEF Initialised, TablesOK, InitialisedUnused, MountRefused, NamedRows
  <2>7. Initialised(t)' = {} /\ DriverInHand(t)'
    BY <1>2, <2>4 DEF Initialised, DriverInHand
  <2>8. MountTableOK'
    <3>1. \A q \in Rows : mounted'[q].fs # NoFs => alive'[mounted'[q].fs]
      BY <1>1, <2>3, <2>6 DEF TablesOK, MountTableOK
    <3>2. \A p, q \in Rows : p # q /\ mounted'[p].fs # NoFs => mounted'[p].fs # mounted'[q].fs
      BY <2>3, <2>6 DEF TablesOK, MountTableOK
    <3>3. \A p, q \in Rows : p # q /\ mounted'[p].name # NoName => mounted'[p].name # mounted'[q].name
      BY <2>3, <2>6 DEF TablesOK, MountTableOK
    <3> QED BY <3>1, <3>2, <3>3 DEF MountTableOK
  <2>9. ASSUME NEW u \in Threads \ {t}
        PROVE  Initialised(u)' = Initialised(u) /\ InitialisedUnused(u)' /\ DriverInHand(u)'
    <3>1. Initialised(u)' = Initialised(u)
      BY <1>2, <2>4 DEF Initialised
    <3>2. g \notin Initialised(u)
      BY <2>6 DEF TablesOK, InitialisedApart
    <3>3. InitialisedUnused(u)'
      BY <1>1, <2>3, <3>1, <3>2 DEF TablesOK, InitialisedUnused
    <3>4. pc[u] \notin {"unmount_files", "fs_unmount", "fs_create"}
      BY <1>1, ConstantsAssumption DEF SemaphoresHeld
    <3>5. DriverInHand(u)'
      BY <1>2, <2>4, <3>4 DEF TablesOK, DriverInHand
    <3> QED BY <3>1, <3>3, <3>5
  <2>10. InitialisedApart'
    BY <2>7, <2>9 DEF TablesOK, InitialisedApart
  <2>11. InitialisedUnused(t)'
    BY <2>7 DEF InitialisedUnused
  <2>12. \A f \in Files : IsOpen(f)' => alive'[files'[f].fs]
    BY <1>1 DEF TablesOK, IsOpen
  <2> QED BY <2>7, <2>8, <2>9, <2>10, <2>11, <2>12 DEF TablesOK
<1> QED BY <1>3, <1>4

(* vfs_unmount takes away a driver that is in no file, with both tables      *)
(* locked.                                                                   *)
LEMMA UnmountDrivers ==
    ASSUME TypeOK, TablesOK, \A u \in Threads : SemaphoresHeld(u), NEW t \in Threads, vfs_unmount(t)
    PROVE  TablesOK'
<1> USE DEF Goto, SameLocks, SameRest, tables
<1> DEFINE n == loc[t].name
           g == loc[t].fs
<1>1. /\ pc[t] \in {"unmount", "unmount_files", "fs_unmount"} /\ n \in Names /\ n # NoName /\ loc[t].op # "mount"
      /\ DriverInHand(t)
  BY ConstantsAssumption DEF vfs_unmount, UnmountFind, UnmountFiles, FsUnmount, At, TablesOK, DriverInHand
<1>2. ASSUME NEW label, pc' = [pc EXCEPT ![t] = label] PROVE pc'[t] = label /\ \A u \in Threads \ {t} : pc'[u] = pc[u]
  BY <1>2 DEF TypeOK
<1>3. CASE UnmountFind(t)
  <2>1. /\ UNCHANGED <<mounted, files, alive, loc>> /\ \A u \in Threads \ {t} : pc'[u] = pc[u]
        /\ pc'[t] = "end" \/ (pc'[t] = "unmount_files" /\ vfs_get_filesystem(n) # NoFs)
    BY <1>2, <1>3 DEF UnmountFind
  <2>2. vfs_get_filesystem(n)' = vfs_get_filesystem(n)
    BY <2>1, SameName
  <2>3. Initialised(t)' = {} /\ DriverInHand(t)'
    BY <1>1, <2>1, <2>2 DEF Initialised, DriverInHand
  <2> QED BY <2>1, <2>3, DriversMove
<1>4. CASE UnmountFiles(t)
  <2>1. pc[t] = "unmount_files" /\ UNCHANGED <<mounted, files, alive>>
    BY <1>4 DEF UnmountFiles, At
  <2>2. CASE pc' = [pc EXCEPT ![t] = "end"] /\ UNCHANGED loc
    BY <1>1, <1>2, <2>1, <2>2, DriversPlain DEF PlainLabels
  <2>3. CASE /\ ~InUse(vfs_get_filesystem(n)) /\ pc' = [pc EXCEPT ![t] = "fs_unmount"]
             /\ loc' = [loc EXCEPT ![t].fs = vfs_get_filesystem(n)]
    <3>1. /\ loc'[t].fs = vfs_get_filesystem(n) /\ loc'[t].name = n /\ loc'[t].op = loc[t].op
          /\ \A u \in Threads \ {t} : loc'[u] = loc[u]
      BY <2>3 DEF TypeOK, Locals
    <3>2. vfs_get_filesystem(loc[t].name)' = vfs_get_filesystem(n)
      BY <2>1, <3>1 DEF vfs_get_filesystem, NamedRows
    <3>3. ~InUse(loc[t].fs)'
      BY <2>1, <2>3, <3>1 DEF InUse
    <3>4. pc'[t] = "fs_unmount" /\ \A u \in Threads \ {t} : pc'[u] = pc[u]
      BY <1>2, <2>3
    <3>5. Initialised(t)' = {} /\ DriverInHand(t)'
      BY <1>1, <2>1, <3>1, <3>2, <3>3, <3>4 DEF Initialised, DriverInHand
    <3> QED BY <2>1, <3>1, <3>4, <3>5, DriversMove
  <2> QED BY <1>4, <2>2, <2>3 DEF UnmountFiles
<1>5. CASE FsUnmount(t)
  <2>1. /\ pc[t] = "fs_unmount" /\ UNCHANGED <<files, loc>> /\ alive' = [alive EXCEPT ![g] = FALSE]
        /\ g # NoFs /\ vfs_get_filesystem(n) = g /\ ~InUse(g) /\ table_sem = t
    BY <1>1, <1>5 DEF FsUnmount, At, DriverInHand, SemaphoresHeld
  <2>2. pc'[t] = "end" /\ \A u \in Threads \ {t} : pc'[u] = pc[u]
    BY <1>2, <1>5 DEF FsUnmount
  <2>3. PICK r \in Rows : mounted[r].fs = g /\ mounted[r].name = n
    BY <2>1, FilesystemFound
  <2>4. mounted' = [mounted EXCEPT ![r].fs = NoFs]
    BY <1>1, <1>5, <2>3, NamedOnce DEF FsUnmount, TablesOK
  <2>5. mounted'[r].fs = NoFs /\ mounted'[r].name = n /\ \A q \in Rows \ {r} : mounted'[q] = mounted[q]
    BY <2>3, <2>4 DEF TypeOK
  <2>6. \A h \in Filesystems \ {g} : alive'[h] = alive[h]
    BY <2>1 DEF TypeOK
  <2>7. \A q \in Rows \ {r} : mounted[q].fs # g
    BY <2>1, <2>3 DEF TablesOK, MountTableOK
  <2>8. MountTableOK'
    <3>1. \A q \in Rows : mounted'[q].fs # NoFs => alive'[mounted'[q].fs]
      BY <2>5, <2>6, <2>7 DEF TablesOK, MountTableOK, TypeOK
    <3>2. \A p, q \in Rows : p # q /\ mounted'[p].fs # NoFs => mounted'[p].fs # mounted'[q].fs
      BY <2>5 DEF TablesOK, MountTableOK
    <3>3. \A p, q \in Rows : p # q /\ mounted'[p].name # NoName => mounted'[p].name # mounted'[q].name
      BY <2>3, <2>5 DEF TablesOK, MountTableOK
    <3> QED BY <3>1, <3>2, <3>3 DEF MountTableOK
  <2>9. Initialised(t)' = {} /\ DriverInHand(t)'
    BY <1>1, <2>1, <2>2 DEF Initialised, DriverInHand
  <2>10. ASSUME NEW u \in Threads \ {t}
         PROVE  Initialised(u)' = Initialised(u) /\ InitialisedUnused(u)' /\ DriverInHand(u)'
    <3>1. Initialised(u)' = Initialised(u)
      BY <2>1, <2>2 DEF Initialised
    <3>2. \A h \in Initialised(u) : h \in Filesystems \ {g} /\ h # NoFs
      BY <2>3 DEF TablesOK, InitialisedUnused, TypeOK, Locals, Initialised
    <3>3. InitialisedUnused(u)'
      BY <2>1, <2>5, <2>6, <3>1, <3>2 DEF TablesOK, InitialisedUnused
    <3>4. pc[u] \notin {"unmount_files", "fs_unmount", "fs_create"}
      BY <2>1 DEF SemaphoresHeld
    <3>5. DriverInHand(u)'
      BY <2>1, <2>2, <3>4 DEF TablesOK, DriverInHand
    <3> QED BY <3>1, <3>3, <3>5
  <2>11. InitialisedApart' /\ InitialisedUnused(t)'
    BY <2>9, <2>10 DEF TablesOK, InitialisedApart, InitialisedUnused
  <2>12. \A f \in Files : IsOpen(f)' => alive'[files'[f].fs]
    BY <2>1, <2>6 DEF TablesOK, IsOpen, InUse, TypeOK, Entries
  <2> QED BY <2>8, <2>9, <2>10, <2>11, <2>12 DEF TablesOK
<1> QED BY <1>3, <1>4, <1>5 DEF vfs_unmount

(* vfs_open reserves an entry for a mounted driver, with the mount table     *)
(* locked: no vfs_unmount has found that driver unused.                      *)
LEMMA OpenDrivers ==
    ASSUME TypeOK, TablesOK, \A u \in Threads : SemaphoresHeld(u), NEW t \in Threads, vfs_open(t)
    PROVE  TablesOK'
<1> USE DEF Goto, SameLocks, SameRest, tables
<1>1. /\ pc[t] \in {"open_table", "open_files", "fs_open", "open_fail", "open_set"} /\ loc[t].op # "mount"
      /\ DriverInHand(t)
  BY DEF vfs_open, OpenTable, OpenReserve, FsOpen, OpenFail, OpenSet, At, TablesOK, DriverInHand
<1>2. ASSUME NEW label, pc' = [pc EXCEPT ![t] = label] PROVE pc'[t] = label /\ \A u \in Threads \ {t} : pc'[u] = pc[u]
  BY <1>2 DEF TypeOK
<1>3. CASE OpenTable(t)
  <2>1. /\ pc[t] = "open_table" /\ UNCHANGED <<mounted, files, alive, loc>> /\ pc'[t] = "open_files"
        /\ \A u \in Threads \ {t} : pc'[u] = pc[u]
    BY <1>2, <1>3 DEF OpenTable, At
  <2>2. Initialised(t)' = {} /\ DriverInHand(t)'
    BY <1>1, <2>1 DEF Initialised, DriverInHand
  <2> QED BY <2>1, <2>2, DriversMove
<1>4. CASE FsOpen(t)
  <2>1. /\ UNCHANGED <<mounted, files, alive, loc>> /\ pc'[t] \in {"open_set", "open_fail"}
        /\ \A u \in Threads \ {t} : pc'[u] = pc[u]
    BY <1>2, <1>4 DEF FsOpen
  <2> QED BY <1>1, <2>1, DriversPlain DEF PlainLabels
<1>5. CASE OpenFail(t)
  <2>1. UNCHANGED <<mounted, alive>> /\ pc'[t] = "end" /\ \A u \in Threads \ {t} : pc'[u] = pc[u]
    BY <1>2, <1>5 DEF OpenFail
  <2>2. \A f \in Files : files'[f].fs = files[f].fs \/ files'[f].fs = NoFs
    BY <1>5 DEF OpenFail, TypeOK, Entries
  <2>3. loc'[t].op = loc[t].op /\ \A u \in Threads \ {t} : loc'[u] = loc[u]
    BY <1>5 DEF OpenFail, TypeOK, Locals
  <2> QED BY <1>1, <2>1, <2>2, <2>3, DriversPlain DEF PlainLabels
<1>6. CASE OpenSet(t)
  <2>1. UNCHANGED <<mounted, alive, loc>> /\ pc'[t] = "end" /\ \A u \in Threads \ {t} : pc'[u] = pc[u]
    BY <1>2, <1>6 DEF OpenSet
  <2>2. \A f \in Files : files'[f].fs = files[f].fs
    BY <1>6 DEF OpenSet, Filled, TypeOK, Entries
  <2> QED BY <1>1, <2>1, <2>2, DriversPlain DEF PlainLabels
<1>7. CASE OpenReserve(t)
  <2>1. pc[t] = "open_files" /\ table_sem = t /\ UNCHANGED <<mounted, alive>>
    BY <1>7 DEF OpenReserve, At, SemaphoresHeld
  <2>2. CASE pc' = [pc EXCEPT ![t] = "end"] /\ UNCHANGED <<files, loc>>
    BY <1>1, <1>2, <2>1, <2>2, DriversPlain DEF PlainLabels
  <2>3. ASSUME NEW f \in Files, NEW g, g = vfs_get_filesystem(loc[t].name), g # NoFs,
               files' = [files EXCEPT ![f].fs = g], loc' = [loc EXCEPT ![t].fs = g, ![t].file = f],
               pc' = [pc EXCEPT ![t] = "fs_open"]
        PROVE  TablesOK'
    <3>1. pc'[t] = "fs_open" /\ \A u \in Threads \ {t} : pc'[u] = pc[u]
      BY <1>2, <2>3
    <3>2. loc'[t].op = loc[t].op /\ \A u \in Threads \ {t} : loc'[u] = loc[u]
      BY <2>3 DEF TypeOK, Locals
    <3>3. files'[f].fs = g /\ \A h \in Files \ {f} : files'[h] = files[h]
      BY <2>3 DEF TypeOK, Entries
    <3>4. PICK r \in Rows : mounted[r].fs = g
      BY <2>3, FilesystemFound
    <3>5. alive[g]
      BY <2>3, <3>4 DEF TablesOK, MountTableOK
    <3>6. Initialised(t)' = {} /\ DriverInHand(t)'
      BY <1>1, <3>1, <3>2 DEF Initialised, DriverInHand
    <3>7. ASSUME NEW u \in Threads \ {t}
          PROVE  Initialised(u)' = Initialised(u) /\ InitialisedUnused(u)' /\ DriverInHand(u)'
      <4>1. Initialised(u)' = Initialised(u)
        BY <3>1, <3>2 DEF Initialised
      <4>2. g \notin Initialised(u)
        BY <3>4 DEF TablesOK, InitialisedUnused
      <4>3. InitialisedUnused(u)'
        BY <2>1, <3>3, <4>1, <4>2 DEF TablesOK, InitialisedUnused
      <4>4. pc[u] \notin {"unmount_files", "fs_unmount", "fs_create"}
        BY <2>1 DEF SemaphoresHeld
      <4>5. DriverInHand(u)'
        BY <3>1, <3>2, <4>4 DEF TablesOK, DriverInHand
      <4> QED BY <4>1, <4>3, <4>5
    <3>8. InitialisedApart' /\ InitialisedUnused(t)'
      BY <3>6, <3>7 DEF TablesOK, InitialisedApart, InitialisedUnused
    <3>9. MountTableOK'
      BY <2>1 DEF TablesOK, MountTableOK
    <3>10. \A h \in Files : IsOpen(h)' => alive'[files'[h].fs]
      BY <2>1, <3>3, <3>5 DEF TablesOK, IsOpen
    <3> QED BY <3>6, <3>7, <3>8, <3>9, <3>10 DEF TablesOK
  <2>4. \/ pc' = [pc EXCEPT ![t] = "end"] /\ UNCHANGED <<files, loc>>
        \/ \E f \in Files : \E g :
             /\ g = vfs_get_filesystem(loc[t].name) /\ g # NoFs
             /\ files' = [files EXCEPT ![f].fs = g]
             /\ loc' = [loc EXCEPT ![t].fs = g, ![t].file = f]
             /\ pc' = [pc EXCEPT ![t] = "fs_open"]
    BY <1>7, FirstRow DEF OpenReserve, Reserved
  <2> QED BY <2>2, <2>3, <2>4
<1> QED BY <1>3, <1>4, <1>5, <1>6, <1>7 DEF vfs_open

(* An operation that finds its file closed leaves the drivers alone. *)
LEMMA NotOpenDrivers ==
    ASSUME TypeOK, TablesOK, NEW t \in Threads, NotOpen(t)
    PROVE  TablesOK'
<1>1. /\ pc'[t] = "idle" /\ loc'[t] = NoLocals /\ UNCHANGED <<mounted, files, alive>>
      /\ \A u \in Threads \ {t} : pc'[u] = pc[u] /\ loc'[u] = loc[u]
  BY DEF NotOpen, Goto, tables, TypeOK
<1>2. NoLocals.op # "mount"
  BY DEF NoLocals
<1> QED BY <1>1, <1>2, DriversPlain DEF PlainLabels

(* Operations on open files find their driver in the entry. *)
LEMMA FileDrivers ==
    ASSUME TypeOK, TablesOK, NEW t \in Threads, vfs_close(t) \/ vfs_seek(t) \/ vfs_read(t)
    PROVE  TablesOK'
<1> USE DEF Goto, SameLocks, SameRest, tables
<1>1. CASE NotOpen(t)
  BY <1>1, NotOpenDrivers
<1>2. CASE ~NotOpen(t)
  <2>1. pc[t] \in {"close", "fs_close", "seek", "read", "fs_read", "read_update"}
    BY DEF vfs_close, CloseEntry, FsClose, vfs_seek, vfs_read, ReadEntry, FsRead, ReadUpdate, At
  <2>2. loc[t].op # "mount"
    BY <2>1 DEF TablesOK, DriverInHand
  <2>3. /\ UNCHANGED <<mounted, alive>>
        /\ \E label \in {"fs_close", "end", "fs_read", "read_update"} : pc' = [pc EXCEPT ![t] = label]
    BY <1>2 DEF vfs_close, CloseEntry, FsClose, vfs_seek, vfs_read, ReadEntry, FsRead, ReadUpdate
  <2>4. \A f \in Files : files'[f].fs = files[f].fs \/ files'[f].fs = NoFs
    <3>1. \/ files' = files
          \/ \E f : files' = [files EXCEPT ![f].fs = NoFs]
          \/ \E f, p : files' = [files EXCEPT ![f].pos = p]
      BY <1>2 DEF vfs_close, CloseEntry, FsClose, vfs_seek, vfs_read, ReadEntry, FsRead, ReadUpdate
    <3>2. ASSUME NEW f, files' = [files EXCEPT ![f].fs = NoFs]
          PROVE  \A h \in Files : files'[h].fs = files[h].fs \/ files'[h].fs = NoFs
      BY <3>2 DEF TypeOK, Entries
    <3>3. ASSUME NEW f, NEW p, files' = [files EXCEPT ![f].pos = p]
          PROVE  \A h \in Files : files'[h].fs = files[h].fs
      BY <3>3 DEF TypeOK, Entries
    <3> QED BY <3>1, <3>2, <3>3
  <2>5. loc'[t].op = loc[t].op /\ \A u \in Threads \ {t} : loc'[u] = loc[u]
    <3>1. \/ loc' = loc
          \/ \E g : loc' = [loc EXCEPT ![t].fs = g]
          \/ \E g, i : loc' = [loc EXCEPT ![t].fs = g, ![t].id = i]
      BY <1>2 DEF vfs_close, CloseEntry, FsClose, vfs_seek, vfs_read, ReadEntry, FsRead, ReadUpdate
    <3>2. ASSUME NEW g, loc' = [loc EXCEPT ![t].fs = g]
          PROVE  loc'[t].op = loc[t].op /\ \A u \in Threads \ {t} : loc'[u] = loc[u]
      BY <3>2 DEF TypeOK, Locals
    <3>3. ASSUME NEW g, NEW i, loc' = [loc EXCEPT ![t].fs = g, ![t].id = i]
          PROVE  loc'[t].op = loc[t].op /\ \A u \in Threads \ {t} : loc'[u] = loc[u]
      BY <3>3 DEF TypeOK, Locals
    <3> QED BY <3>1, <3>2, <3>3
  <2>6. pc'[t] \in PlainLabels /\ \A u \in Threads \ {t} : pc'[u] = pc[u]
    BY <2>3 DEF TypeOK, PlainLabels
  <2> QED BY <2>2, <2>3, <2>4, <2>5, <2>6, DriversPlain
<1> QED BY <1>1, <1>2

(* vfs_create enters a driver that is mounted. *)
LEMMA CreateDrivers ==
    ASSUME TypeOK, TablesOK, NEW t \in Threads, vfs_create(t)
    PROVE  TablesOK'
<1> USE DEF Goto, SameLocks, SameRest, tables
<1>1. /\ pc[t] \in {"create", "fs_create"} /\ loc[t].op # "mount" /\ UNCHANGED <<mounted, files, alive>>
  BY DEF vfs_create, CreateFind, FsCreate, At, TablesOK, DriverInHand
<1>2. CASE pc' = [pc EXCEPT ![t] = "end"] /\ UNCHANGED loc
  <2>1. pc'[t] = "end" /\ \A u \in Threads \ {t} : pc'[u] = pc[u]
    BY <1>2 DEF TypeOK
  <2> QED BY <1>1, <1>2, <2>1, DriversPlain DEF PlainLabels
<1>3. ASSUME NEW g, g = vfs_get_filesystem(loc[t].name), g # NoFs, loc' = [loc EXCEPT ![t].fs = g],
             pc' = [pc EXCEPT ![t] = "fs_create"]
      PROVE  TablesOK'
  <2>1. pc'[t] = "fs_create" /\ \A u \in Threads \ {t} : pc'[u] = pc[u]
    BY <1>3 DEF TypeOK
  <2>2. loc'[t].op = loc[t].op /\ loc'[t].fs = g /\ \A u \in Threads \ {t} : loc'[u] = loc[u]
    BY <1>3 DEF TypeOK, Locals
  <2>3. \E r \in Rows : mounted[r].fs = g
    BY <1>3, FilesystemFound
  <2>4. Initialised(t)' = {} /\ DriverInHand(t)'
    BY <1>1, <1>3, <2>1, <2>2, <2>3 DEF Initialised, DriverInHand
  <2> QED BY <1>1, <2>1, <2>2, <2>4, DriversMove
<1> QED BY <1>2, <1>3 DEF vfs_create, CreateFind, FsCreate

(* vfs_mount_fs gives up the driver that vfs_mount has refused. *)
LEMMA EndDrivers ==
    ASSUME TypeOK, TablesOK, NEW t \in Threads, vfs_end_op(t)
    PROVE  TablesOK'
<1>1. /\ pc[t] = "end" /\ pc'[t] = "idle" /\ loc'[t] = NoLocals /\ UNCHANGED <<mounted, files>>
      /\ \A u \in Threads \ {t} : pc'[u] = pc[u] /\ loc'[u] = loc[u]
  BY DEF vfs_end_op, At, Goto, TypeOK
<1>2. \A h \in Filesystems : alive'[h] = (alive[h] /\ h \notin Initialised(t))
  BY <1>1, ConstantsAssumption DEF vfs_end_op, Initialised
<1>3. NoLocals.op # "mount"
  BY DEF NoLocals
<1>4. Initialised(t)' = {} /\ DriverInHand(t)'
  BY <1>1, <1>3 DEF Initialised, DriverInHand
<1>5. ASSUME NEW u \in Threads \ {t}
      PROVE  Initialised(u)' = Initialised(u) /\ InitialisedUnused(u)' /\ DriverInHand(u)'
  <2>1. Initialised(u)' = Initialised(u)
    BY <1>1 DEF Initialised
  <2>2. \A h \in Initialised(u) : h \in Filesystems /\ h \notin Initialised(t)
    BY DEF TablesOK, InitialisedApart, TypeOK, Locals, Initialised
  <2>3. InitialisedUnused(u)'
    <3>1. \A g \in Initialised(u) : alive[g] /\ (\A r \in Rows : mounted[r].fs # g) /\ \A f \in Files : files[f].fs # g
      BY DEF TablesOK, InitialisedUnused
    <3>2. \A g \in Initialised(u) : alive'[g]
      BY <1>2, <2>2, <3>1
    <3> QED BY <1>1, <2>1, <3>1, <3>2 DEF InitialisedUnused
  <2>4. vfs_get_filesystem(loc[u].name)' = vfs_get_filesystem(loc[u].name)
    BY <1>1, SameName
  <2>5. InUse(loc[u].fs)' = InUse(loc[u].fs)
    BY <1>1 DEF InUse
  <2>6. DriverInHand(u)'
    BY <1>1, <2>4, <2>5 DEF TablesOK, DriverInHand
  <2> QED BY <2>1, <2>3, <2>6
<1>6. InitialisedApart' /\ InitialisedUnused(t)'
  BY <1>4, <1>5 DEF TablesOK, InitialisedApart, InitialisedUnused
<1>7. \A g \in Initialised(t) : (\A r \in Rows : mounted[r].fs # g) /\ \A f \in Files : files[f].fs # g
  BY DEF TablesOK, InitialisedUnused
<1>8. MountTableOK'
  BY <1>1, <1>2, <1>7 DEF TablesOK, MountTableOK, TypeOK
<1>9. \A f \in Files : IsOpen(f)' => alive'[files'[f].fs]
  BY <1>1, <1>2, <1>7 DEF TablesOK, IsOpen, TypeOK, Entries
<1> QED BY <1>4, <1>5, <1>6, <1>8, <1>9 DEF TablesOK

(* vfs_deinit before its unmounting keeps the tables. *)
LEMMA DeinitDrivers ==
    ASSUME TypeOK, TablesOK, NEW t \in Threads, vfs_deinit(t), ~DeinitUnmount(t)
    PROVE  TablesOK'
<1> USE DEF Goto, SameLocks, SameRest, tables
<1>1. /\ pc[t] \in DeinitLabels /\ UNCHANGED <<mounted, files, alive, loc>>
      /\ \E label \in DeinitLabels : pc' = [pc EXCEPT ![t] = label]
  BY DEF vfs_deinit, DeinitWait, DeinitOp, DeinitTable, DeinitFiles, At, DeinitLabels
<1>2. loc[t].op # "mount"
  BY <1>1 DEF TablesOK, DriverInHand, DeinitLabels
<1>3. pc'[t] \in PlainLabels /\ \A u \in Threads \ {t} : pc'[u] = pc[u]
  BY <1>1 DEF TypeOK, PlainLabels
<1> QED BY <1>1, <1>2, <1>3, DriversPlain

(* The forced unmount leaves no driver that anybody could call. *)
LEMMA ForcedUnmountDrivers ==
    ASSUME TypeOK, TablesOK, NEW t \in Threads, DeinitUnmount(t), Active = {}
    PROVE  /\ DriverAlive' /\ MountTableOK' /\ InitialisedApart'
           /\ \A u \in Threads : InitialisedUnused(u)' /\ DriverInHand(u)'
<1>1. /\ halted' /\ UNCHANGED <<files, loc>> /\ pc' = [pc EXCEPT ![t] = "idle"]
      /\ \A r \in Rows : mounted'[r].fs = NoFs /\ mounted'[r].name = mounted[r].name
  BY DEF DeinitUnmount, Goto, TypeOK
<1>2. \A u \in Threads : pc[u] \in {"idle"} \union DeinitLabels /\ pc'[u] \in {"idle"} \union DeinitLabels
  BY <1>1 DEF Active, TypeOK
<1>3. DriverAlive'
  BY <1>1, <1>2 DEF DriverAlive, DeinitLabels
<1>4. MountTableOK'
  BY <1>1 DEF TablesOK, MountTableOK
<1>5. \A u \in Threads : Initialised(u)' = {} /\ loc[u].op # "mount"
  BY <1>2 DEF Initialised, DeinitLabels, TablesOK, DriverInHand
<1>6. \A u \in Threads : InitialisedUnused(u)' /\ DriverInHand(u)'
  BY <1>1, <1>2, <1>5 DEF InitialisedUnused, DriverInHand, DeinitLabels
<1> QED BY <1>3, <1>4, <1>5, <1>6 DEF InitialisedApart

(* Every step keeps drivers in use alive. *)
LEMMA DriversStep ==
    ASSUME TypeOK, OpenFilesOK', DriversOK, ForcedUnmountAlone, [Next]_vars
    PROVE  DriversOK'
<1>1. CASE UNCHANGED vars
  <2>1. \A u \in Threads : vfs_get_filesystem(loc[u].name)' = vfs_get_filesystem(loc[u].name)
    BY <1>1, SameName DEF vars
  <2>2. /\ DriverAlive' /\ MountTableOK' /\ InitialisedApart'
        /\ \A u \in Threads : Initialised(u)' = Initialised(u) /\ SemaphoresHeld(u)'
    BY <1>1 DEF DriversOK, DriverAlive, IsOpen, MountTableOK, InitialisedApart, Initialised, SemaphoresHeld, vars
  <2>3. \A u \in Threads : InitialisedUnused(u)'
    BY <1>1, <2>2 DEF DriversOK, InitialisedUnused, vars
  <2>4. \A u \in Threads : InUse(loc[u].fs)' = InUse(loc[u].fs)
    BY <1>1 DEF InUse, vars
  <2>5. \A u \in Threads : DriverInHand(u)'
    BY <1>1, <2>1, <2>4 DEF DriversOK, DriverInHand, vars
  <2> QED BY <2>2, <2>3, <2>5 DEF DriversOK
<1>2. ASSUME NEW t \in Threads, Begins(t) \/ GoesOn(t) PROVE DriversOK'
  <2>1. ~halted
    BY <1>2 DEF Begins, GoesOn, vfs_mount_fs, Call_unmount, io_open, io_close, io_seek, io_read, io_create,
       DeinitStart, ForkHandles, vfs_start_op, vfs_mount, vfs_unmount, UnmountFind, UnmountFiles, FsUnmount,
       vfs_open, OpenTable, OpenReserve, FsOpen, OpenFail, OpenSet, vfs_close, CloseEntry, FsClose, vfs_seek,
       vfs_read, ReadEntry, FsRead, ReadUpdate, vfs_create, CreateFind, FsCreate, vfs_end_op, vfs_deinit,
       DeinitWait, DeinitOp, DeinitTable, DeinitFiles, DeinitUnmount, At
  <2>2. TablesOK /\ \A u \in Threads : SemaphoresHeld(u)
    BY <2>1 DEF DriversOK, DriverAlive, TablesOK
  <2>3. \A u \in Threads : SemaphoresHeld(u)'
    BY <2>2, SemaphoresStep
  <2>4. CASE DeinitUnmount(t)
    <3>1. Active = {}
      BY <2>4 DEF ForcedUnmountAlone, DeinitUnmount, At
    <3> QED BY <2>2, <2>3, <2>4, <3>1, ForcedUnmountDrivers DEF DriversOK
  <2>5. CASE ~DeinitUnmount(t)
    <3>1. TablesOK'
      BY <1>2, <2>1, <2>2, <2>5, BeginDrivers, MountDrivers, UnmountDrivers, OpenDrivers, FileDrivers, CreateDrivers,
         EndDrivers, DeinitDrivers DEF GoesOn
    <3>2. (OpenFilesOK /\ TablesOK => DriverAlive)'
      BY CallsAlive, PTL
    <3> QED BY <2>3, <3>1, <3>2 DEF DriversOK, TablesOK
  <2> QED BY <2>4, <2>5
<1> QED BY <1>1, <1>2 DEF Next, Off

(* Without fork, every call of a driver finds it initialised: neither        *)
(* vfs_unmount nor the forced unmount of vfs_deinit takes it away from under *)
(* an operation, and a driver is mounted once, under a name of its own.      *)
THEOREM DriversInvariant == ASSUME ~ForkShares PROVE Spec => []DriversOK
<1>1. Init => DriversOK
  <2> SUFFICES ASSUME Init PROVE DriversOK
    OBVIOUS
  <2>1. \A t \in Threads : pc[t] = "idle" /\ loc[t].op = "none"
    BY DEF Init, NoLocals
  <2>2. \A t \in Threads : Initialised(t) = {} /\ SemaphoresHeld(t) /\ DriverInHand(t)
    BY <2>1 DEF Initialised, SemaphoresHeld, DriverInHand
  <2>3. InitialisedApart /\ \A t \in Threads : InitialisedUnused(t)
    BY <2>2 DEF InitialisedApart, InitialisedUnused
  <2>4. DriverAlive
    BY <2>1 DEF DriverAlive, IsOpen, Init
  <2>5. PICK g \in Filesystems, n \in Names :
          /\ mounted = [r \in Rows |-> IF r = 0 THEN [fs |-> g, name |-> n]
                                       ELSE [fs |-> NoFs, name |-> NoName]]
          /\ alive = [h \in Filesystems |-> h = g]
    BY DEF Init
  <2>6. \A r \in Rows : /\ mounted[r].fs = IF r = 0 THEN g ELSE NoFs
                        /\ mounted[r].name = IF r = 0 THEN n ELSE NoName
    BY <2>5
  <2>7. MountTableOK
    BY <2>5, <2>6, ConstantsAssumption DEF MountTableOK
  <2> QED BY <2>2, <2>3, <2>4, <2>7 DEF DriversOK
<1>2. OpenFilesOK' /\ TypeOK /\ DriversOK /\ ForcedUnmountAlone /\ [Next]_vars => DriversOK'
  BY DriversStep
<1> QED BY <1>1, <1>2, OpsCountInvariant, ForcedUnmountInvariant, OpenFilesInvariant, PTL DEF Spec
================================================================================
