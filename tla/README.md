# TLA+ specifications of the BUENOS kernel

BUENOS (`src/buenos`) is a small multiprocessor kernel for a simulated MIPS
machine: preemptive threads on several CPUs, sleep queues and semaphores,
processes, a virtual filesystem with one filesystem, drivers and a packet
protocol.  `src/heap` is a separate exercise on binary heaps.  These modules
model the parts that keep state of their own, most of which several contexts
share; TLC checks them on small instances, and TLAPS proves the invariants of
the thread table for instances of every size.

## 1. Inventory

### Components

| Component | Sources | State | Operations |
|---|---|---|---|
| threads, scheduler | `kernel/thread.c`, `scheduler.c` | `thread_table`, ready list, `scheduler_current_thread`, `next_tid` | create, run, switch, finish, schedule |
| sleep queue | `kernel/sleepq.c` | hash table of chains through `thread_table[].next` | add, wake, wake_all |
| interrupts | `kernel/interrupt.c`, assembly | `_is_in_interrupt`, pending causes | interrupt_handle, device handlers |
| semaphores | `kernel/semaphore.c` | table of value, lock, creator | create, destroy, P, V |
| virtual filesystem | `fs/vfs.c` | mount table, open file table, operation counter | mount, unmount, open, close, seek, tell, read, write, create, remove, getfree, deinit |
| handles | `proc/io.c` | the open files of each process | open, close, seek, tell, read, write, create, remove |
| processes | `proc/process.c` | process table; `process_id` and `pagetable` of threads | spawn, start, fork, fork_setup, finish, join, memlimit |
| user semaphores | `proc/usr_sem.c` | table of names | open, P, V, destroy |
| memory | `vm/pagepool.c`, `vm.c`, `tlb.c` | page bitmap, page tables, TLB | get, free, map, unmap, set_dirty, fill |
| bitmap | `lib/bitmap.c` | bits in words | get, set, findnset |
| TFS | `fs/tfs.c` | allocation block, directory, inodes | init, unmount, open, create, remove, read, write |
| disk | `drivers/disk.c`, `disksched.c` | request queue, request being served | submit, next_request, handler |
| terminal | `drivers/tty.c` | read and write ring buffers | read, write, handler |
| network | `net/pop.c`, `socket.c`, `network.c`, `protocols.c` | sockets, receive queue, frames | open, close, sendto, recvfrom, push_frame, service thread |
| boot | `init/main.c`, `kernel/kmalloc.c`, `drivers/device.c`, `metadev.c` | permanent memory, device and handler tables | kmalloc, interrupt_init, device_init, vm_init |
| tfstool | `util/tfstool.c` | the same volumes, on the host | create, list, read, write, delete |
| allocator of programs | `tests/lib.c` | list of free blocks | malloc, calloc, realloc, free |
| heap exercise | `heap/*.c` | a binary tree | insert, clear, validity |
| system calls, ELF, kernel library, ports of other drivers, test programs | | none of their own | |

### How they interact

* Every blocking operation rests on the sleep queue: `semaphore_P` and
  `process_join` call `sleepq_add` and then `thread_switch`; `semaphore_V`
  (from threads and from interrupt handlers) and `process_finish` call
  `sleepq_wake` or `sleepq_wake_all`, which put threads on the ready list.
* The scheduler runs at the end of `interrupt_handle` on a timer or software
  interrupt and decides from `state` and `sleeps_on` what becomes of the
  thread that is taken off.
* The VFS is guarded by three semaphores and calls filesystem drivers, which
  lock themselves, which call the disk driver, whose interrupt handler raises
  the semaphore of the request.
* `process_fork` copies the handles of a process, so that two processes use
  the same entries of the table of open files.
* Terminal, disk and network handlers share queues with threads and raise
  semaphores.

### What is hard about it

* The link field `next` is shared by the ready list and by the chains of the
  sleep queue, and three locks (`thread_table_slock`, `sleepq_slock`, the
  caller's) are taken in turn on the way from "I must wait" to "I am off the
  CPU": a wake-up may arrive anywhere on this way.
* `_is_in_interrupt` is one flag for all CPUs.
* `process_join` tests, sleeps and tests again; `process_finish` may come in
  between.
* VFS operations let go of the semaphore while they call a driver and then use
  the entry again; shutdown waits for the operations to drain.
* Pids, thread entries and open file entries are used again while references
  to them remain.
* Counters and tables have limits and not every failure gives back what it took.

The list `hazards` in `PROJECT.json` places each of these at its line.

### What makes each component correct

* threads, scheduler: the ready list holds exactly the ready threads; no thread
  on two CPUs; a finished thread never runs again and is freed; a ready thread runs.
* sleep queue: every sleeper is reachable by `sleepq_wake`; no wake-up is lost.
* semaphores: a counting semaphore with a first-come first-served queue.
* VFS: no driver is called after it was unmounted; handles refer to open files;
  the operation counter is exact; shutdown completes and runs alone.
* processes: one thread per process; a parent can join each of its children,
  and only the parent frees a slot, through reuse of pids.
* user semaphores: one kernel semaphore per entry; nobody sleeps on one that is
  gone, apart from the race that the code admits and from calls with a handle
  whose entry is being opened anew.
* memory: a page has one owner; a process may use its memory up to `heap_end`;
  the translation buffer leads nobody to another's memory and holds what the page
  table says, apart from what is mapped or protected after an entry was loaded.
* disk: a disk of atomic blocks; every request is served once and returns.
* terminal: order is kept in both directions and no sleeper is forgotten.
* TFS: files keep to their own blocks wherever an operation stops; what was
  written is read back; both until someone writes through the handle of a removed file.
* network: a page has one owner; a packet goes to its port and to the call that
  waits for it.
* allocator, heap: memory is partitioned; the tree is complete and ordered.
* boot: the kernel's memory and the page pool are apart; every device has its handler.

## 2. Plan

1. **Done**: `ThreadTable`, `Kernel` (threads, scheduler, sleep queue,
   interrupts, semaphores, sleeping in join) with proofs; `CountingSemaphore`
   and its refinement; `Vfs`; `Process`.
2. **Done**: `SemTable` and `UsrSem`; `Memory`; `Disk` with `AtomicDisk`; `Tty`;
   `Tfs` with the tool; `Pop`; `Malloc`; `Heap`; `Boot`.
3. **Done**: proofs of the invariants of `Disk` and its refinement, `Tty`, `Vfs`,
   `Process`, `Boot`, `UsrSem` and `Malloc`, and of the counters and joins of `Kernel`.
4. **Done**: proofs of the invariants of `Memory`, `Pop`, `Tfs` and `Heap`, and of the
   refinement of `CountingSemaphore`: every invariant that a run checks is proved.
5. Left: liveness, which is outside the prover.

## 3. Modules and the code

### `LinkedList`
What it means that a set of table entries is linked from a first one through a
field (`IsList`), and that a list knows its last entry (`IsQueue`).  Reachability
is stated without recursion: no smaller set holds the list.  So is the order of its
nodes: `ListFrom` is the part of the list from a node on.

### `ThreadTable` (`kernel/thread.c`, `scheduler.c`, `sleepq.c`, `interrupt.c`)
The shared variables carry the names of the code.  A *context* is a thread or
the interrupt handler of a CPU; each has a label `pc` and the locals the code
needs (`res`, `tid`, `resched`).  A thread takes steps only while it is the
current thread of a CPU that is in no handler (`Runs`); interrupts are taken
only at the labels in `Preemptible`.

* Sections under `thread_table_slock` are one step: interrupts are off, and no
  other lock is taken inside.  `sleepq_slock` is a variable, because
  `sleepq_wake` holds it while it takes `thread_table_slock`; so are the locks
  of semaphores and of the process table.
* `sleepq_add` is two steps: `next` and `sleeps_on` are written before
  `sleepq_slock` is taken.  `sleepq_wake` is two: unlinking, and making ready
  under the thread table's lock.
* `thread_create` is three: reserving the entry, filling it in without the
  lock, `thread_run`.
* `thread_finish` is two: marking, and the software interrupt, which is raised
  only while no CPU is in a handler.  Otherwise the function returns: to its own
  beginning for a thread whose main function has returned, since that is its
  return address; to `process_finish` and the program otherwise (`FinishReturn`).
  What the program executes after that is not modelled.
* The traversal of a chain (`Walk`) is the least set that holds the first
  thread and follows `next`.

### `Kernel` (`kernel/semaphore.c`, the sleeping parts of `proc/process.c`)
Adds semaphores and process slots as the resources threads sleep on, and lets
threads call every operation in any order.  A device is an interrupt whose
handler raises a semaphore.  `process_join` keeps interrupts disabled across its
`thread_switch`, hence `join_acquire` is the one label at which a thread is
resumed with interrupts disabled.  In this module a process slot is only
"zombie or not"; the table itself is in `Process`.

### `CountingSemaphore`
The promise of a semaphore.  The refinement mapping is at the end of `Kernel`: the
free units are the positive part of `value`; the queue holds the threads of the chain
that sleep on the semaphore (`Line`), at the place that the number of them up to and
including the thread gives it (`UpTo`, `Place`).

### `Vfs` (`fs/vfs.c`, `proc/io.c`, `kernel/halt.c`)
Each thread is a process with its handles.  One action per critical section and
per driver call, in the order of the code, with the early returns.  Path names
are abstracted to the mount point; the id of a file to the driver that issued
it; read and write differ only inside the driver and are one operation.
`vfs_start_op` and `vfs_end_op` hold `vfs_op_sem` for a section that waits for
nothing and are one step each.  Two variables are history: `leaked` counts the
operations that returned `VFS_NOT_OPEN` without `vfs_end_op`, `touched` says that
an open file was used.  `ForkHandles` is the copying of handles by
`process_fork` (the child's own life is not followed here: a thread without
handles plays the child).

### `Process` (`proc/process.c`, `thread_create`)
Process table and thread entries with the fields processes use.  Unlocked stores
between locked sections are steps.  The system stops with a cause where the code
would use a NULL pointer or fail an assertion.  Waiting is a guard, since
`Kernel` shows that the waits are left.  History: `kids`, the pids a program was
given and has not joined, and `lost`, the slots given up when the thread table
was full.  A child in `process_fork_setup` uses the stack of its parent;
`ParentStays` says that the parent, found by the pid it waits for, is still there.

### `AtomicDisk`, `Disk` (`drivers/disk.c`, `disksched.c`)
A request is named by the thread whose stack holds it.  A caller makes its
semaphore, queues the request under the device's lock and starts the device if it
is idle, waits, destroys the semaphore.  The handler runs on any CPU: it looks at
the status port without the lock, then takes the lock, then raises the semaphore
(from here the caller may run while the handler is in `semaphore_V`), then
starts the next request.  The semaphores are the abstract ones that `Kernel`
implements, with an entry of the table each; any free entry may be taken.
`AtomicDisk` has calls that take effect in one step; the mapping is that a
request takes effect when the device completes the transfer.

### `Tty` (`drivers/tty.c`)
Characters are numbered in order, modulo `Numbers`, so that order and loss can be
seen.  Sections of threads under the lock are one step; the handler takes one
step per turn of its loops and holds the lock meanwhile.  The bit WIRQE that
allows write interrupts is set from the first output on and left out.  `intact`
is history: since the read buffer was last empty nothing has overrun it.

### `Tfs` (`fs/tfs.c`, `util/tfstool.c`)
An operation of the driver holds one lock throughout, and the tool has the
volume to itself, so an operation is one step that says how many of its block
writes, in the order of the code, reached the disk.  The tool and the driver
share the volume and write in different orders.  `files` is the history of what
each file should hold; `damage` records the one operation that left the volume
inconsistent.  After that only operations that do not depend on the damaged
entry, and the repetition of a removal, are followed.

`tfs_write` reads the block of its handle as an inode whatever it holds, and
writes to the blocks it finds there whatever they are used for: data, inodes, the
allocation block, the directory.  For the handle of a file that exists this is its
inode (`HasInode`, part of `VolumeOK`).  For a removed file (`Stale`) it may be the
inode or the data of another one.  `ForgedInodes`, `ForgedBats` and `ForgedDirs`
bound what data may spell when it is read as an inode, or lies in the two system
blocks.  A write through such a handle is `damage` "stale", after which nothing
is claimed.

### `Pop` (`net/pop.c`, `socket.c`, `network.c`, `protocols.c`, pages of `pagepool.c`)
Client threads open, close, send and receive; each interface has its receiving
thread; the service thread scans the queue under both semaphores and then
discards, copies and wakes without them, one step each.  The wire loses frames
or brings any frame for any port.  A behaviour ends after a panic and after the
race for a frame that is being discarded (`raced`).

A socket lets in a second receiver once the service thread has taken out the
buffer of the first, which may not have been signalled yet.  `crowded` holds the
sockets in which that has happened, until their last call has returned.  What is
said of the packet of one call leaves these out; how many calls, buffers, packets
and signals there are (`CallersCounted`) is said of all.

### `SemTable`, `UsrSem` (`kernel/semaphore.c`, `proc/usr_sem.c`)
The search of `semaphore_create` for an entry, and the named semaphores over it.
The test of an entry and what is then done with its kernel semaphore are
separate steps.  So are the two halves of `usr_sem_open`, which marks the entry as
used and then gives it a semaphore: its lock keeps out other calls of `usr_sem_open`
only.  A behaviour ends once the race of `usr_sem_destroy` is lost or the semaphore
is used that an entry had before (both "race"), or an entry without a semaphore
is used ("null").

### `Memory` (`vm/pagepool.c`, `vm.c`, `tlb.c`, the memory of `proc/process.c`)
Processes start, load, run, grow their heap, fork and finish; accesses to memory
fill the translation buffer through the exceptions, at a place that hardware
chooses.  The bitmap of pages is a set.  An access that matches two entries stops
the model ("duplicate"), as do the panics of `vm_map` and the TLB handlers.
Programs are laid out as `tests/ld.userland.script` does it (`MemoryAssumption`): the
writable segment after the read-only one, on pages of its own, below the stack; no
heap is asked to reach the stack, for which a page table has too few entries.
An entry keeps frame and dirty bit as they were when it was loaded; nothing in the
code takes one out of the buffer.  `veteran` are the identifiers under which a
process has finished.

### `Malloc` (`tests/lib.c`)
Free list in order of addresses, in words.  A call is one step, `realloc` two.
`free` finds the block's `Place`, joins it with the block before it (`With`, if they
`Touch`) and the result with the block after it.  What blocks hold is left out.

### `Heap` (`heap/sequential-heap.c`)
A turn of the loop of `insert_on_path` or `merge_on_path` is a step.  `TopBit`, the
mask with which an insertion begins, is a recursive function instead of a shift.
`concurrent-heap.c` repeats the code and takes no lock.

### `Boot` (`init/main.c`, `kernel/kmalloc.c`, `interrupt.c`, `drivers/device.c`)
Each init function states what it asks of `kmalloc`, in order (`asked`), and goes
on when it has it.  The machine's device list is chosen at the beginning.

## 4. Runs

| Run | Instance | Shows |
|---|---|---|
| `kernel_smp` | 2 threads + idle, 2 CPUs, 1 semaphore, 1 slot, one hash bucket, a device | list, state and counter invariants, the proofs' inductive invariant, refinement of `CountingSemaphore`; no deadlock |
| `kernel_liveness` | 2 threads, 2 CPUs, 3 operations | finished threads are freed, joiners of a zombie are woken, handlers return |
| `kernel_no_starvation` | 3 threads, 1 CPU, 5 operations | a ready thread runs |
| `kernel_exit` | as `kernel_smp` | a violation: section 7 |
| `vfs` | 2 processes, 2 files, 2 mount rows, 2 drivers, 2 names | with handles that are not shared: handles are valid, drivers alive, positions start at zero; no deadlock |
| `vfs_shared` | 2 processes that fork, 1 file, handle 2 in use | counter exact up to leaks, forced unmount alone, operations return, shutdown completes unless an operation leaked |
| `process` | 3 slots, 5 threads (idle, startup, 3 for processes), 2 semaphores, 3 files | one thread per process, parents, reuse of pids, fork returns when the child has used the stack |
| `disk` | 3 callers, 1 block, 2 CPUs, 3 semaphores | the driver's assertions, each request served once, semaphores not mixed up, refinement of `AtomicDisk`, every call returns; no deadlock |
| `tty` | 2 writers; or 2 readers and a typist; or a writer and a typist; 2 CPUs, buffer of 2 | order, nobody forgotten, output and input go on; no deadlock |
| `tfs` | 7 blocks of 2 bytes, 2 files of at most 2 blocks, 2 open handles, sizes 1 to 3 | files disjoint, space exact, contents read back, wherever operations stop, until a stale write |
| `pop` | 2 clients, 1 interface, 1 socket, 2 slots, 2 ports, 5 pages | pages owned once, packets to their port and call, no lost signal, with one or two receivers in the socket |
| `services` | five components, one in each behaviour | user semaphores, memory, allocator, heap, boot |

The properties that runs list are conjunctions of named parts where several
belong to one invariant: `KernelInv` (`TableInv`: types, ready list, current threads,
sleep queue; `WaitInv`: `LocksOK`, `CountsOK`, `WokenOK`, `JoinersOK`; section 5),
`OpenFilesOK` (`HandlesOK`, `NewFileAtZero`), `DriversOK` (`DriverAlive`, `MountTableOK`),
`ProcessInv` (`OneThreadPerProcess`, `ThreadsOK`), `FamilyOK` (`ParentMadeIt`, `KidsStay`,
`MadeOnce`), `DiskInv` (`DiskAssertions`, `DiskServedOnce`, `DiskSemaphoresOwned`,
`DiskLockOK`, `DiskResultsOK`), `BuffersOK` (`WrittenInOrder`, `ReadInOrder`), `TtyProgress`
(`WrittenIsPrinted`, `TypedWakesReaders`), `VolumeOK`
(`FilesDisjoint` with `HasInode`, `SpaceExact`),
`PopInv` (`NoLostSignal`, `PagesOwnedOnce`, `FramesOK`, `ServiceOK`, `ReceiversOK`,
`CallersCounted`), `ForkReturns` (with `ParentStays`),
`DeliveredToPort` (with `QueuedForPort`), `UsrSemInv` (`NamesUnique`,
`EntriesOwnSemaphores`, `CallOK`, `SleepersCounted`), `KernelMemoryApart` (`KmallocOK`,
`AreasApart`), `EveryDeviceHandled` (with `TablesFilled`), `MemInv` (`FramesOwnedOnce`,
`HeapsApart`, `EntriesOwned`),
`HeapUsable` (`HeapMapped`, `RemapExplained`), `TlbOK` (`OwnOrGone`, `FirstUseTranslates`,
`DuplicatesExplained`), `MallocInv` (`MallocTypeOK`, `HeapPartitioned`, `FreeListJoined`,
`BlocksBigEnough`), `IsHeap` (`HeapComplete`, `HeapOrdered`); most begin with the
module's type invariant.  Where a theorem states the property, the run checks the
whole inductive invariant of its proof, except for `ReadsBack` (section 5).

`MCServices` puts five components that share nothing into one run: the variable
`component` is chosen at the beginning, and only that component moves.  The
invariants of the others then hold of their initial states, so that each is
checked on exactly the behaviours of its own specification.

**Bounds.**  The kernel runs put all resources into one bucket, so that chains
mix sleepers of a semaphore and of a slot; with a chain of two and two CPUs every
pair of operations can meet at every pair of steps, and a device handler
interrupts each of them.  `MaxValue` bounds V from outside; P may push the value
below zero as far as there are threads.  The thread table is small enough to be
full and for `next_tid` to wrap.  In `vfs`, two files and two rows allow reuse
of one entry while the other is in use, and both tables get full.  In `process`,
three slots and three threads for them let a grandchild outlive its parent, pids be used
again and the thread table fill up.  `MaxPos` and `MaxLeaked` only keep counters
finite; one leak is enough to break the drain of operations.

* `disk`: three requests are one being served, one queued before and one queued
  behind it; three semaphores let an entry be destroyed and made again while the
  handler still raises it.  One block suffices for atomicity, as requests for
  different blocks share nothing but the queue.
* `tty`: calls of up to three characters do not fit into the buffer of two, and
  two typed before an interrupt overrun it.  Four numbers tell apart what buffer
  and device can hold together.
* `tfs`: four blocks besides the system's hold two files of one block or one of
  two, so that space runs out and the blocks of a removed file become inode or
  data of the next; two handles are those of a removed file and of one in its
  place.  Sizes of 1 and 3 bytes end inside a block, 2 and those of the tool at one.
  The forged inodes name the directory, the allocation block and blocks of files, or
  one past the end of the disk; the forged allocation blocks mark nothing or
  everything, the forged directory has no entry.  Eight blocks take longer than
  the five minutes that a run is meant to need.
* `pop`: the queue fills, frames age (`MinAge` = 1 of `MaxTime` = 1 ticks) and are
  replaced.  `MaxFrames` frames arrive or are sent; as a full queue with one more
  frame would need longer behaviours, half of the behaviours begin in `PopLater`,
  a state with a full queue that is reached from boot when two frames arrive for
  an open socket.
* `services`: two kernel semaphores for three entries run out; eleven pages
  are fewer than two processes can ask for, and address space identifiers are used
  again; sixteen words hold four small blocks, which can be freed in every
  order; seven nodes are three full levels; up to four devices in tables for
  three; the kernel ends inside a page and at its end.

**Symmetry.**  CPUs are interchangeable in the kernel, processes, drivers and names
in the VFS, file names in TFS; symmetry is used only in runs without liveness
properties.

**Deadlock** is checked in the kernel runs, `vfs`, `disk`, `tty` and `tfs`.  It is
not in `vfs_shared`, where after a leak `vfs_deinit` waits for ever (section 7);
nor in `process`, where joining a slot that was lost to a full thread table hangs;
nor in `pop`, which ends with a panic, the race, or when the bounds on frames and
time are reached; nor in `services`, where semaphore users may all sleep and boot
comes to an end.

**Fairness.**  `MCLiveness`: a thread inside an operation goes on whenever it has
the CPU again and again (strong, since it is preempted), handlers run to their
end (weak), the timer interrupt stays pending until it is served (strong).  The
spinlocks are not fair, so the number of operations is bounded (`MaxOps`) and
nothing is claimed for a context that spins against an endless succession of
holders.  `Vfs`: strong fairness of the steps inside an operation; the kernel's
semaphores are first-come first-served, which `kernel_smp` shows.
`Process`: weak fairness of threads inside a system call, from `ReadyRuns`.
`Disk`: weak fairness of callers inside a request, of the device and of handlers.
`Tty`: weak fairness of the device and of handlers, none of threads.  A handler
that reads while someone types holds the lock, so both properties are for
behaviours in which typing ends.  `Pop`: one weak fairness condition for all
threads inside the kernel together; it says that someone moves, which is less
than the scheduler grants.  No fairness is assumed of programs: they need not
start anything.

## 5. Proofs

The theorems hold for every value of the constants that satisfies the named
ASSUMEs of the modules; these say that tables have natural sizes and that the
different kinds of model values (nobody, no file, no semaphore...) are distinct.
Every invariant below is inductive as the module states it, `ReadsBack`, `MallocInv` and
`IsHeap` excepted; the parts that are there only for that are named with the reason for
them.  The runs of section 4 check the same formulas.

### Threads, scheduler, sleep queue, semaphores (`KernelProofs`)
For any number of threads (more than one entry), CPUs, semaphores, slots and buckets,
and every hash function: `KernelInvariant`, and from it `TypeCorrect`,
`ReadyListCorrect`, `CurrentCorrect`, `SleepQueueCorrect`, `SleepStateCorrect`,
`FinishCorrect` (the panic at the end of `thread_finish` is unreachable),
`SemaphoreCountCorrect` and `JoinWakeupCorrect`.

* `TableInv`.  `ReadyListOK` and `SleepQueueOK` are not inductive alone.  A thread can
  be appended to the ready list only if it is in no chain, which depends on where
  its waker is: hence `WakingOK` (who unlinks a thread holds `sleepq_slock` until the
  thread is ready), `AppendOK` (a thread between the two halves of `sleepq_add` is
  linked to nothing), `SleepLabelsOK` and `InterruptsOffOK` (where a thread may be
  while it sleeps on something), `CreateOK` (an entry being created has one
  creator), `LifeOK` (which states go with which labels), `ArgumentsOK` and
  `LabelsOK`.  One lemma per action; `LabelStep` and `LockStep` cover those that change
  only a label and a lock, and `Disjoint` states that the ready list and the chains
  share no thread.
* `WaitInv`.  The value of a semaphore counts its sleepers only while nobody is inside
  its section.  `LocksOK` says that a lock is held by exactly the context whose label
  is in the section; `CountsOK` then gives the count at every label of the holder,
  which is one short in P and one too many in V (`Pending`); `WokenOK` says that the
  thread taken out by `sleepq_wake` slept on what is being woken; `JoinersOK` that
  nobody is about to sleep on a zombie.  The hard case is a wake that finds nobody:
  it must have met all sleepers of its resource, which `NobodyLeft` derives from the
  minimality clause of `IsList`.
* The lemmas about lists prove what appending, removing the first and removing from the
  middle do to `IsList`, `IsQueue` and the order of the nodes, all from the minimality
  clause, without induction.
* `SemaphoreRefinement`, the whole of the refinement of `CountingSemaphore`.  The lemma of
  each action says, besides that it keeps `TableInv`, what it does to the chains:
  nothing (`ChainsKept`), a thread becomes the last of one (`Joins`, in `sleepq_add`), or
  one leaves and the others keep their order (`Leaves`, in `sleepq_wake`).  From that
  follows what happens to the queue: `JoinsWaiting` appends to it, `LeavesWaiting` takes
  its head, because the thread that `sleepq_wake` finds is the first of those that sleep
  on the semaphore (`FirstInLine`: the threads not after another sleeper are closed
  under the traversal, which stops at the first sleeper it meets).  `CountsOK` then says
  that P sleeps only when there is no unit, and that V gives a unit back to the
  semaphore only when nobody waits.

### Disk driver (`DriverProofs`)
For any number of callers, CPUs, blocks and semaphores: `DiskInvariant`,
`NotReentered` and `DiskRefinesAtomicDisk`, the whole of the refinement.
`DiskServedOnce` needs to know whose the semaphores are (`DiskSemaphoresOwned`), that
one handler is past the lock (`DiskLockOK`), and that a request starts afresh and has
its result when its caller goes on (`DiskResultsOK`).  In the refinement, the transfer
by the device is the atomic access; queueing, waiting and the handler are stutters.

### Terminal (`DriverProofs`)
For buffers of every size: `BuffersInvariant` and `NobodyForgottenInvariant`, proved
together, since the first is needed to see that a count is zero.  Indices run at
most twice past the end of the buffer, so the modulus is removed once (`Wrapped`) and
the rest is linear.  `WritersHaveLeft` is the part about the locals of `tty_write`.

### Virtual filesystem (`VfsProofs`)
For any number of processes, open files, mount rows, drivers and names:
`OpsCountInvariant` and `ForcedUnmountInvariant` without condition, and
`OpenFilesInvariant` and `DriversInvariant` when processes do not share open files
(`~ForkShares`).  With sharing the last two are false (section 7), and the run `vfs`
makes the same restriction.  The counter is compared with a set of threads, so
its steps are those of a cardinality (`CountKept`, `ActiveAfter`).  `OpenFilesOK` needs
who has which entry in hand between two steps (`InHandOK`, `WorksOnOwn`, `FilesApart`).
`DriversOK` needs the holders of the semaphores (`SemaphoresHeld`), the driver that
is initialised but not yet in the table (`InitialisedUnused`, `InitialisedApart`)
and the driver that an operation goes on to call (`DriverInHand`).

### Processes (`ProcessProofs`)
For every size of both tables and of the pools: `ProcessInvariant` and
`FamilyInvariant`.  `OneThreadPerProcess` counts threads; it is used through `RolesOK`,
which says the same of one thread and one process at a time, and the two forms are
shown equivalent (`RolesOfThreads`, `ThreadsOfRoles`).  `FamilyOK` needs `MadeOnce`: between
`alloc_process_id` and the return of `spawn` or `fork` the new pid has been told to
nobody, so that a pid that is used again has no old parent.

### Boot and user semaphores (`ServicesProofs`)
`KernelMemoryInvariant` and `DevicesInvariant`, for every machine, memory size and
amount that drivers allocate.  `KmallocOK` ties `free_area_start` to the areas handed
out; `TablesFilled` says that the table of handlers is never longer than the one of
devices, which is why `interrupt_register` cannot run out of it.

`UsrSemInvariant`, for all sizes of both tables and any number of threads: until the
race that `usr_sem.c` itself warns of is lost, or a call is made on an entry that has
no semaphore of its own, an entry has the kernel semaphore that was created for it, no
two share one, and the value counts the sleepers; names are unique without condition.
`CallOK` is what a call still knows of its entry after it has tested it: the entry is
not `Halfway`, in use and still to get its semaphore or to be freed.  The search of
`semaphore_create` takes the least number of steps to a free entry; that it exists
is `MinIsLeast`, from the well-foundedness of the natural numbers.

### The allocator of programs (`ServicesProofs`)
`MallocInvariant`, for every limit of the heap and every set of requests.  The argument
looks at the heap as a set of blocks that hold every word below its end once
(`Divided`).  A call either adds a block at the end (`Grown`) or replaces blocks by others
that hold the same words, each once (`Replaced`): a free block by its rest and the new
block, or the freed block and the neighbours it touches by one.  `HeapOK` joins this with
the order of the free list, from which follows that `free` finds the two neighbours where
it looks for them (`PlaceSplits`) and that nothing else touches the result.

### The heap assignment (`ServicesProofs`)
`HeapInvariant`, for every bound on the nodes and every set of integers as values.  `IsHeap`
speaks of the tree between insertions; `HeapInv` says what holds after every turn of the
loops: there is a function `at` from places to nodes, with the children of place p at
2p and 2p + 1, such that the nodes are those of the first places, each once (`NodesPlaced`),
the links lead to them (`NodesLinked`), and none is greater than its parent
(`NodesOrdered`).  One node may be out of the tree (`Out`): the new one until it is linked,
then the outsider, whose children count as those of the edge until it is placed
(`Holder`).  `WalkOK` and `MergeOK` tie `mask` to where the loops are: the place is the
number of the new node divided by the mask, and the node there is `current` or `edge`.

A turn of the merge puts the outsider at the next place and takes out the node that
had it, so `at` changes at one place (`OutsiderPlaced`); the bit of the path that is read is
the one that tells on which side that place is (`NextPlace`).  A mask above 1 is even and
its half is a mask again (`ShiftedMask`), so that no turn runs out of bits before the free
place.  That `TopBit` and `NodeAt` are the functions their equations describe is proved with
the least argument at which it would fail (`TopBitEquation`, `NodeAtIs`), in place of
induction.

### Network (`PopProofs`)
For any number of pages, sockets, slots, ports, threads and interfaces: `PopInvariant`,
`DeliveredInvariant` and `ReturnsOnlyWithPacket`, with any number of threads in
`socket_recvfrom` of one socket.  `NoLostSignal` holds always; the rest until the
race for a frame that is being discarded.  A second receiver is the hard case: a
signal may be taken by the wrong call, and a packet copied for one that has gone.
`CallersCounted` survives that, since every buffer posted comes to one packet and every
packet to one signal, and it bounds the disorder: when nobody is in the socket, no
buffer, packet or signal is left over, so that the next receiver begins afresh.
`ReturnsWithPacket` is about receivers with no other call in the socket since it was
last unused; the comment at `net/pop.c:204-208` takes it for granted of all (section 7).
`PagesOwnedOnce` cannot be seen alone: which
page a thread holds depends on where it is (`FramesOK`), and the service thread frees and
copies what it noted while it held the locks (`ServiceOK`: nobody replaces a busy frame).
`ReceiversOK` follows a receiver from its buffer being posted over its packet to its
signal; it gives `ReturnsWithPacket`.  `DeliveredToPort` needs what the queue holds
(`QueuedForPort`).  With as many pages as can be held at one time (`EnoughPages`) the
panic of `network_receive_thread` is unreachable: the pages in use are the images of
slots, interfaces and one sender, and are counted.

### Memory (`MemoryProofs`)
For any number of pages, processes and programs: `MemoryInvariant`, `HeapTheorem` and
`TlbTheorem`.  The three properties are inductive only together: the pages `vm_map`
gets must not be in another table (`FramesOwnedOnce`) nor mapped before (`HeapsApart`),
and an entry of the buffer can be compared only with the table of a process that lives
(`EntriesOwned`).  `TlbTheorem` has a part without condition, `OwnOrGone`: also under an
identifier that is used again an entry gives a page of its process or one that a
finished process kept.  It holds because `process_finish` frees no page (`gone`), and
would be false of a kernel that freed them and left the buffer alone.
Loading and growing map one page after the other, so the lemmas say what a
number of pages taken from the pool does to pool and table at once (`Rank`: the k-th
page taken is the k-th smallest that is free).

### Trivial filesystem (`TfsProofs`)
For every size of volume, block, directory and file: `VolumeInvariant` and
`ReadsBackInvariant`, until someone writes through the handle of a removed file.
`VolumeOK` is inductive as it stands: it says itself that the block of every entry is
an inode and in no file's data (`HasInode`, `FilesDisjoint`), from which follows that a
write through the handle of a file that exists stays inside that file's blocks
(`BlocksWritten`), although `tfs_write` tests nothing of the kind; all other writes are
stale (`StaleWrite`).  On a volume that no
operation stopped on it is `Clean`, and an operation finishes with a `Clean` volume or stops
in one of the states that `StoppedBeforeEntry`, `StoppedBeforeInode` and
`StoppedBeforeMarks` describe, one lemma each.  `BlocksInUse` is
counted to see that `tfs_getfree` is exact.

`ReadsBack` speaks of what operators compute from blocks; it is proved from `FilesKnown`,
which says of each position of a file which byte its block holds (`Holds`), that the
blocks of a file are distinct, and that a name without an entry has no contents.  The
write of a part of a file is then the statement that the bytes in the range are those
of the buffer and all others, in the same blocks or in others, are as before.

### Model-checked only
* Liveness: `DyingFreed`, `JoinerWoken`, `HandlerReturns`, `ReadyRuns`, `ShutdownCompletes`,
  `OperationsReturn`, `ForkReturns`, `DiskRequestsReturn`, `TtyProgress`, `PacketsReachReceivers`;
  fairness and ENABLED are outside the prover.

## 6. What is not modelled

* Register contexts, stacks, the load-linked loop of the spinlock and memory
  ordering: spinlocks are taken to exclude.
* Overflow of 32-bit numbers: no counter of the kernel reaches it with the sizes
  of its tables; the sums in `kmalloc` and `malloc` can wrap for requests near
  2^32, which no caller makes.
* System call dispatch (`proc/syscall.c`) and user exceptions: no state of their
  own.  The ELF loader: a file format; its segments are the constant `Programs`.
* Formatting and string functions (`lib/`), path parsing, the polling terminal
  and the ports of clock, timer and shutdown device: single loads and stores.
* In `network.c` the search for an interface by address and the sizes of frames; the
  stream protocol, which has no code.  In `tfstool.c` listing and the command line.
* The words of a bitmap: bitmaps are sets, and their size enters only in `Boot`.
* What blocks of `malloc` and pages of processes hold.
* Behaviour after a race that the model reports (`raced` in `Pop`, `broken` in
  `UsrSem`) and after a panic.  A write through the handle of a removed file is
  modelled with all that it may overwrite, as far as the `Forged` bounds go; the
  operations after it are not.

## 7. Findings

* `kernel_exit`: "Stop the current process and the thread it runs in"
  (`proc/process.c:396`).  While another CPU is inside `interrupt_handle`,
  `thread_finish` does not raise its interrupt and returns; the program goes on
  without a page table until the timer.

### Observations
Seen while modelling.  The properties of the runs state what holds in spite of
them, or up to them, through the history variables named here.

Filesystem and handles:

* Operations that find their file closed return `VFS_NOT_OPEN` without
  `vfs_end_op` (`fs/vfs.c:626` and likewise in seek, tell, read and write), although
  `vfs_ops` "indicates the number of active filesystem operations on any given
  moment" (`doc/roadmap/roadmap.tex:4458`); shutdown then waits for ever.  A program
  gets there with handle 2, which `io.c` maps to file -1 and
  `process_has_open_file` takes for an unused entry (`leaked`).
* A read that was under way when another process closed the shared file moves
  the position of the file opened next in that entry (`fs/vfs.c:755`; `touched`
  and the run without sharing).
* `vfs_unmount` looks at open files only (`fs/vfs.c:486`): a read of a file that
  another process has closed may still be inside the driver, against "The
  semaphore should be free at this point" (`fs/tfs.c:188`).
* `vfs_mount` compares the names of all rows, and `vfs_unmount` clears only the
  filesystem: it cannot be mounted again under its old name (`fs/vfs.c:434`, `496`).
* `tfs_create` that stops after its first write leaves blocks marked that nobody
  uses (`orphans`); after its second, an entry whose inode was never written.  A
  removal that stops half way leaves an entry whose blocks are free; so does the
  tool, which writes the allocation block last (`util/tfstool.c:311`).
* A handle stays valid after its file was removed.  `tfs_write` reads its block as
  an inode without a test (`fs/tfs.c:658-672`): if another file's inode is there it
  writes into that file, if it is data it takes numbers in it for blocks, which may be
  inodes of other files, the allocation block or the directory (`damage` "stale").

Processes and memory:

* `process_fork` does not test the result of `semaphore_create` and never
  destroys `sem_wait` (`proc/process.c:377`): `Process` stops with "no semaphore".
* `process_start` never closes the executable (`proc/process.c:104`): `Process`
  stops with "no file".
* When `thread_create` fails, `process_spawn` and `process_fork` leave the slot
  RUNNING (`proc/process.c:254`, `386`): the set `lost`.
* The parent's thread is looked up by pid whatever its state
  (`kernel/thread.c:281`), and a dead thread keeps its pid: after reuse of the pid
  the child may find it and have no page table to copy: "no page table".
* `process_finish` frees the page table but not the pages it maps
  (`proc/process.c:416`; the set `gone`).
* A `process_memlimit` that fails half way keeps its pages mapped and `heap_end`
  where it was; the next call panics in `vm_map` (`partial`).
* `heap_end` starts after the segment's size in the file; a program whose
  uninitialized data reaches into further pages panics when its heap grows.
* The entry of a page pair is written to a random place when its second page,
  mapped later, is used; the old entry with one page may still be there, and two
  entries match (`DuplicatesExplained`).
* `process_start` writes the read-only segment and then protects it in the page
  table (`proc/process.c:175-178`); the entries through which it wrote stay in the buffer, and
  the program can write through them (`FirstUseTranslates`).
* Entries of a finished process stay in the buffer under an identifier that is
  used again (`veteran`): the next process can find a page of the former one at an
  address of its own.  As the pages are never freed, nobody else has them
  (`OwnOrGone`).
* An access to an unmapped page of a program panics the kernel (`vm/tlb.c`).
* `realloc` copies as many bytes as the new size, also when the block grows
  (`tests/lib.c:864`), reading past the old block.

Semaphores, terminal, network:

* `usr_sem_open` does not test `semaphore_create` (`proc/usr_sem.c:74`): the entry
  is used with a null pointer ("null").  It marks the entry as used two lines before
  that, and a call with an older handle of the same entry finds the semaphore that
  was there before, or none ("race", "null").  Names that are cut when they are
  stored are not found again.
* The test `read_count > TTY_BUF_SIZE` (`drivers/tty.c:170`) lets a full buffer take
  one character more, which overwrites the oldest and is then counted twice.
* A frame that was queued for a socket is given to the socket's next user when it
  is closed and opened for another port (`reused`).
* A frame that the service thread is discarding without the lock may be replaced
  in the queue at the same time and be freed twice (`raced`).
* "there can be only one active recvfrom at a time" (`net/pop.c:207`) does not hold:
  the test at 185-192 lets a second call in as soon as the service thread has cleared
  `rbuf` (464).  The signal for the first call may then end the second, which returns
  a length that nobody has stored; its buffer is still in the socket; and a service
  thread that clears the places for the results late (466-468) takes out those of the
  second call and uses null pointers for the next packet (`crowded`).

## 8. Running

`tlc -workers 2 -config X.cfg M` for each run of `PROJECT.json`, and `tlapm M.tla` for
`KernelProofs`, `DriverProofs`, `VfsProofs`, `ProcessProofs`, `ServicesProofs`, `PopProofs`,
`MemoryProofs` and `TfsProofs`.
