--------------------------------- MODULE Boot ---------------------------------
(***************************************************************************)
(* The kernel from its first instruction to the page pool (init/main.c):    *)
(* permanent memory (kernel/kmalloc.c), the boot arguments, interrupt       *)
(* stacks and handlers (kernel/interrupt.c), the devices that are found     *)
(* (drivers/device.c, drivers/metadev.c and the init functions of the       *)
(* drivers), and the pages that vm_init leaves to everybody else.           *)
(*                                                                          *)
(* Only one CPU runs.  Addresses count bytes from 0x80000000.  The sizes of *)
(* what drivers allocate are parameters; the order of what they do is not.  *)
(***************************************************************************)
EXTENDS Integers, Sequences, FiniteSets, Functions

CONSTANTS
    Machines,        \* what the descriptor area may hold: sequences of device types
    MemoryPages,     \* pages that device MemInfo reports
    BytesInPage,     \* PAGE_SIZE
    KernelEnds,      \* where KERNEL_ENDS_HERE may be
    ArgLengths,      \* lengths of the boot arguments
    StructSizes,     \* bytes of each structure a driver allocates, by type of device
    LockSize,        \* sizeof(spinlock_t)
    MaxDevices,      \* CONFIG_MAX_DEVICES
    MaxCpus          \* CONFIG_MAX_CPUS

VARIABLES
    machine,             \* the descriptors
    kernel_end,          \* where the kernel image ends
    free_area_start,
    asked,               \* requests to kmalloc that the present init function has still to make
    areas,               \* history: what kmalloc gave out
    slot,                \* the descriptor that device_init looks at
    device_table,        \* descriptors that have a driver
    interrupt_handlers,  \* descriptors whose driver has registered a handler
    static_end,          \* pagepool_static_end
    boot                 \* how far init has come, or why it stopped

bootVars == <<machine, kernel_end, free_area_start, asked, areas, slot, device_table,
              interrupt_handlers, static_end, boot>>

Disabled == -1           \* free_area_start after kmalloc_disable
Once == {"rtc", "meminfo", "shutdown"}

ASSUME BootAssumption ==
    /\ MemoryPages \in Nat \ {0} /\ BytesInPage \in Nat \ {0} /\ BytesInPage % 4 = 0
    /\ KernelEnds \subseteq 1 .. (MemoryPages * BytesInPage) /\ ArgLengths \subseteq Nat
    /\ MaxDevices \in Nat \ {0} /\ MaxCpus \in Nat \ {0} /\ LockSize \in Nat
    /\ Machines \subseteq Seq(STRING)
    /\ {"tty", "disk", "cpu"} \subseteq DOMAIN StructSizes
    /\ \A type \in DOMAIN StructSizes : StructSizes[type] \in Seq(Nat)

BootInit ==
    /\ machine \in Machines /\ kernel_end \in KernelEnds
    /\ free_area_start = 0 /\ asked = <<>> /\ areas = <<>>
    /\ slot = 1 /\ device_table = <<>> /\ interrupt_handlers = <<>>
    /\ static_end = 0 /\ boot = "start"
-----------------------------------------------------------------------------
(* kmalloc.c *)

Aligned(addr) == IF addr % 4 = 0 THEN addr ELSE addr + 4 - (addr % 4)

memory_end == MemoryPages * BytesInPage

kmalloc_init ==
    /\ boot = "start"
    /\ free_area_start' = Aligned(kernel_end)
    /\ boot' = "bootargs"
    /\ UNCHANGED <<machine, kernel_end, asked, areas, slot, device_table, interrupt_handlers, static_end>>

(* The next of the requests of an init function; the kernel panics if the   *)
(* memory is not there.                                                     *)
kmalloc ==
    /\ asked # <<>>
    /\ boot # "panic"
    /\ IF free_area_start + Head(asked) > memory_end
       THEN boot' = "panic" /\ UNCHANGED <<free_area_start, asked, areas>>
       ELSE /\ areas' = Append(areas, [start |-> free_area_start, size |-> Head(asked)])
            /\ free_area_start' = Aligned(free_area_start + Head(asked))
            /\ asked' = Tail(asked)
            /\ UNCHANGED boot
    /\ UNCHANGED <<machine, kernel_end, slot, device_table, interrupt_handlers, static_end>>

(* As if a page that kmalloc has begun were free. *)
kmalloc_get_reserved_pages_down == free_area_start \div BytesInPage

kmalloc_get_reserved_pages ==
    free_area_start \div BytesInPage + (IF free_area_start % BytesInPage # 0 THEN 1 ELSE 0)
-----------------------------------------------------------------------------
(* What init does between kmalloc_init and vm_init and needs memory for. *)

bootargs_init ==
    /\ boot = "bootargs"
    /\ \E l \in ArgLengths : asked' = <<l + 1>>
    /\ boot' = "interrupts"
    /\ UNCHANGED <<machine, kernel_end, free_area_start, areas, slot, device_table,
                   interrupt_handlers, static_end>>

cpustatus_count == Cardinality({i \in DOMAIN machine : machine[i] = "cpu"})

(* A stack for each CPU; init and interrupt_init check their number. *)
interrupt_init ==
    /\ boot = "interrupts" /\ asked = <<>>
    /\ IF cpustatus_count \in 1 .. MaxCpus
       THEN boot' = "devices" /\ asked' = [c \in 1 .. cpustatus_count |-> BytesInPage]
       ELSE boot' = "panic" /\ UNCHANGED asked
    /\ UNCHANGED <<machine, kernel_end, free_area_start, areas, slot, device_table,
                   interrupt_handlers, static_end>>

find_driver(type) == type \in DOMAIN StructSizes

Earlier(type) == \E i \in DOMAIN device_table : machine[device_table[i]] = type

(* What the init function of a driver asks for: terminals after the first   *)
(* need a lock of their own.                                                *)
Structures(type) ==
    StructSizes[type] \o (IF type = "tty" /\ Earlier("tty") THEN <<LockSize>> ELSE <<>>)

(* interrupt_register: drivers of devices that interrupt have a handler. *)
interrupt_register ==
    interrupt_handlers' = IF machine[slot] \in {"tty", "disk", "cpu"}
                          THEN Append(interrupt_handlers, slot) ELSE interrupt_handlers

(* As if one device more fitted. *)
DevicesFull_late == Len(device_table) > MaxDevices

DevicesFull == Len(device_table) >= MaxDevices

(* The loop of device_init for a descriptor that has a driver.  A second    *)
(* device of a kind that exists once is a panic, and so is a handler for    *)
(* which the table has no room.                                             *)
device_init_driver ==
    /\ boot = "devices" /\ asked = <<>>
    /\ slot <= Len(machine) /\ ~DevicesFull
    /\ find_driver(machine[slot])
    /\ asked' = Structures(machine[slot])
    /\ device_table' = Append(device_table, slot)
    /\ interrupt_register
    /\ slot' = slot + 1
    /\ boot' = IF machine[slot] \in Once /\ Earlier(machine[slot]) THEN "panic"
               ELSE IF Len(interrupt_handlers') > MaxDevices THEN "handlers" ELSE boot
    /\ UNCHANGED <<machine, kernel_end, free_area_start, areas, static_end>>

(* For one that has none. *)
device_init_unknown ==
    /\ boot = "devices" /\ asked = <<>>
    /\ slot <= Len(machine) /\ ~DevicesFull
    /\ ~find_driver(machine[slot])
    /\ slot' = slot + 1
    /\ UNCHANGED <<machine, kernel_end, free_area_start, asked, areas, device_table,
                   interrupt_handlers, static_end, boot>>

(* The bytes of a bitmap are those of whole words. *)
bitmap_sizeof(bits) == ((bits + 31) \div 32) * 4

(* After the devices pagepool_init asks for its bitmap ...                   *)
pagepool_init ==
    /\ boot = "devices" /\ asked = <<>>
    /\ slot > Len(machine) \/ DevicesFull
    /\ asked' = <<bitmap_sizeof(MemoryPages)>>
    /\ boot' = "vm"
    /\ UNCHANGED <<machine, kernel_end, free_area_start, areas, slot, device_table,
                   interrupt_handlers, static_end>>

(* ... and then counts the pages of the kernel; the others are free from    *)
(* now on, and kmalloc is disabled.                                         *)
vm_init ==
    /\ boot = "vm" /\ asked = <<>>
    /\ static_end' = kmalloc_get_reserved_pages
    /\ free_area_start' = Disabled
    /\ boot' = "up"
    /\ UNCHANGED <<machine, kernel_end, asked, areas, slot, device_table, interrupt_handlers>>

BootNext ==
    \/ kmalloc_init \/ kmalloc \/ bootargs_init \/ interrupt_init
    \/ device_init_driver \/ device_init_unknown \/ pagepool_init \/ vm_init

BootSpec == BootInit /\ [][BootNext]_bootVars
-----------------------------------------------------------------------------
End(area) == area.start + area.size

(* The variables have their types. *)
BootTypeOK ==
    /\ machine \in Seq(STRING) /\ kernel_end \in 1 .. memory_end
    /\ free_area_start \in Int /\ static_end \in Int
    /\ asked \in Seq(Nat) /\ areas \in Seq([start : Nat, size : Nat])
    /\ slot \in Nat \ {0} /\ device_table \in Seq(Nat) /\ interrupt_handlers \in Seq(Nat)
    /\ boot \in {"start", "bootargs", "interrupts", "devices", "vm", "up", "panic", "handlers"}

(* Nobody asks kmalloc for memory before kmalloc_init or after              *)
(* kmalloc_disable, and in between free_area_start is aligned, behind the   *)
(* kernel and everything that was given out, and not behind the memory.     *)
KmallocOK ==
    /\ boot \in {"start", "bootargs", "up"} => asked = <<>>
    /\ boot = "start" => areas = <<>>
    /\ boot \notin {"start", "up"} =>
          /\ free_area_start % 4 = 0 /\ free_area_start \in kernel_end .. memory_end
          /\ \A i \in DOMAIN areas : End(areas[i]) <= free_area_start

(* kmalloc (kernel/kmalloc.c) and the page pool never give out the same     *)
(* memory: areas are aligned, apart from each other and behind the kernel,  *)
(* and the pages that pagepool_init leaves free hold none of them.          *)
AreasApart ==
    /\ \A i \in DOMAIN areas : /\ areas[i].start % 4 = 0
                               /\ areas[i].start >= kernel_end /\ End(areas[i]) <= memory_end
    /\ \A i, j \in DOMAIN areas : i < j => End(areas[i]) <= areas[j].start
    /\ boot = "up" => /\ static_end <= MemoryPages
                      /\ kernel_end <= static_end * BytesInPage
                      /\ \A i \in DOMAIN areas : End(areas[i]) <= static_end * BytesInPage

(* The memory of the kernel and that of everybody else are apart. *)
KernelMemoryApart == BootTypeOK /\ KmallocOK /\ AreasApart

(* Only devices that were looked at are in the tables, and every handler is *)
(* that of a device in the table.                                           *)
TablesFilled ==
    /\ Len(interrupt_handlers) <= Len(device_table) /\ Len(device_table) <= MaxDevices
    /\ \A i \in DOMAIN interrupt_handlers : interrupt_handlers[i] < slot

(* device_init and interrupt_register have tables of the same size: while   *)
(* a device finds room in one its handler finds room in the other, so the   *)
(* panic of interrupt_register is out of reach, and every device that was   *)
(* looked at, has a driver and interrupts has its handler, once.            *)
EveryDeviceHandled ==
    /\ TablesFilled
    /\ boot # "handlers"
    /\ IsInjective(interrupt_handlers)
    /\ \A i \in 1 .. (slot - 1) :
          machine[i] \in {"tty", "disk", "cpu"} =>
             i \in Range(interrupt_handlers) /\ i \in Range(device_table)
=============================================================================
