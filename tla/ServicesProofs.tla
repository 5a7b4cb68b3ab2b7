--------------------------- MODULE ServicesProofs ---------------------------
(***************************************************************************)
(* Proofs about four components that run by themselves: the boot of the     *)
(* kernel (module Boot), for every machine, memory size and size of what    *)
(* drivers allocate, the semaphores of processes (module UsrSem), for all   *)
(* sizes of both tables and any number of threads, the allocator of the     *)
(* userland library (module Malloc), for every size of the heap and every   *)
(* set of requests, and the heap of the heap assignment (module Heap), for  *)
(* every number of nodes and every set of values.                           *)
(***************************************************************************)
EXTENDS UsrSem, Boot, Malloc, Heap, FiniteSetTheorems, WellFoundedInduction, TLAPS

(* Rounding up to a word. *)
LEMMA AlignedUp ==
    ASSUME NEW addr \in Nat
    PROVE  /\ Aligned(addr) \in Nat /\ Aligned(addr) % 4 = 0 /\ Aligned(addr) >= addr
           /\ \A end \in Nat : end % 4 = 0 /\ addr <= end => Aligned(addr) <= end
BY DEF Aligned

(* The end of memory is a word address. *)
LEMMA MemoryEnd == memory_end \in Nat /\ memory_end % 4 = 0
<1>1. MemoryPages \in Nat /\ BytesInPage \in Nat /\ BytesInPage % 4 = 0
  BY BootAssumption
<1>2. PICK words \in Nat : BytesInPage = 4 * words
  BY <1>1
<1>3. MemoryPages * BytesInPage = 4 * (MemoryPages * words) /\ MemoryPages * words \in Nat
  BY <1>1, <1>2
<1>4. \A n \in Nat : 4 * n \in Nat /\ (4 * n) % 4 = 0
  OBVIOUS
<1> QED BY <1>3, <1>4 DEF memory_end

(* The pages that are counted hold every address below free_area_start. *)
LEMMA ReservedPages ==
    ASSUME NEW addr \in Nat, NEW pages \in Nat, NEW bytes \in Nat \ {0}, addr <= pages * bytes,
           NEW n, n = addr \div bytes + (IF addr % bytes # 0 THEN 1 ELSE 0)
    PROVE  n \in Int /\ n <= pages /\ addr <= n * bytes
<1>1. /\ addr \div bytes \in Nat /\ addr % bytes \in 0 .. (bytes - 1)
      /\ addr = bytes * (addr \div bytes) + (addr % bytes)
  <2>1. addr \div bytes \in Int
    OBVIOUS
  <2>2. addr % bytes \in 0 .. (bytes - 1)
    OBVIOUS
  <2>3. addr = bytes * (addr \div bytes) + (addr % bytes)
    OBVIOUS
  <2>4. addr \div bytes \in Nat
    OBVIOUS
  <2> QED BY <2>2, <2>3, <2>4
<1>2. PICK q \in Nat, r \in Nat : q = addr \div bytes /\ r = addr % bytes /\ r < bytes /\ addr = bytes * q + r
  BY <1>1
<1>3. q * bytes <= pages * bytes
  BY <1>2
<1>4. q <= pages
  BY <1>3
<1>5. CASE r = 0
  <2>1. n = q
    BY <1>2, <1>5
  <2>2. addr = q * bytes
    BY <1>2, <1>5
  <2>3. addr <= q * bytes
    BY <2>2
  <2> QED BY <1>4, <2>1, <2>3
<1>6. CASE r # 0
  <2>1. n = q + 1
    BY <1>2, <1>6
  <2>2. q # pages
    BY <1>2, <1>6
  <2> QED BY <1>2, <1>4, <2>1, <2>2
<1> QED BY <1>5, <1>6

(* Length, elements, head and tail of a sequence. *)
LEMMA Elements ==
    ASSUME NEW S, NEW s \in Seq(S)
    PROVE  /\ Len(s) \in Nat /\ DOMAIN s = 1 .. Len(s) /\ \A i \in DOMAIN s : s[i] \in S
           /\ s # <<>> => Head(s) \in S /\ Tail(s) \in Seq(S)
<1>1. Len(s) \in Nat
  OBVIOUS
<1>2. DOMAIN s = 1 .. Len(s)
  OBVIOUS
<1>3. \A i \in DOMAIN s : s[i] \in S
  OBVIOUS
<1>4. s # <<>> => Head(s) \in S /\ Tail(s) \in Seq(S)
  OBVIOUS
<1> QED BY <1>1, <1>2, <1>3, <1>4

(* Areas end at natural numbers. *)
LEMMA AreaEnds == KernelMemoryApart => \A i \in DOMAIN areas : End(areas[i]) \in Nat
<1> SUFFICES ASSUME KernelMemoryApart, NEW i \in DOMAIN areas PROVE End(areas[i]) \in Nat
  OBVIOUS
<1>1. areas \in Seq([start : Nat, size : Nat])
  BY DEF KernelMemoryApart, BootTypeOK
<1>2. areas[i] \in [start : Nat, size : Nat]
  BY <1>1, Elements
<1> QED BY <1>2 DEF End

----------------------------------------------------------------------------
(* Nothing is handed out and no device is probed at the beginning. *)
LEMMA BootInitial == BootInit => KernelMemoryApart /\ EveryDeviceHandled
<1> SUFFICES ASSUME BootInit PROVE KernelMemoryApart /\ EveryDeviceHandled
  OBVIOUS
<1>1. machine \in Seq(STRING) /\ kernel_end \in 1 .. memory_end
  BY BootAssumption DEF BootInit, memory_end
<1>2. /\ free_area_start = 0 /\ asked = <<>> /\ areas = <<>> /\ slot = 1 /\ device_table = <<>>
      /\ interrupt_handlers = <<>> /\ static_end = 0 /\ boot = "start"
  BY DEF BootInit
<1>3. BootTypeOK
  BY <1>1, <1>2 DEF BootTypeOK
<1>4. KmallocOK /\ AreasApart
  BY <1>2 DEF KmallocOK, AreasApart
<1>5. EveryDeviceHandled
  BY <1>2, BootAssumption DEF EveryDeviceHandled, TablesFilled, IsInjective
<1> QED BY <1>3, <1>4, <1>5 DEF KernelMemoryApart

(* Actions that leave the devices alone. *)
LEMMA DevicesUntouched ==
    ASSUME EveryDeviceHandled, UNCHANGED <<machine, slot, device_table, interrupt_handlers>>,
           boot' # "handlers"
    PROVE  EveryDeviceHandled'
BY DEF EveryDeviceHandled, TablesFilled

(* Actions that leave the memory alone: an init function asks for some. *)
LEMMA MemoryUntouched ==
    ASSUME KernelMemoryApart, UNCHANGED <<machine, kernel_end, free_area_start, areas, static_end>>,
           boot \notin {"start", "up"}, boot' \in {"interrupts", "devices", "vm", "panic", "handlers"},
           asked' \in Seq(Nat), slot' \in Nat \ {0}, device_table' \in Seq(Nat),
           interrupt_handlers' \in Seq(Nat)
    PROVE  KernelMemoryApart'
<1>1. BootTypeOK'
  BY DEF KernelMemoryApart, BootTypeOK, memory_end
<1>2. KmallocOK'
  BY DEF KernelMemoryApart, KmallocOK, memory_end
<1>3. AreasApart'
  BY DEF KernelMemoryApart, AreasApart, memory_end
<1> QED BY <1>1, <1>2, <1>3 DEF KernelMemoryApart

(* kmalloc_init starts behind the kernel. *)
LEMMA KmallocInitStep ==
    ASSUME KernelMemoryApart, kmalloc_init
    PROVE  KernelMemoryApart'
<1>1. /\ boot = "start" /\ free_area_start' = Aligned(kernel_end) /\ boot' = "bootargs"
      /\ UNCHANGED <<machine, kernel_end, asked, areas, slot, device_table, interrupt_handlers, static_end>>
  BY DEF kmalloc_init
<1>2. areas = <<>> /\ asked = <<>>
  BY <1>1 DEF KernelMemoryApart, KmallocOK
<1>3. kernel_end \in Nat /\ kernel_end <= memory_end
  BY MemoryEnd DEF KernelMemoryApart, BootTypeOK
<1>4. free_area_start' \in Nat /\ free_area_start' % 4 = 0 /\ free_area_start' \in kernel_end .. memory_end
  BY <1>1, <1>3, AlignedUp, MemoryEnd
<1>5. BootTypeOK'
  BY <1>1, <1>4 DEF KernelMemoryApart, BootTypeOK, memory_end
<1>6. KmallocOK' /\ AreasApart'
  BY <1>1, <1>2, <1>4 DEF KmallocOK, AreasApart, memory_end
<1> QED BY <1>5, <1>6 DEF KernelMemoryApart

(* kmalloc hands out words behind all earlier areas, or panics. *)
LEMMA KmallocStep ==
    ASSUME KernelMemoryApart, kmalloc
    PROVE  KernelMemoryApart'
<1>1. /\ asked # <<>> /\ boot # "panic"
      /\ UNCHANGED <<machine, kernel_end, slot, device_table, interrupt_handlers, static_end>>
  BY DEF kmalloc
<1>2. boot \notin {"start", "bootargs", "up"}
  BY <1>1 DEF KernelMemoryApart, KmallocOK
<1>3. /\ free_area_start \in Nat /\ free_area_start % 4 = 0 /\ free_area_start <= memory_end
      /\ free_area_start >= kernel_end /\ kernel_end \in Nat
      /\ Head(asked) \in Nat /\ Tail(asked) \in Seq(Nat)
  <2>1. asked \in Seq(Nat) /\ kernel_end \in 1 .. memory_end
    BY DEF KernelMemoryApart, BootTypeOK
  <2>2. Head(asked) \in Nat /\ Tail(asked) \in Seq(Nat)
    BY <1>1, <2>1, Elements
  <2>3. free_area_start % 4 = 0 /\ free_area_start \in kernel_end .. memory_end
    BY <1>2 DEF KernelMemoryApart, KmallocOK
  <2> QED BY <2>1, <2>2, <2>3, MemoryEnd
<1>4. CASE free_area_start + Head(asked) > memory_end
  <2>1. boot' = "panic" /\ UNCHANGED <<free_area_start, asked, areas>>
    BY <1>4 DEF kmalloc
  <2> QED BY <1>1, <1>2, <2>1, MemoryUntouched DEF KernelMemoryApart, BootTypeOK
<1>5. CASE ~(free_area_start + Head(asked) > memory_end)
  <2>1. PICK area \in [start : Nat, size : Nat] :
          area = [start |-> free_area_start, size |-> Head(asked)]
    BY <1>3
  <2>2. /\ areas' = Append(areas, area) /\ free_area_start' = Aligned(End(area))
        /\ asked' = Tail(asked) /\ boot' = boot
    BY <1>5, <2>1 DEF kmalloc, End
  <2>3. /\ area.start = free_area_start /\ End(area) \in Nat /\ End(area) <= memory_end
        /\ End(area) >= free_area_start
    BY <1>3, <1>5, <2>1, MemoryEnd, SMTT(20) DEF End
  <2>4. /\ free_area_start' \in Nat /\ free_area_start' % 4 = 0 /\ free_area_start' >= End(area)
        /\ free_area_start' <= memory_end
    BY <2>2, <2>3, AlignedUp, MemoryEnd
  <2>5. areas \in Seq([start : Nat, size : Nat]) /\ Len(areas) \in Nat
    BY DEF KernelMemoryApart, BootTypeOK
  <2>6. /\ areas' \in Seq([start : Nat, size : Nat])
        /\ DOMAIN areas' = 1 .. (Len(areas) + 1)
        /\ areas'[Len(areas) + 1] = area /\ \A i \in 1 .. Len(areas) : areas'[i] = areas[i]
    BY <2>2, <2>5
  <2>7. /\ DOMAIN areas = 1 .. Len(areas)
        /\ \A i \in DOMAIN areas' : i \in DOMAIN areas \/ i = Len(areas) + 1
        /\ \A i \in DOMAIN areas : areas'[i] = areas[i] /\ i < Len(areas) + 1
    <3>1. DOMAIN areas = 1 .. Len(areas)
      BY <2>5, Elements
    <3>2. \A i \in 1 .. (Len(areas) + 1) : i \in 1 .. Len(areas) \/ i = Len(areas) + 1
      BY <2>5
    <3>3. \A i \in 1 .. Len(areas) : i < Len(areas) + 1
      BY <2>5
    <3> QED BY <2>6, <3>1, <3>2, <3>3
  <2>8. BootTypeOK'
    BY <1>1, <1>3, <2>2, <2>4, <2>6 DEF KernelMemoryApart, BootTypeOK, memory_end
  <2>9. \A i \in DOMAIN areas : End(areas[i]) \in Nat
    BY AreaEnds
  <2>10. KmallocOK'
    <3>1. \A i \in DOMAIN areas : End(areas[i]) <= free_area_start
      BY <1>2 DEF KernelMemoryApart, KmallocOK
    <3>2. \A i \in DOMAIN areas' : End(areas'[i]) <= free_area_start'
      <4> SUFFICES ASSUME NEW i \in DOMAIN areas' PROVE End(areas'[i]) <= free_area_start'
        OBVIOUS
      <4>1. CASE i \in DOMAIN areas
        BY <1>3, <2>3, <2>4, <2>7, <2>9, <3>1, <4>1
      <4>2. CASE i = Len(areas) + 1
        BY <2>4, <2>6, <4>2
      <4> QED BY <2>7, <4>1, <4>2
    <3>3. boot' \notin {"start", "bootargs", "up"}
      BY <1>2, <2>2
    <3>4. free_area_start' \in kernel_end .. memory_end
      BY <1>3, <2>3, <2>4, MemoryEnd, SMTT(20)
    <3> QED BY <1>1, <2>4, <3>2, <3>3, <3>4 DEF KmallocOK, End, memory_end
  <2>11. AreasApart'
    <3>1. \A i \in DOMAIN areas : End(areas[i]) <= free_area_start
      BY <1>2 DEF KernelMemoryApart, KmallocOK
    <3>2. ASSUME NEW i \in DOMAIN areas'
          PROVE  areas'[i].start % 4 = 0 /\ areas'[i].start >= kernel_end /\ End(areas'[i]) <= memory_end
      <4>1. CASE i \in DOMAIN areas
        BY <2>7, <4>1 DEF KernelMemoryApart, AreasApart
      <4>2. CASE i = Len(areas) + 1
        BY <1>3, <2>3, <2>6, <4>2
      <4> QED BY <2>7, <4>1, <4>2
    <3>3. ASSUME NEW i \in DOMAIN areas', NEW j \in DOMAIN areas', i < j
          PROVE  End(areas'[i]) <= areas'[j].start
      <4>1. i \in DOMAIN areas
        BY <2>5, <2>6, <2>7, <3>3
      <4>2. CASE j \in DOMAIN areas
        BY <2>7, <3>3, <4>1, <4>2 DEF KernelMemoryApart, AreasApart
      <4>3. CASE j = Len(areas) + 1
        BY <2>3, <2>6, <2>7, <3>1, <4>1, <4>3
      <4> QED BY <2>7, <4>2, <4>3
    <3> QED BY <1>1, <1>2, <2>2, <3>2, <3>3 DEF AreasApart, End, memory_end
  <2> QED BY <2>8, <2>10, <2>11 DEF KernelMemoryApart
<1> QED BY <1>4, <1>5

(* vm_init keeps the pages that hold areas out of the pool. *)
LEMMA VmInitStep ==
    ASSUME KernelMemoryApart, vm_init
    PROVE  KernelMemoryApart'
<1>1. /\ boot = "vm" /\ asked = <<>> /\ free_area_start' = Disabled /\ boot' = "up"
      /\ static_end' = free_area_start \div BytesInPage
                         + (IF free_area_start % BytesInPage # 0 THEN 1 ELSE 0)
      /\ UNCHANGED <<machine, kernel_end, asked, areas, slot, device_table, interrupt_handlers>>
  BY DEF vm_init, kmalloc_get_reserved_pages
<1>2. /\ free_area_start \in Nat /\ free_area_start <= MemoryPages * BytesInPage
      /\ free_area_start >= kernel_end /\ kernel_end \in Nat
      /\ \A i \in DOMAIN areas : End(areas[i]) <= free_area_start
  BY <1>1, MemoryEnd DEF KernelMemoryApart, KmallocOK, BootTypeOK, memory_end
<1>3. MemoryPages \in Nat /\ BytesInPage \in Nat \ {0}
  BY BootAssumption
<1>4. PICK pages \in Int, unused \in Nat :
        /\ pages = static_end' /\ unused = free_area_start
        /\ pages <= MemoryPages /\ unused <= pages * BytesInPage
  <2>1. PICK n : n = static_end'
    OBVIOUS
  <2>a. PICK unused \in Nat : unused = free_area_start
    BY <1>2
  <2>2. n = unused \div BytesInPage + (IF unused % BytesInPage # 0 THEN 1 ELSE 0)
    BY <1>1, <2>1, <2>a
  <2>3. unused <= MemoryPages * BytesInPage
    BY <1>2, <2>a
  <2>4. n \in Int /\ n <= MemoryPages /\ unused <= n * BytesInPage
    BY <1>3, <2>2, <2>3, ReservedPages
  <2> QED BY <2>1, <2>a, <2>4
<1>5. BootTypeOK'
  BY <1>1, <1>4 DEF KernelMemoryApart, BootTypeOK, memory_end, Disabled
<1>6. KmallocOK'
  BY <1>1 DEF KmallocOK
<1>7. AreasApart'
  <2>1. pages * BytesInPage \in Int
    BY <1>3
  <2>2. kernel_end <= pages * BytesInPage
    BY <1>2, <1>4, <2>1
  <2>3. \A i \in DOMAIN areas : End(areas[i]) \in Int
    BY AreaEnds
  <2>4. \A i \in DOMAIN areas : End(areas[i]) <= pages * BytesInPage
    BY <1>2, <1>4, <2>1, <2>3
  <2> QED BY <1>1, <1>4, <2>2, <2>4 DEF KernelMemoryApart, AreasApart, End, memory_end
<1> QED BY <1>5, <1>6, <1>7 DEF KernelMemoryApart

(* What init functions ask for are sizes. *)
LEMMA AskingStep ==
    ASSUME KernelMemoryApart, bootargs_init \/ interrupt_init \/ pagepool_init
    PROVE  KernelMemoryApart'
<1>1. /\ UNCHANGED <<machine, kernel_end, free_area_start, areas, slot, device_table,
                     interrupt_handlers, static_end>>
      /\ boot \notin {"start", "up"} /\ boot' \in {"interrupts", "devices", "vm", "panic", "handlers"}
  BY DEF bootargs_init, interrupt_init, pagepool_init
<1>2. asked \in Seq(Nat) /\ slot \in Nat \ {0} /\ device_table \in Seq(Nat) /\ interrupt_handlers \in Seq(Nat)
  BY DEF KernelMemoryApart, BootTypeOK
<1>3. asked' \in Seq(Nat)
  <2>1. CASE bootargs_init
    <3>1. PICK l \in ArgLengths : asked' = <<l + 1>>
      BY <2>1 DEF bootargs_init
    <3>2. l + 1 \in Nat
      BY BootAssumption
    <3> QED BY <3>1, <3>2
  <2>2. CASE interrupt_init
    <3>1. CASE cpustatus_count \in 1 .. MaxCpus
      <4>1. PICK n \in Nat : n = cpustatus_count
        BY <3>1, BootAssumption
      <4>2. asked' = [c \in 1 .. n |-> BytesInPage]
        BY <2>2, <3>1, <4>1 DEF interrupt_init
      <4> QED BY <4>2, BootAssumption
    <3>2. CASE cpustatus_count \notin 1 .. MaxCpus
      BY <1>2, <2>2, <3>2 DEF interrupt_init
    <3> QED BY <3>1, <3>2
  <2>3. CASE pagepool_init
    <3>1. asked' = <<bitmap_sizeof(MemoryPages)>>
      BY <2>3 DEF pagepool_init
    <3>2. bitmap_sizeof(MemoryPages) \in Nat
      BY BootAssumption DEF bitmap_sizeof
    <3> QED BY <3>1, <3>2
  <2> QED BY <2>1, <2>2, <2>3
<1> QED BY <1>1, <1>2, <1>3, MemoryUntouched

(* Probing a device hands out no memory by itself. *)
LEMMA DriverMemoryStep ==
    ASSUME KernelMemoryApart, device_init_driver \/ device_init_unknown
    PROVE  KernelMemoryApart'
<1>1. /\ UNCHANGED <<machine, kernel_end, free_area_start, areas, static_end>>
      /\ boot = "devices" /\ slot' = slot + 1
  BY DEF device_init_driver, device_init_unknown
<1>2. boot' \in {"devices", "panic", "handlers"}
  BY <1>1 DEF device_init_driver, device_init_unknown
<1>3. asked \in Seq(Nat) /\ slot \in Nat \ {0} /\ device_table \in Seq(Nat) /\ interrupt_handlers \in Seq(Nat)
  BY DEF KernelMemoryApart, BootTypeOK
<1>4. asked' \in Seq(Nat)
  <2>1. CASE device_init_driver
    <3>1. PICK type : type = machine[slot]
      OBVIOUS
    <3>2. StructSizes[type] \in Seq(Nat) /\ LockSize \in Nat
      BY <2>1, <3>1, BootAssumption DEF device_init_driver, find_driver
    <3>3. PICK more \in Seq(Nat) : asked' = StructSizes[type] \o more
      <4>1. <<LockSize>> \in Seq(Nat) /\ <<>> \in Seq(Nat)
        BY <3>2
      <4>2. asked' = StructSizes[type] \o (IF type = "tty" /\ Earlier("tty") THEN <<LockSize>> ELSE <<>>)
        BY <2>1, <3>1 DEF device_init_driver, Structures
      <4> QED BY <4>1, <4>2
    <3> QED BY <3>2, <3>3
  <2>2. CASE device_init_unknown
    BY <1>3, <2>2 DEF device_init_unknown
  <2> QED BY <2>1, <2>2
<1>5. device_table' \in Seq(Nat) /\ interrupt_handlers' \in Seq(Nat)
  <2>1. Append(device_table, slot) \in Seq(Nat) /\ Append(interrupt_handlers, slot) \in Seq(Nat)
    BY <1>3
  <2>2. /\ device_table' \in {device_table, Append(device_table, slot)}
        /\ interrupt_handlers' \in {interrupt_handlers, Append(interrupt_handlers, slot)}
    BY DEF device_init_driver, device_init_unknown, interrupt_register
  <2> QED BY <1>3, <2>1, <2>2
<1>6. slot' \in Nat \ {0}
  BY <1>1, <1>3
<1> QED BY <1>1, <1>2, <1>4, <1>5, <1>6, MemoryUntouched

(* A device is put into a table. *)
LEMMA Registered ==
    ASSUME NEW s \in Seq(Nat), NEW i \in Nat
    PROVE  /\ Len(Append(s, i)) = Len(s) + 1
           /\ \A x : x \in Range(s) \/ x = i => x \in Range(Append(s, i))
           /\ DOMAIN Append(s, i) = DOMAIN s \cup {Len(s) + 1}
           /\ Append(s, i)[Len(s) + 1] = i /\ \A j \in DOMAIN s : Append(s, i)[j] = s[j]
<1>1. Len(s) \in Nat /\ DOMAIN s = 1 .. Len(s)
  BY Elements
<1>2. /\ Len(Append(s, i)) = Len(s) + 1
      /\ Append(s, i)[Len(s) + 1] = i /\ \A j \in 1 .. Len(s) : Append(s, i)[j] = s[j]
  BY <1>1
<1>3. Append(s, i) \in Seq(Nat)
  OBVIOUS
<1>4. DOMAIN Append(s, i) = 1 .. (Len(s) + 1)
  BY <1>2, <1>3, Elements
<1>5. 1 .. (Len(s) + 1) = (1 .. Len(s)) \cup {Len(s) + 1}
  BY <1>1
<1>6. \A x : x \in Range(s) \/ x = i => x \in Range(Append(s, i))
  BY <1>1, <1>2, <1>4, <1>5 DEF Range
<1> QED BY <1>1, <1>2, <1>4, <1>5, <1>6

(* The device of a known driver gets an entry, and its interrupt a handler. *)
LEMMA DriverDevicesStep ==
    ASSUME KernelMemoryApart, EveryDeviceHandled, device_init_driver
    PROVE  EveryDeviceHandled'
<1>0. slot \in Nat \ {0} /\ device_table \in Seq(Nat) /\ interrupt_handlers \in Seq(Nat)
  BY DEF KernelMemoryApart, BootTypeOK
<1>1. PICK i \in Nat \ {0} : i = slot
  BY <1>0
<1>2. /\ boot = "devices" /\ ~DevicesFull /\ device_table' = Append(device_table, i) /\ slot' = i + 1
      /\ interrupt_handlers' = IF machine[i] \in {"tty", "disk", "cpu"}
                               THEN Append(interrupt_handlers, i) ELSE interrupt_handlers
      /\ machine' = machine
      /\ boot' = "handlers" => Len(interrupt_handlers') > MaxDevices
  BY <1>1 DEF device_init_driver, interrupt_register
<1>3. /\ Len(interrupt_handlers) \in Nat /\ Len(device_table) \in Nat
      /\ Len(interrupt_handlers) <= Len(device_table) /\ Len(device_table) < MaxDevices
  BY <1>0, <1>2, BootAssumption, Elements DEF EveryDeviceHandled, TablesFilled, DevicesFull
<1>4. /\ Len(device_table') = Len(device_table) + 1
      /\ \A x : x \in Range(device_table) \/ x = i => x \in Range(device_table')
  BY <1>0, <1>2, Registered
<1>5. /\ \A j \in DOMAIN interrupt_handlers : interrupt_handlers[j] < i /\ interrupt_handlers[j] \in Nat
      /\ Len(interrupt_handlers) + 1 \notin DOMAIN interrupt_handlers
  BY <1>0, <1>1, Elements DEF EveryDeviceHandled, TablesFilled
<1>6. CASE machine[i] \in {"tty", "disk", "cpu"}
  <2>1. interrupt_handlers' = Append(interrupt_handlers, i)
    BY <1>2, <1>6
  <2>2. /\ Len(interrupt_handlers') = Len(interrupt_handlers) + 1
        /\ \A x : x \in Range(interrupt_handlers) \/ x = i => x \in Range(interrupt_handlers')
        /\ DOMAIN interrupt_handlers' = DOMAIN interrupt_handlers \cup {Len(interrupt_handlers) + 1}
        /\ interrupt_handlers'[Len(interrupt_handlers) + 1] = i
        /\ \A j \in DOMAIN interrupt_handlers : interrupt_handlers'[j] = interrupt_handlers[j]
    BY <1>0, <2>1, Registered
  <2>3. TablesFilled' /\ boot' # "handlers"
    BY <1>2, <1>3, <1>4, <1>5, <2>2, BootAssumption, SMTT(20) DEF TablesFilled
  <2>4. IsInjective(interrupt_handlers')
    <3>1. IsInjective(interrupt_handlers)
      BY DEF EveryDeviceHandled
    <3>2. \A j \in DOMAIN interrupt_handlers : interrupt_handlers[j] # i
      BY <1>5
    <3> QED BY <1>5, <2>2, <3>1, <3>2 DEF IsInjective
  <2>5. ASSUME NEW j \in 1 .. (slot' - 1), machine'[j] \in {"tty", "disk", "cpu"}
        PROVE  j \in Range(interrupt_handlers') /\ j \in Range(device_table')
    <3>1. j \in 1 .. (slot - 1) \/ j = i
      BY <1>1, <1>2
    <3> QED BY <1>2, <1>4, <2>2, <2>5, <3>1 DEF EveryDeviceHandled
  <2> QED BY <2>3, <2>4, <2>5 DEF EveryDeviceHandled
<1>7. CASE machine[i] \notin {"tty", "disk", "cpu"}
  <2>1. interrupt_handlers' = interrupt_handlers
    BY <1>2, <1>7
  <2>2. TablesFilled' /\ boot' # "handlers"
    BY <1>2, <1>3, <1>4, <1>5, <2>1, BootAssumption DEF TablesFilled
  <2>3. ASSUME NEW j \in 1 .. (slot' - 1), machine'[j] \in {"tty", "disk", "cpu"}
        PROVE  j \in Range(interrupt_handlers') /\ j \in Range(device_table')
    <3>1. j \in 1 .. (slot - 1)
      BY <1>1, <1>2, <1>7, <2>3
    <3> QED BY <1>2, <1>4, <2>1, <2>3, <3>1 DEF EveryDeviceHandled
  <2> QED BY <2>1, <2>2, <2>3 DEF EveryDeviceHandled
<1> QED BY <1>6, <1>7

(* An unknown device is passed over. *)
LEMMA UnknownDevicesStep ==
    ASSUME KernelMemoryApart, EveryDeviceHandled, device_init_unknown
    PROVE  EveryDeviceHandled'
<1>1. PICK i \in Nat \ {0} : i = slot
  BY DEF KernelMemoryApart, BootTypeOK
<1>2. /\ machine[i] \notin DOMAIN StructSizes /\ slot' = i + 1
      /\ UNCHANGED <<machine, device_table, interrupt_handlers, boot>>
  BY <1>1 DEF device_init_unknown, find_driver
<1>3. machine[i] \notin {"tty", "disk", "cpu"}
  BY <1>2, BootAssumption
<1>4. TablesFilled'
  <2>1. \A j \in DOMAIN interrupt_handlers : interrupt_handlers[j] \in Nat /\ interrupt_handlers[j] < i
    BY <1>1, Elements DEF EveryDeviceHandled, TablesFilled, KernelMemoryApart, BootTypeOK
  <2>2. \A j \in DOMAIN interrupt_handlers : interrupt_handlers[j] < i + 1
    BY <2>1
  <2> QED BY <1>2, <2>2 DEF EveryDeviceHandled, TablesFilled
<1>5. ASSUME NEW j \in 1 .. (slot' - 1), machine'[j] \in {"tty", "disk", "cpu"}
      PROVE  j \in Range(interrupt_handlers') /\ j \in Range(device_table')
  <2>1. j \in 1 .. (slot - 1)
    BY <1>1, <1>2, <1>3, <1>5
  <2> QED BY <1>2, <1>5, <2>1 DEF EveryDeviceHandled
<1> QED BY <1>2, <1>4, <1>5 DEF EveryDeviceHandled

(* Every step of the boot preserves both invariants. *)
LEMMA BootStep ==
    KernelMemoryApart /\ EveryDeviceHandled /\ [BootNext]_bootVars => KernelMemoryApart' /\ EveryDeviceHandled'
<1> SUFFICES ASSUME KernelMemoryApart, EveryDeviceHandled, [BootNext]_bootVars
             PROVE  KernelMemoryApart' /\ EveryDeviceHandled'
  OBVIOUS
<1>1. CASE UNCHANGED bootVars
  <2>1. UNCHANGED <<machine, kernel_end, free_area_start, asked, areas, slot, device_table,
                    interrupt_handlers, static_end, boot>>
    BY <1>1 DEF bootVars
  <2>2. EveryDeviceHandled'
    BY <2>1, DevicesUntouched DEF EveryDeviceHandled
  <2> QED BY <2>1, <2>2 DEF KernelMemoryApart, BootTypeOK, KmallocOK, AreasApart, memory_end
<1>2. CASE kmalloc_init \/ kmalloc \/ bootargs_init \/ interrupt_init \/ pagepool_init \/ vm_init
  <2>1. UNCHANGED <<machine, slot, device_table, interrupt_handlers>>
    BY <1>2 DEF kmalloc_init, kmalloc, bootargs_init, interrupt_init, pagepool_init, vm_init
  <2>2. boot' # "handlers"
    BY <1>2 DEF kmalloc_init, kmalloc, bootargs_init, interrupt_init, pagepool_init, vm_init, EveryDeviceHandled
  <2>3. EveryDeviceHandled'
    BY <2>1, <2>2, DevicesUntouched
  <2> QED BY <1>2, <2>3, KmallocInitStep, KmallocStep, AskingStep, VmInitStep
<1>3. CASE device_init_driver \/ device_init_unknown
  BY <1>3, DriverMemoryStep, DriverDevicesStep, UnknownDevicesStep
<1> QED BY <1>1, <1>2, <1>3 DEF BootNext

(* Whatever the machine and the sizes: what kmalloc gives out at boot is     *)
(* aligned and apart, and vm_init counts every page of it as the kernel's.   *)
THEOREM KernelMemoryInvariant == BootSpec => []KernelMemoryApart
<1> QED BY BootInitial, BootStep, PTL DEF BootSpec

(* Whatever the machine: device_init never overfills the handlers of         *)
(* interrupt_register, and every device that interrupts has its handler.     *)
THEOREM DevicesInvariant == BootSpec => []EveryDeviceHandled
<1> QED BY BootInitial, BootStep, PTL DEF BootSpec

----------------------------------------------------------------------------
(* The semaphores of processes. *)

(* Min is the least element of a set of natural numbers. *)
LEMMA MinIsLeast ==
    ASSUME NEW S \in SUBSET Nat, S # {}
    PROVE  Min(S) \in S /\ \A y \in S : Min(S) <= y
<1> DEFINE Smaller == OpToRel(<, Nat)
<1>1. \A x, y \in Nat : <<y, x>> \notin Smaller => x <= y
  BY DEF OpToRel
<1>2. IsWellFoundedOn(Smaller, Nat)
  BY NatLessThanWellFounded
<1> HIDE DEF Smaller
<1>3. \E x \in S : \A y \in S : <<y, x>> \notin Smaller
  BY <1>2, WFMin
<1>4. \E x \in S : \A y \in S : x <= y
  BY <1>1, <1>3
<1> QED BY <1>4 DEF Min

(* The search of semaphore_create looks at entries of the table only. *)
LEMMA ProbedIsSem ==
    ASSUME NEW n \in Nat, NEW i \in Nat
    PROVE  Probed(n, i) \in SemIds
<1>1. MaxSemaphores \in Nat \ {0}
  BY MaxSemaphoresAssumption
<1>2. \A a \in Nat, m \in Nat \ {0} : a % m \in 0 .. (m - 1)
  OBVIOUS
<1> QED BY <1>1, <1>2 DEF Probed, SemIds

(* semaphore_create takes an entry that nobody has. *)
LEMMA Reserves ==
    ASSUME NEW owner \in [SemIds -> SemUsers \cup {Nobody}], NEW n \in SemIds
    PROVE  /\ NextSem(owner, n) \in SemIds
           /\ \/ ReservedSem(owner, n) = NoSem
              \/ ReservedSem(owner, n) \in SemIds /\ owner[ReservedSem(owner, n)] = Nobody
<1> DEFINE unused == FreeAfter(owner, n)
<1>1. n \in Nat /\ SemIds \subseteq Nat
  BY DEF SemIds
<1>2. unused \in SUBSET Nat
  BY <1>1 DEF FreeAfter
<1>3. CASE unused = {}
  BY <1>3 DEF NextSem, ReservedSem
<1>4. CASE unused # {}
  <2>1. Min(unused) \in unused
    BY <1>2, <1>4, MinIsLeast
  <2>2. PICK i \in unused : i = Min(unused)
    BY <2>1
  <2>3. i \in Nat /\ i + 1 \in Nat /\ owner[Probed(n, i)] = Nobody
    BY <1>1, <2>2 DEF FreeAfter
  <2>4. ReservedSem(owner, n) = Probed(n, i) /\ NextSem(owner, n) = Probed(n, i + 1)
    BY <1>4, <2>2 DEF ReservedSem, NextSem
  <2> QED BY <1>1, <2>3, <2>4, ProbedIsSem
<1> QED BY <1>3, <1>4

(* The absent semaphore and the absent entry are not among the real ones. *)
LEMMA NoSemNoEntry == NoSem \notin SemIds /\ NoEntry \notin UsrSems
BY DEF NoSem, SemIds, NoEntry, UsrSems

(* What holds while no race was lost. *)
Agreement == EntriesOwnSemaphores /\ (\A t \in SemUsers : CallOK(t)) /\ SleepersCounted

(* UsrSemInv with its parts put together in Agreement. *)
LEMMA InvMeaning == UsrSemInv <=> UsrSemTypeOK /\ NamesUnique /\ (broken = "no" => Agreement)
BY DEF UsrSemInv, Agreement

(* Both tables are empty at the beginning. *)
LEMMA UsrSemInitial == UsrSemInit => UsrSemInv
<1> SUFFICES ASSUME UsrSemInit PROVE UsrSemTypeOK /\ NamesUnique /\ Agreement
  BY InvMeaning
<1>1. UsrSemTypeOK
  <2>1. 0 \in SemIds
    BY MaxSemaphoresAssumption DEF SemIds
  <2> QED BY <2>1 DEF UsrSemInit, UsrSemTypeOK, FreeEntry, Away
<1>2. /\ \A h \in UsrSems : ~Used(h)
      /\ \A k \in SemIds : creator[k] = Nobody
      /\ \A t \in SemUsers : user[t].pc = "away" /\ user[t].h = NoEntry /\ user[t].sem = NoSem
  BY DEF UsrSemInit, Used, FreeEntry, Away
<1>3. NamesUnique
  BY <1>2 DEF NamesUnique
<1>4. Holders = {}
  BY <1>2 DEF Holders
<1>5. EntriesOwnSemaphores
  BY <1>2, <1>4 DEF EntriesOwnSemaphores
<1>6. \A t \in SemUsers : CallOK(t)
  BY <1>2 DEF CallOK
<1>7. \A k : Asleep(k) = {}
  BY <1>2 DEF Asleep
<1>8. SleepersCounted
  BY <1>2, <1>7 DEF SleepersCounted
<1> QED BY <1>1, <1>3, <1>5, <1>6, <1>8 DEF Agreement

(* An entry of a call that is under way keeps its semaphore reserved. *)
LEMMA HolderReserved ==
    ASSUME UsrSemTypeOK, EntriesOwnSemaphores, NEW h \in Holders
    PROVE  h \in UsrSems /\ usr_sem_table[h].kernel_sem \in SemIds /\ creator[usr_sem_table[h].kernel_sem] # Nobody
BY DEF EntriesOwnSemaphores, Holders

(* What a call that does not destroy may know. *)
CallGood(e) ==
    /\ e.pc \in {"away", "p", "v", "asleep", "destroy"}
    /\ e.pc = "away" => e.h = NoEntry /\ e.sem = NoSem
    /\ e.pc # "away" => e.h \in Holders /\ e.sem = usr_sem_table[e.h].kernel_sem

(* Threads go from one place to another without touching the tables. *)
LEMMA CallsMove ==
    ASSUME UsrSemTypeOK, EntriesOwnSemaphores, \A t \in SemUsers : CallOK(t),
           UNCHANGED <<usr_sem_table, creator>>,
           \A t \in SemUsers :
             \/ user'[t] = user[t]
             \/ user[t].pc \notin {"open", "release"} /\ CallGood(user'[t])
    PROVE  EntriesOwnSemaphores' /\ \A t \in SemUsers : CallOK(t)'
<1>1. \A h : Halfway(h)' <=> Halfway(h)
  BY DEF Halfway, CallGood
<1>2. Holders' = Holders /\ \A h : Used(h)' <=> Used(h)
  BY <1>1 DEF Holders, Used
<1>3. EntriesOwnSemaphores'
  BY <1>2 DEF EntriesOwnSemaphores
<1>4. ASSUME NEW t \in SemUsers PROVE CallOK(t)'
  <2>1. CASE user'[t] # user[t]
    BY <1>2, <2>1 DEF CallGood, CallOK
  <2>2. CASE user'[t] = user[t] /\ user[t].pc \notin {"open", "release"}
    BY <1>2, <2>2 DEF CallOK
  <2>3. CASE user'[t] = user[t] /\ user[t].pc \in {"open", "release"}
    <3>1. user[t].h \in UsrSems /\ Halfway(user[t].h)
      BY <2>3 DEF CallOK, Halfway
    <3>2. user[t].h \notin Holders /\ user[t].h # NoEntry
      BY <3>1, NoSemNoEntry DEF Holders
    <3>3. \A u \in SemUsers \ {t} : user'[u].h # user[t].h
      BY <2>3, <3>2 DEF CallOK, CallGood
    <3> QED BY <1>2, <2>3, <3>3 DEF CallOK
  <2> QED BY <2>1, <2>2, <2>3
<1> QED BY <1>3, <1>4

(* A call finds its entry and remembers its kernel semaphore. *)
LEMMA FindStep ==
    ASSUME UsrSemInv, broken = "no", NEW t \in SemUsers,
           \/ \E h \in UsrSems, call \in {"p", "v"} : usr_sem_find(t, h, call)
           \/ \E h \in UsrSems : usr_sem_destroy(t, h)
    PROVE  UsrSemInv'
<1>0. UsrSemTypeOK /\ NamesUnique /\ Agreement
  BY InvMeaning
<1>1. PICK h \in UsrSems, call \in {"p", "v", "destroy"} :
        /\ user[t].pc = "away" /\ Used(h)
        /\ user' = [user EXCEPT ![t] = [pc |-> call, h |-> h, sem |-> usr_sem_table[h].kernel_sem]]
        /\ broken' = Outcome(h)
        /\ UNCHANGED <<creator, value, next_sem, usr_sem_table>>
  BY DEF usr_sem_find, usr_sem_destroy
<1>2. /\ user'[t] = [pc |-> call, h |-> h, sem |-> usr_sem_table[h].kernel_sem]
      /\ \A u \in SemUsers : u # t => user'[u] = user[u]
  BY <1>0, <1>1 DEF UsrSemTypeOK
<1>3. UsrSemTypeOK'
  <2>1. broken' \in {"no", "race", "null"}
    BY <1>1 DEF Outcome
  <2>2. user' \in [SemUsers -> [pc : {"away", "open", "p", "v", "asleep", "destroy", "release"},
                                h : UsrSems \cup {NoEntry}, sem : SemIds \cup {NoSem}]]
    BY <1>0, <1>1 DEF UsrSemTypeOK
  <2> QED BY <1>0, <1>1, <2>1, <2>2 DEF UsrSemTypeOK
<1>4. NamesUnique'
  BY <1>0, <1>1 DEF NamesUnique, Used
<1>5. ASSUME broken' = "no" PROVE Agreement'
  <2>1. h \in Holders
    BY <1>1, <1>5 DEF Outcome, Holders
  <2>2. \A u \in SemUsers :
          \/ user'[u] = user[u]
          \/ user[u].pc \notin {"open", "release"} /\ CallGood(user'[u])
    BY <1>1, <1>2, <2>1 DEF CallGood
  <2>3. EntriesOwnSemaphores' /\ \A u \in SemUsers : CallOK(u)'
    BY <1>0, <1>1, <2>2, CallsMove DEF Agreement
  <2>4. \A k : Asleep(k)' = Asleep(k)
    BY <1>1, <1>2 DEF Asleep
  <2>5. SleepersCounted'
    BY <1>0, <1>1, <2>4 DEF Agreement, SleepersCounted
  <2> QED BY <2>3, <2>5 DEF Agreement
<1> QED BY <1>3, <1>4, <1>5 DEF UsrSemInv, Agreement

(* The semaphore that a call remembers is still the one of its entry. *)
LEMMA Semaphores ==
    ASSUME UsrSemInv, broken = "no", NEW t \in SemUsers, user[t].pc \in {"p", "v", "destroy"}
    PROVE  /\ user[t].h \in Holders /\ user[t].h \in UsrSems /\ user[t].sem \in SemIds
           /\ user[t].sem = usr_sem_table[user[t].h].kernel_sem
           /\ creator[user[t].sem] # Nobody
<1>1. UsrSemTypeOK /\ EntriesOwnSemaphores /\ CallOK(t)
  BY InvMeaning DEF Agreement
<1>2. user[t].h \in Holders /\ user[t].sem = usr_sem_table[user[t].h].kernel_sem
  BY <1>1 DEF CallOK
<1> QED BY <1>1, <1>2, HolderReserved

(* The threads that sleep on a semaphore are finitely many, and its value   *)
(* tells whether there are any.                                             *)
LEMMA Sleepers ==
    ASSUME UsrSemTypeOK, SleepersCounted, NEW k \in SemIds, creator[k] # Nobody
    PROVE  /\ IsFiniteSet(Asleep(k)) /\ Cardinality(Asleep(k)) \in Nat /\ value[k] \in Int
           /\ value[k] >= 0 <=> Asleep(k) = {}
           /\ value[k] <= 0 => value[k] = -Cardinality(Asleep(k))
<1>1. IsFiniteSet(Asleep(k))
  BY UsrSemAssumption, FS_Subset DEF Asleep
<1>2. Cardinality(Asleep(k)) \in Nat /\ (Cardinality(Asleep(k)) = 0 <=> Asleep(k) = {})
  BY <1>1, FS_CardinalityType, FS_EmptySet
<1>3. value[k] \in Int
  BY DEF UsrSemTypeOK
<1>4. /\ Asleep(k) # {} => value[k] = -Cardinality(Asleep(k))
      /\ Asleep(k) = {} => value[k] >= 0
  BY DEF SleepersCounted
<1> QED BY <1>1, <1>2, <1>3, <1>4

(* Who comes to sleep or is woken is counted; the other semaphores are not  *)
(* touched.                                                                 *)
LEMMA Recounted ==
    ASSUME SleepersCounted, UNCHANGED creator, NEW k \in SemIds,
           \A i \in SemIds : i # k => Asleep(i)' = Asleep(i) /\ value'[i] = value[i],
           \/ Asleep(k)' # {} /\ value'[k] = -Cardinality(Asleep(k)')
           \/ Asleep(k)' = {} /\ value'[k] >= 0
    PROVE  SleepersCounted'
BY DEF SleepersCounted

(* P lowers the value; below zero the caller is one more sleeper. *)
LEMMA PStep ==
    ASSUME UsrSemInv, broken = "no", NEW t \in SemUsers, usr_sem_p(t)
    PROVE  UsrSemInv'
<1>0. /\ UsrSemTypeOK /\ NamesUnique /\ Agreement
      /\ EntriesOwnSemaphores /\ (\A u \in SemUsers : CallOK(u)) /\ SleepersCounted
  BY InvMeaning DEF Agreement
<1>1. user[t].pc = "p" /\ user[t].h \in Holders /\ user[t].sem = usr_sem_table[user[t].h].kernel_sem
  BY Semaphores DEF usr_sem_p
<1>2. PICK k \in SemIds : k = user[t].sem /\ creator[k] # Nobody
  BY <1>1, Semaphores
<1>3. /\ value' = [value EXCEPT ![k] = @ - 1]
      /\ user' = [user EXCEPT ![t] = IF value[k] > 0 THEN Away ELSE [@ EXCEPT !.pc = "asleep"]]
      /\ UNCHANGED <<creator, next_sem, usr_sem_table, broken>>
  BY <1>2 DEF usr_sem_p
<1>4. /\ user'[t] = IF value[k] > 0 THEN Away ELSE [user[t] EXCEPT !.pc = "asleep"]
      /\ \A u \in SemUsers : u # t => user'[u] = user[u]
      /\ value'[k] = value[k] - 1 /\ \A i \in SemIds : i # k => value'[i] = value[i]
      /\ user[t] \in [pc : {"away", "open", "p", "v", "asleep", "destroy", "release"},
                     h : UsrSems \cup {NoEntry}, sem : SemIds \cup {NoSem}]
  BY <1>0, <1>3 DEF UsrSemTypeOK
<1>5. /\ value[k] > 0 => user'[t] = Away
      /\ ~(value[k] > 0) => user'[t].pc = "asleep" /\ user'[t].h = user[t].h /\ user'[t].sem = k
  BY <1>2, <1>4
<1>6. UsrSemTypeOK'
  <2>1. value' \in [SemIds -> Int]
    BY <1>0, <1>3 DEF UsrSemTypeOK
  <2>2. user' \in [SemUsers -> [pc : {"away", "open", "p", "v", "asleep", "destroy", "release"},
                                h : UsrSems \cup {NoEntry}, sem : SemIds \cup {NoSem}]]
    <3>1. (IF value[k] > 0 THEN Away ELSE [user[t] EXCEPT !.pc = "asleep"])
             \in [pc : {"away", "open", "p", "v", "asleep", "destroy", "release"},
                  h : UsrSems \cup {NoEntry}, sem : SemIds \cup {NoSem}]
      BY <1>4 DEF Away
    <3> QED BY <1>0, <1>3, <3>1 DEF UsrSemTypeOK
  <2> QED BY <1>0, <1>3, <2>1, <2>2 DEF UsrSemTypeOK
<1>7. NamesUnique'
  BY <1>0, <1>3 DEF NamesUnique, Used
<1>8. EntriesOwnSemaphores' /\ \A u \in SemUsers : CallOK(u)'
  <2>1. CallGood(user'[t])
    BY <1>1, <1>2, <1>5 DEF CallGood, Away
  <2>2. \A u \in SemUsers :
          \/ user'[u] = user[u]
          \/ user[u].pc \notin {"open", "release"} /\ CallGood(user'[u])
    BY <1>1, <1>4, <2>1
  <2> QED BY <1>0, <1>3, <2>2, CallsMove
<1>9. SleepersCounted'
  <2>1. /\ IsFiniteSet(Asleep(k)) /\ Cardinality(Asleep(k)) \in Nat /\ value[k] \in Int
        /\ value[k] >= 0 <=> Asleep(k) = {}
        /\ value[k] <= 0 => value[k] = -Cardinality(Asleep(k))
    BY <1>0, <1>2, Sleepers
  <2>2. \A i \in SemIds : i # k => Asleep(i)' = Asleep(i)
    BY <1>1, <1>2, <1>4, <1>5, NoSemNoEntry DEF Asleep, Away
  <2>3. CASE value[k] > 0
    <3>1. Asleep(k)' = Asleep(k)
      BY <1>1, <1>4, <1>5, <2>3 DEF Asleep, Away
    <3>2. Asleep(k)' = {} /\ value'[k] >= 0
      BY <1>4, <2>1, <2>3, <3>1
    <3> QED BY <1>0, <1>3, <1>4, <2>2, <3>2, Recounted
  <2>4. CASE ~(value[k] > 0)
    <3>1. Asleep(k)' = Asleep(k) \cup {t} /\ t \notin Asleep(k)
      BY <1>1, <1>4, <1>5, <2>4 DEF Asleep
    <3>2. Cardinality(Asleep(k)') = Cardinality(Asleep(k)) + 1
      BY <2>1, <3>1, FS_AddElement
    <3>3. value[k] = -Cardinality(Asleep(k))
      BY <2>1, <2>4
    <3>4. value'[k] = -Cardinality(Asleep(k)')
      BY <1>4, <2>1, <3>2, <3>3
    <3>5. Asleep(k)' # {}
      BY <3>1
    <3> QED BY <1>0, <1>3, <1>4, <2>2, <3>4, <3>5, Recounted
  <2> QED BY <2>3, <2>4
<1> QED BY <1>6, <1>7, <1>8, <1>9 DEF UsrSemInv

(* V raises the value and wakes one sleeper if there is any. *)
LEMMA VStep ==
    ASSUME UsrSemInv, broken = "no", NEW t \in SemUsers, usr_sem_v(t)
    PROVE  UsrSemInv'
<1>0. /\ UsrSemTypeOK /\ NamesUnique
      /\ EntriesOwnSemaphores /\ (\A u \in SemUsers : CallOK(u)) /\ SleepersCounted
  BY InvMeaning DEF Agreement
<1>1. user[t].pc = "v"
  BY DEF usr_sem_v
<1>2. PICK k \in SemIds : k = user[t].sem /\ creator[k] # Nobody
  BY <1>1, Semaphores
<1>3. /\ IsFiniteSet(Asleep(k)) /\ Cardinality(Asleep(k)) \in Nat /\ value[k] \in Int
      /\ value[k] >= 0 <=> Asleep(k) = {}
      /\ value[k] <= 0 => value[k] = -Cardinality(Asleep(k))
  BY <1>0, <1>2, Sleepers
<1>4. /\ value' = [value EXCEPT ![k] = @ + 1]
      /\ UNCHANGED <<creator, next_sem, usr_sem_table, broken>>
      /\ value[k] < 0 => \E s \in Asleep(k) : user' = [user EXCEPT ![t] = Away, ![s] = Away]
      /\ value[k] >= 0 => user' = [user EXCEPT ![t] = Away]
  BY <1>2, <1>3 DEF usr_sem_v
<1>5. value'[k] = value[k] + 1 /\ \A i \in SemIds : i # k => value'[i] = value[i]
  BY <1>0, <1>4 DEF UsrSemTypeOK
<1>6. PICK W \in SUBSET SemUsers :
        /\ value[k] < 0 => \E s \in Asleep(k) : W = {t, s}
        /\ value[k] >= 0 => W = {t}
        /\ user' = [u \in SemUsers |-> IF u \in W THEN Away ELSE user[u]]
  <2>1. DOMAIN user = SemUsers
    BY <1>0 DEF UsrSemTypeOK
  <2>2. CASE value[k] >= 0
    <3>1. user' = [u \in SemUsers |-> IF u \in {t} THEN Away ELSE user[u]]
      BY <1>4, <2>1, <2>2
    <3>2. {t} \in SUBSET SemUsers /\ ~(value[k] < 0)
      BY <1>3, <2>2
    <3> QED BY <2>2, <3>1, <3>2
  <2>3. CASE value[k] < 0
    <3>1. PICK s \in Asleep(k) : user' = [user EXCEPT ![t] = Away, ![s] = Away]
      BY <1>4, <2>3
    <3>2. user' = [u \in SemUsers |-> IF u \in {t, s} THEN Away ELSE user[u]]
      BY <2>1, <3>1
    <3>3. {t, s} \in SUBSET SemUsers /\ ~(value[k] >= 0)
      BY <1>3, <2>3 DEF Asleep
    <3> QED BY <2>3, <3>1, <3>2, <3>3
  <2> QED BY <1>3, <2>2, <2>3
<1>7. \A u \in SemUsers : (u \in W => user'[u] = Away) /\ (u \notin W => user'[u] = user[u])
  BY <1>6
<1>8. UsrSemTypeOK'
  <2>1. value' \in [SemIds -> Int]
    BY <1>0, <1>4 DEF UsrSemTypeOK
  <2>2. user' \in [SemUsers -> [pc : {"away", "open", "p", "v", "asleep", "destroy", "release"},
                                h : UsrSems \cup {NoEntry}, sem : SemIds \cup {NoSem}]]
    BY <1>0, <1>6 DEF UsrSemTypeOK, Away
  <2> QED BY <1>0, <1>4, <2>1, <2>2 DEF UsrSemTypeOK
<1>9. NamesUnique'
  BY <1>0, <1>4 DEF NamesUnique, Used
<1>10. EntriesOwnSemaphores' /\ \A u \in SemUsers : CallOK(u)'
  <2>1. \A u \in W : user[u].pc \notin {"open", "release"}
    BY <1>1, <1>3, <1>6 DEF Asleep
  <2>2. CallGood(Away)
    BY DEF CallGood, Away
  <2>3. \A u \in SemUsers :
          \/ user'[u] = user[u]
          \/ user[u].pc \notin {"open", "release"} /\ CallGood(user'[u])
    BY <1>7, <2>1, <2>2
  <2> QED BY <1>0, <1>4, <2>3, CallsMove
<1>11. SleepersCounted'
  <2>1. \A i : Asleep(i)' = Asleep(i) \ W
    BY <1>6, <1>7 DEF Asleep, Away
  <2>2. \A i : t \notin Asleep(i)
    BY <1>1 DEF Asleep
  <2>3. \A i : i # k => \A s \in Asleep(k) : s \notin Asleep(i)
    BY DEF Asleep
  <2>4. CASE value[k] >= 0
    <3>1. \A i : Asleep(i)' = Asleep(i)
      BY <1>6, <2>1, <2>2, <2>4
    <3>2. Asleep(k)' = {} /\ value'[k] >= 0
      BY <1>3, <1>5, <2>4, <3>1
    <3> QED BY <1>0, <1>4, <1>5, <3>1, <3>2, Recounted
  <2>5. CASE value[k] < 0
    <3>1. PICK s \in Asleep(k) : W = {t, s}
      BY <1>6, <2>5
    <3>2. \A i \in SemIds : i # k => Asleep(i)' = Asleep(i)
      BY <2>1, <2>2, <2>3, <3>1
    <3>3. Asleep(k)' = Asleep(k) \ {s}
      BY <2>1, <2>2, <3>1
    <3>4. IsFiniteSet(Asleep(k)') /\ Cardinality(Asleep(k)') = Cardinality(Asleep(k)) - 1
      BY <1>3, <3>3, FS_RemoveElement
    <3>5. value'[k] = -Cardinality(Asleep(k)')
      BY <1>3, <1>5, <2>5, <3>4
    <3>6. Asleep(k)' = {} => value'[k] >= 0
      <4>1. Asleep(k)' = {} => Cardinality(Asleep(k)') = 0
        BY <3>4, FS_EmptySet
      <4> QED BY <3>5, <4>1
    <3> QED BY <1>0, <1>4, <1>5, <3>2, <3>5, <3>6, Recounted
  <2> QED BY <1>3, <2>4, <2>5
<1> QED BY <1>8, <1>9, <1>10, <1>11 DEF UsrSemInv

(* An entry whose kernel semaphore was destroyed and that nobody else was   *)
(* using is left to the thread that destroyed it.                           *)
LEMMA DestroyKernelStep ==
    ASSUME UsrSemInv, broken = "no", NEW t \in SemUsers, usr_sem_destroy_kernel(t)
    PROVE  UsrSemInv'
<1>0. /\ UsrSemTypeOK /\ NamesUnique
      /\ EntriesOwnSemaphores /\ (\A u \in SemUsers : CallOK(u)) /\ SleepersCounted
  BY InvMeaning DEF Agreement
<1>1. user[t].pc = "destroy"
  BY DEF usr_sem_destroy_kernel
<1>2. PICK h \in UsrSems, k \in SemIds :
        /\ h = user[t].h /\ k = user[t].sem /\ h \in Holders
        /\ k = usr_sem_table[h].kernel_sem /\ creator[k] # Nobody
  BY <1>1, Semaphores
<1>3. /\ creator' = [creator EXCEPT ![k] = Nobody]
      /\ broken' = IF Using(k) = {t} THEN "no" ELSE "race"
      /\ user' = [user EXCEPT ![t] = [pc |-> "release", h |-> h, sem |-> NoSem]]
      /\ UNCHANGED <<value, next_sem, usr_sem_table>>
  BY <1>2 DEF usr_sem_destroy_kernel
<1>4. /\ user'[t] = [pc |-> "release", h |-> h, sem |-> NoSem]
      /\ \A u \in SemUsers : u # t => user'[u] = user[u]
      /\ creator'[k] = Nobody /\ \A i \in SemIds : i # k => creator'[i] = creator[i]
  BY <1>0, <1>3 DEF UsrSemTypeOK
<1>5. UsrSemTypeOK'
  <2>1. creator' \in [SemIds -> SemUsers \cup {Nobody}]
    BY <1>0, <1>3 DEF UsrSemTypeOK
  <2>2. user' \in [SemUsers -> [pc : {"away", "open", "p", "v", "asleep", "destroy", "release"},
                                h : UsrSems \cup {NoEntry}, sem : SemIds \cup {NoSem}]]
    BY <1>0, <1>3 DEF UsrSemTypeOK
  <2> QED BY <1>0, <1>3, <2>1, <2>2 DEF UsrSemTypeOK
<1>6. NamesUnique'
  BY <1>0, <1>3 DEF NamesUnique, Used
<1>7. ASSUME broken' = "no" PROVE Agreement'
  <2>1. Using(k) = {t}
    BY <1>3, <1>7
  <2>2. ~Halfway(h) /\ Used(h) /\ h # NoEntry
    BY <1>2, NoSemNoEntry DEF Holders
  <2>3. \A u \in SemUsers : u # t => user[u].h # h
    <3>1. SUFFICES ASSUME NEW u \in SemUsers, u # t, user[u].h = h PROVE FALSE
      OBVIOUS
    <3>2. user[u].pc \notin {"open", "release"}
      BY <2>2, <3>1 DEF Halfway
    <3>3. user[u].pc # "away"
      BY <1>0, <2>2, <3>1 DEF CallOK
    <3>4. user[u].sem = k
      BY <1>0, <1>2, <3>1, <3>2, <3>3 DEF CallOK, UsrSemTypeOK
    <3> QED BY <2>1, <3>1, <3>4 DEF Using
  <2>4. \A i : Halfway(i)' <=> Halfway(i) \/ i = h
    BY <1>1, <1>4 DEF Halfway
  <2>5. /\ \A i : Used(i)' <=> Used(i)
        /\ Holders' = Holders \ {h}
    BY <1>3, <2>4 DEF Holders, Used
  <2>6. EntriesOwnSemaphores'
    <3>1. /\ {usr_sem_table[i].kernel_sem : i \in Holders} = {j \in SemIds : creator[j] # Nobody}
          /\ \A i, j \in Holders : usr_sem_table[i].kernel_sem = usr_sem_table[j].kernel_sem => i = j
      BY <1>0 DEF EntriesOwnSemaphores
    <3>2. {usr_sem_table[i].kernel_sem : i \in Holders \ {h}} = {j \in SemIds : creator[j] # Nobody} \ {k}
      BY <1>2, <3>1
    <3>3. {j \in SemIds : creator'[j] # Nobody} = {j \in SemIds : creator[j] # Nobody} \ {k}
      BY <1>4
    <3> QED BY <1>3, <2>5, <3>1, <3>2, <3>3 DEF EntriesOwnSemaphores
  <2>7. ASSUME NEW u \in SemUsers PROVE CallOK(u)'
    <3>1. CASE u = t
      BY <1>4, <2>2, <2>3, <2>5, <3>1 DEF CallOK
    <3>2. CASE u # t
      <4>1. user'[u] = user[u] /\ user[u].h # h /\ CallOK(u)
        BY <1>0, <1>4, <2>3, <3>2
      <4>2. user[u].h \in Holders => user[u].h \in Holders'
        BY <2>5, <4>1
      <4>3. user[u].pc \in {"open", "release"} => \A w \in SemUsers \ {u} : user'[w].h # user'[u].h
        BY <1>2, <1>4, <4>1 DEF CallOK
      <4> QED BY <1>3, <2>5, <4>1, <4>2, <4>3 DEF CallOK
    <3> QED BY <3>1, <3>2
  <2>8. \A i : Asleep(i)' = Asleep(i)
    BY <1>1, <1>4 DEF Asleep
  <2>9. SleepersCounted'
    BY <1>0, <1>3, <1>4, <2>8 DEF SleepersCounted
  <2> QED BY <2>6, <2>7, <2>9 DEF Agreement
<1> QED BY <1>5, <1>6, <1>7 DEF UsrSemInv, Agreement

(* The end of usr_sem_destroy frees an entry that has no semaphore any more. *)
LEMMA DestroyEntryStep ==
    ASSUME UsrSemInv, broken = "no", NEW t \in SemUsers, usr_sem_destroy_entry(t)
    PROVE  UsrSemInv'
<1>0. /\ UsrSemTypeOK /\ NamesUnique
      /\ EntriesOwnSemaphores /\ (\A u \in SemUsers : CallOK(u)) /\ SleepersCounted
  BY InvMeaning DEF Agreement
<1>1. user[t].pc = "release"
  BY DEF usr_sem_destroy_entry
<1>2. PICK h \in UsrSems : h = user[t].h /\ \A u \in SemUsers : u # t => user[u].h # h
  BY <1>0, <1>1 DEF CallOK
<1>3. /\ usr_sem_table' = [usr_sem_table EXCEPT ![h].state = "FREE"]
      /\ user' = [user EXCEPT ![t] = Away]
      /\ UNCHANGED <<creator, value, next_sem, broken>>
  BY <1>2 DEF usr_sem_destroy_entry
<1>4. /\ user'[t] = Away /\ \A u \in SemUsers : u # t => user'[u] = user[u]
      /\ usr_sem_table'[h].state = "FREE"
      /\ \A i \in UsrSems : i # h => usr_sem_table'[i] = usr_sem_table[i]
  BY <1>0, <1>3 DEF UsrSemTypeOK
<1>5. UsrSemTypeOK'
  <2>1. user' \in [SemUsers -> [pc : {"away", "open", "p", "v", "asleep", "destroy", "release"},
                                h : UsrSems \cup {NoEntry}, sem : SemIds \cup {NoSem}]]
    BY <1>0, <1>3 DEF UsrSemTypeOK, Away
  <2>2. usr_sem_table' \in [UsrSems -> [state : {"FREE", "USED"}, name : ShortNames \cup {CutName},
                                        kernel_sem : SemIds \cup {NoSem}]]
    <3>1. usr_sem_table \in [UsrSems -> [state : {"FREE", "USED"}, name : ShortNames \cup {CutName},
                                        kernel_sem : SemIds \cup {NoSem}]]
      BY <1>0 DEF UsrSemTypeOK
    <3>2. usr_sem_table' = [usr_sem_table EXCEPT ![h].state = "FREE"]
      BY <1>3
    <3> QED BY <3>1, <3>2
  <2> QED BY <1>0, <1>3, <2>1, <2>2 DEF UsrSemTypeOK
<1>6. ~Used(h)' /\ \A i \in UsrSems : i # h => (Used(i)' <=> Used(i))
  BY <1>4 DEF Used
<1>7. NamesUnique'
  BY <1>0, <1>4, <1>6 DEF NamesUnique
<1>8. h \notin Holders
  BY <1>1, <1>2 DEF Holders, Halfway
<1>9. \A i \in UsrSems : i # h => (Halfway(i)' <=> Halfway(i))
  BY <1>1, <1>2, <1>4 DEF Halfway, Away
<1>10. Holders' = Holders
  BY <1>4, <1>6, <1>8, <1>9 DEF Holders
<1>11. EntriesOwnSemaphores'
  <2>1. \A i \in Holders : usr_sem_table'[i] = usr_sem_table[i]
    BY <1>4, <1>8 DEF Holders
  <2> QED BY <1>0, <1>3, <1>10, <2>1 DEF EntriesOwnSemaphores
<1>12. ASSUME NEW u \in SemUsers PROVE CallOK(u)'
  <2>1. CASE u = t
    BY <1>4, <2>1 DEF CallOK, Away
  <2>2. CASE u # t
    <3>1. user'[u] = user[u] /\ user[u].h # h /\ CallOK(u)
      BY <1>0, <1>2, <1>4, <2>2
    <3>2. user[u].h \in UsrSems => usr_sem_table'[user[u].h] = usr_sem_table[user[u].h]
      BY <1>4, <3>1
    <3>3. user[u].h \in Holders => user[u].h \in UsrSems
      BY DEF Holders
    <3>4. user[u].pc \in {"open", "release"} => \A w \in SemUsers \ {u} : user'[w].h # user[u].h
      BY <1>4, <3>1, NoSemNoEntry DEF CallOK, Away
    <3> QED BY <1>10, <3>1, <3>2, <3>3, <3>4 DEF CallOK, Used
  <2> QED BY <2>1, <2>2
<1>13. \A i : Asleep(i)' = Asleep(i)
  BY <1>1, <1>4 DEF Asleep, Away
<1>14. SleepersCounted'
  BY <1>0, <1>3, <1>13 DEF SleepersCounted
<1> QED BY <1>5, <1>7, <1>11, <1>12, <1>14 DEF UsrSemInv

(* The entry that usr_sem_open takes is nobody's, and has a name that no    *)
(* other entry in use has.                                                  *)
LEMMA OpenStep ==
    ASSUME UsrSemInv, broken = "no", NEW t \in SemUsers, NEW name \in ShortNames \cup LongNames,
           usr_sem_open(t, name)
    PROVE  UsrSemInv'
<1>0. /\ UsrSemTypeOK /\ NamesUnique
      /\ EntriesOwnSemaphores /\ (\A u \in SemUsers : CallOK(u)) /\ SleepersCounted
  BY InvMeaning DEF Agreement
<1>1. PICK h \in UsrSems : h = Min(FreeEntries) /\ ~Used(h)
  <2>1. FreeEntries \in SUBSET Nat /\ FreeEntries # {}
    BY DEF FreeEntries, UsrSems, usr_sem_open
  <2>2. Min(FreeEntries) \in FreeEntries
    BY <2>1, MinIsLeast
  <2> QED BY <2>2 DEF FreeEntries
<1>2. /\ user[t].pc = "away"
      /\ usr_sem_table' = [usr_sem_table EXCEPT ![h] =
                             [@ EXCEPT !.state = "USED", !.name = Stored(name)]]
      /\ user' = [user EXCEPT ![t] = [pc |-> "open", h |-> h, sem |-> NoSem]]
      /\ UNCHANGED <<creator, value, next_sem, broken>>
  BY <1>1 DEF usr_sem_open
<1>3. /\ usr_sem_table'[h].state = "USED" /\ usr_sem_table'[h].name = Stored(name)
      /\ \A i \in UsrSems : i # h => usr_sem_table'[i] = usr_sem_table[i]
      /\ user'[t] = [pc |-> "open", h |-> h, sem |-> NoSem]
      /\ \A u \in SemUsers : u # t => user'[u] = user[u]
  BY <1>0, <1>2 DEF UsrSemTypeOK
<1>4. Used(h)' /\ \A i \in UsrSems : i # h => (Used(i)' <=> Used(i))
  BY <1>3 DEF Used
<1>5. UsrSemTypeOK'
  <2>1. Stored(name) \in ShortNames \cup {CutName}
    BY DEF Stored
  <2>2. usr_sem_table' \in [UsrSems -> [state : {"FREE", "USED"}, name : ShortNames \cup {CutName},
                                        kernel_sem : SemIds \cup {NoSem}]]
    <3>1. usr_sem_table \in [UsrSems -> [state : {"FREE", "USED"}, name : ShortNames \cup {CutName},
                                        kernel_sem : SemIds \cup {NoSem}]]
      BY <1>0 DEF UsrSemTypeOK
    <3>2. [usr_sem_table[h] EXCEPT !.state = "USED", !.name = Stored(name)]
             \in [state : {"FREE", "USED"}, name : ShortNames \cup {CutName},
                  kernel_sem : SemIds \cup {NoSem}]
      BY <2>1, <3>1
    <3>3. usr_sem_table' = [usr_sem_table EXCEPT ![h] =
                              [@ EXCEPT !.state = "USED", !.name = Stored(name)]]
      BY <1>2
    <3> QED BY <3>1, <3>2, <3>3
  <2>3. user' \in [SemUsers -> [pc : {"away", "open", "p", "v", "asleep", "destroy", "release"},
                                h : UsrSems \cup {NoEntry}, sem : SemIds \cup {NoSem}]]
    BY <1>0, <1>2 DEF UsrSemTypeOK
  <2> QED BY <1>0, <1>2, <2>2, <2>3 DEF UsrSemTypeOK
<1>6. NamesUnique'
  <2>1. \A i \in UsrSems : Used(i) => usr_sem_table[i].name # name
    BY DEF usr_sem_open, Named
  <2>2. Stored(name) # CutName => Stored(name) = name
    BY DEF Stored
  <2>3. \A i \in UsrSems : Used(i) /\ Stored(name) # CutName => usr_sem_table[i].name # Stored(name)
    BY <2>1, <2>2
  <2> QED BY <1>0, <1>3, <1>4, <2>3 DEF NamesUnique
<1>7. h # NoEntry /\ \A u \in SemUsers : user[u].h # h
  BY <1>0, <1>1, NoSemNoEntry DEF CallOK, Holders, UsrSemTypeOK
<1>8. Halfway(h)' /\ \A i : i # h => (Halfway(i)' <=> Halfway(i))
  BY <1>2, <1>3 DEF Halfway
<1>9. h \notin Holders /\ Holders' = Holders
  BY <1>1, <1>3, <1>4, <1>8 DEF Holders
<1>10. \A i \in Holders : i \in UsrSems /\ usr_sem_table'[i] = usr_sem_table[i]
  BY <1>3, <1>9 DEF Holders
<1>11. EntriesOwnSemaphores'
  <2>1. UNCHANGED creator
    BY <1>2
  <2> QED BY <1>0, <1>9, <1>10, <2>1 DEF EntriesOwnSemaphores
<1>12. ASSUME NEW u \in SemUsers PROVE CallOK(u)'
  <2>1. CASE u = t
    BY <1>1, <1>3, <1>4, <1>7, <2>1 DEF CallOK
  <2>2. CASE u # t
    <3>1. user'[u] = user[u] /\ CallOK(u) /\ user[u].h # h
      BY <1>0, <1>3, <1>7, <2>2
    <3>2. user[u].pc \in {"open", "release"} => \A w \in SemUsers \ {u} : user'[w].h # user[u].h
      BY <1>3, <3>1 DEF CallOK
    <3> QED BY <1>4, <1>9, <1>10, <3>1, <3>2 DEF CallOK
  <2> QED BY <2>1, <2>2
<1>13. \A i : Asleep(i)' = Asleep(i)
  BY <1>2, <1>3 DEF Asleep
<1>14. SleepersCounted'
  BY <1>0, <1>2, <1>13 DEF SleepersCounted
<1> QED BY <1>5, <1>6, <1>11, <1>12, <1>14 DEF UsrSemInv

(* The semaphore that semaphore_create gives to an entry was nobody's, and  *)
(* nobody had to do with the entry but the thread that opens it.            *)
LEMMA OpenKernelStep ==
    ASSUME UsrSemInv, broken = "no", NEW t \in SemUsers, NEW v \in Values,
           usr_sem_open_kernel(t, v)
    PROVE  UsrSemInv'
<1>0. /\ UsrSemTypeOK /\ NamesUnique
      /\ EntriesOwnSemaphores /\ (\A u \in SemUsers : CallOK(u)) /\ SleepersCounted
  BY InvMeaning DEF Agreement
<1>1. user[t].pc = "open"
  BY DEF usr_sem_open_kernel
<1>2. PICK h \in UsrSems : h = user[t].h /\ Used(h) /\ \A u \in SemUsers : u # t => user[u].h # h
  BY <1>0, <1>1 DEF CallOK
<1>3. /\ NextSem(creator, next_sem) \in SemIds
      /\ \/ ReservedSem(creator, next_sem) = NoSem
         \/ ReservedSem(creator, next_sem) \in SemIds /\ creator[ReservedSem(creator, next_sem)] = Nobody
  <2>1. creator \in [SemIds -> SemUsers \cup {Nobody}] /\ next_sem \in SemIds
    BY <1>0 DEF UsrSemTypeOK
  <2>2. PICK owner \in [SemIds -> SemUsers \cup {Nobody}], n \in SemIds : owner = creator /\ n = next_sem
    BY <2>1
  <2> QED BY <2>2, Reserves
<1>4. PICK k \in SemIds \cup {NoSem} :
        /\ k = ReservedSem(creator, next_sem)
        /\ k # NoSem => k \in SemIds /\ creator[k] = Nobody
  BY <1>3
<1>5. /\ usr_sem_table' = [usr_sem_table EXCEPT ![h].kernel_sem = k]
      /\ next_sem' = NextSem(creator, next_sem)
      /\ user' = [user EXCEPT ![t] = Away]
      /\ UNCHANGED broken
      /\ k = NoSem => UNCHANGED <<creator, value>>
      /\ k # NoSem => creator' = [creator EXCEPT ![k] = t] /\ value' = [value EXCEPT ![k] = v]
  BY <1>2, <1>4 DEF usr_sem_open_kernel
<1>6. /\ usr_sem_table'[h].kernel_sem = k
      /\ \A i \in UsrSems : /\ i # h => usr_sem_table'[i] = usr_sem_table[i]
                            /\ usr_sem_table'[i].state = usr_sem_table[i].state
                            /\ usr_sem_table'[i].name = usr_sem_table[i].name
  BY <1>0, <1>5 DEF UsrSemTypeOK
<1>7. /\ \A i \in SemIds : i # k => creator'[i] = creator[i] /\ value'[i] = value[i]
      /\ k # NoSem => creator'[k] = t /\ value'[k] = v
      /\ user'[t] = Away /\ \A u \in SemUsers : u # t => user'[u] = user[u]
  BY <1>0, <1>4, <1>5 DEF UsrSemTypeOK
<1>8. \A i \in UsrSems : Used(i)' <=> Used(i)
  BY <1>6 DEF Used
<1>9. UsrSemTypeOK'
  <2>1. usr_sem_table' \in [UsrSems -> [state : {"FREE", "USED"}, name : ShortNames \cup {CutName},
                                        kernel_sem : SemIds \cup {NoSem}]]
    <3>1. usr_sem_table \in [UsrSems -> [state : {"FREE", "USED"}, name : ShortNames \cup {CutName},
                                        kernel_sem : SemIds \cup {NoSem}]]
      BY <1>0 DEF UsrSemTypeOK
    <3>2. usr_sem_table' = [usr_sem_table EXCEPT ![h].kernel_sem = k]
      BY <1>5
    <3> QED BY <3>1, <3>2
  <2>2. user' \in [SemUsers -> [pc : {"away", "open", "p", "v", "asleep", "destroy", "release"},
                                h : UsrSems \cup {NoEntry}, sem : SemIds \cup {NoSem}]]
    BY <1>0, <1>5 DEF UsrSemTypeOK, Away
  <2>3. creator' \in [SemIds -> SemUsers \cup {Nobody}]
    BY <1>0, <1>4, <1>5 DEF UsrSemTypeOK
  <2>4. value' \in [SemIds -> Int]
    BY <1>0, <1>4, <1>5, UsrSemAssumption DEF UsrSemTypeOK
  <2> QED BY <1>0, <1>3, <1>5, <2>1, <2>2, <2>3, <2>4 DEF UsrSemTypeOK
<1>10. NamesUnique'
  BY <1>0, <1>6, <1>8 DEF NamesUnique
<1>11. Halfway(h) /\ ~Halfway(h)' /\ \A i : i # h => (Halfway(i)' <=> Halfway(i))
  BY <1>1, <1>2, <1>7 DEF Halfway, Away
<1>12. h \notin Holders /\ Holders' = IF k = NoSem THEN Holders ELSE Holders \cup {h}
  BY <1>2, <1>6, <1>8, <1>11 DEF Holders
<1>13. \A i \in Holders : i \in UsrSems /\ usr_sem_table'[i] = usr_sem_table[i]
  BY <1>6, <1>12 DEF Holders
<1>14. k # NoSem => \A i \in Holders : usr_sem_table[i].kernel_sem # k
  BY <1>0, <1>4 DEF EntriesOwnSemaphores
<1>15. EntriesOwnSemaphores'
  <2>1. /\ {usr_sem_table[i].kernel_sem : i \in Holders} = {j \in SemIds : creator[j] # Nobody}
        /\ \A i, j \in Holders : usr_sem_table[i].kernel_sem = usr_sem_table[j].kernel_sem => i = j
    BY <1>0 DEF EntriesOwnSemaphores
  <2>2. CASE k = NoSem
    BY <1>5, <1>12, <1>13, <2>1, <2>2 DEF EntriesOwnSemaphores
  <2>3. CASE k # NoSem
    <3>1. Holders' = Holders \cup {h} /\ usr_sem_table'[h].kernel_sem = k /\ k \in SemIds
      BY <1>4, <1>6, <1>12, <2>3
    <3>2. {j \in SemIds : creator'[j] # Nobody} = {j \in SemIds : creator[j] # Nobody} \cup {k}
      BY <1>7, <2>3, <3>1, UsrSemAssumption
    <3>3. {usr_sem_table'[i].kernel_sem : i \in Holders'} = {usr_sem_table[i].kernel_sem : i \in Holders} \cup {k}
      BY <1>13, <3>1
    <3>4. \A i, j \in Holders' : usr_sem_table'[i].kernel_sem = usr_sem_table'[j].kernel_sem => i = j
      BY <1>13, <1>14, <2>1, <2>3, <3>1
    <3> QED BY <2>1, <3>2, <3>3, <3>4 DEF EntriesOwnSemaphores
  <2> QED BY <2>2, <2>3
<1>16. ASSUME NEW u \in SemUsers PROVE CallOK(u)'
  <2>1. CASE u = t
    BY <1>7, <2>1 DEF CallOK, Away
  <2>2. CASE u # t
    <3>1. user'[u] = user[u] /\ CallOK(u) /\ user[u].h # h
      BY <1>0, <1>2, <1>7, <2>2
    <3>2. user[u].h \in Holders => user[u].h \in Holders'
      BY <1>12
    <3>3. user[u].pc \in {"open", "release"} => \A w \in SemUsers \ {u} : user'[w].h # user[u].h
      BY <1>7, <3>1, NoSemNoEntry DEF CallOK, Away
    <3> QED BY <1>8, <1>13, <3>1, <3>2, <3>3 DEF CallOK
  <2> QED BY <2>1, <2>2
<1>17. \A i : Asleep(i)' = Asleep(i)
  BY <1>1, <1>7 DEF Asleep, Away
<1>18. SleepersCounted'
  <2>1. k # NoSem => Asleep(k) = {} /\ value'[k] >= 0
    <3>1. \A u \in SemUsers : user[u].pc = "asleep" => \E i \in Holders : user[u].sem = usr_sem_table[i].kernel_sem
      BY <1>0 DEF CallOK
    <3>2. k # NoSem => value'[k] >= 0
      BY <1>7, UsrSemAssumption
    <3> QED BY <1>14, <3>1, <3>2 DEF Asleep
  <2>2. ASSUME NEW j \in SemIds
        PROVE  /\ Asleep(j)' # {} => value'[j] = -Cardinality(Asleep(j)')
               /\ creator'[j] # Nobody /\ Asleep(j)' = {} => value'[j] >= 0
    <3>1. Asleep(j)' = Asleep(j)
      BY <1>17
    <3>2. CASE j = k
      BY <2>1, <3>1, <3>2, NoSemNoEntry
    <3>3. CASE j # k
      BY <1>0, <1>7, <3>1, <3>3 DEF SleepersCounted
    <3> QED BY <3>2, <3>3
  <2> QED BY <2>2 DEF SleepersCounted
<1> QED BY <1>9, <1>10, <1>15, <1>16, <1>18 DEF UsrSemInv

(* Every step preserves the invariant. *)
LEMMA UsrSemStep == UsrSemInv /\ [UsrSemNext]_usrSemVars => UsrSemInv'
<1> SUFFICES ASSUME UsrSemInv, [UsrSemNext]_usrSemVars PROVE UsrSemInv'
  OBVIOUS
<1>1. CASE UNCHANGED usrSemVars
  <2>1. UNCHANGED <<creator, value, next_sem, usr_sem_table, user, broken>>
    BY <1>1 DEF usrSemVars
  <2>2. /\ \A h : (Used(h)' <=> Used(h)) /\ (Halfway(h)' <=> Halfway(h)) /\ Asleep(h)' = Asleep(h)
        /\ Holders' = Holders
    BY <2>1 DEF Used, Halfway, Asleep, Holders
  <2> QED BY <2>1, <2>2 DEF UsrSemInv, UsrSemTypeOK, NamesUnique, EntriesOwnSemaphores, CallOK, SleepersCounted
<1>2. CASE UsrSemNext
  <2>1. broken = "no"
    BY <1>2 DEF UsrSemNext
  <2>2. PICK t \in SemUsers :
          \/ \E name \in ShortNames \cup LongNames : usr_sem_open(t, name)
          \/ \E v \in Values : usr_sem_open_kernel(t, v)
          \/ \E h \in UsrSems, call \in {"p", "v"} : usr_sem_find(t, h, call)
          \/ usr_sem_p(t)
          \/ usr_sem_v(t)
          \/ \E h \in UsrSems : usr_sem_destroy(t, h)
          \/ usr_sem_destroy_kernel(t)
          \/ usr_sem_destroy_entry(t)
    BY <1>2 DEF UsrSemNext
  <2> QED BY <2>1, <2>2, OpenStep, OpenKernelStep, FindStep, PStep, VStep, DestroyKernelStep, DestroyEntryStep
<1> QED BY <1>1, <1>2

(* Whatever the threads and the sizes of the two tables: until somebody      *)
(* loses the race that usr_sem_destroy warns of, or meets an entry that      *)
(* usr_sem_open has not given its semaphore yet, entries in use and reserved *)
(* kernel semaphores belong together one to one, and a semaphore's value     *)
(* counts exactly the threads that sleep in usr_sem_p.                       *)
THEOREM UsrSemInvariant == UsrSemSpec => []UsrSemInv
<1> QED BY UsrSemInitial, UsrSemStep, PTL DEF UsrSemSpec

-----------------------------------------------------------------------------
(* The allocator.  The heap is first looked at as a set of blocks: a call   *)
(* replaces some of them by others that hold the same words (Replaced), or  *)
(* adds words at its end (Grown).  What the calls do to the links of the    *)
(* free list comes second.                                                  *)

----------------------------------------------------------------------------
(* The heap as a set of blocks. *)

IsBlock(b) == b.addr \in Nat /\ b.size \in Nat /\ b.size >= 3

Holds(b, w) == b.addr <= w /\ w < b.addr + b.size

(* The blocks A hold every word below `end' once, and no other. *)
Divided(A, end) ==
    /\ \A b \in A : IsBlock(b)
    /\ \A w \in Nat : w < end <=> \E b \in A : Holds(b, w)
    /\ \A b, c \in A : b # c => \A w \in Nat : ~(Holds(b, w) /\ Holds(c, w))

(* The blocks N hold the words that the blocks J hold, each once. *)
SameWords(J, N) ==
    /\ \A b \in N : IsBlock(b)
    /\ \A w \in Nat : (\E b \in J : Holds(b, w)) <=> (\E b \in N : Holds(b, w))
    /\ \A b, c \in N : b # c => \A w \in Nat : ~(Holds(b, w) /\ Holds(c, w))

(* Blocks are apart when no word is in both. *)
LEMMA ApartMeaning ==
    ASSUME NEW b, NEW c, IsBlock(b), IsBlock(c)
    PROVE  Apart(b, c) <=> \A w \in Nat : ~(Holds(b, w) /\ Holds(c, w))
<1>1. ASSUME Apart(b, c), NEW w \in Nat PROVE ~(Holds(b, w) /\ Holds(c, w))
  BY <1>1 DEF Apart, Holds, IsBlock
<1>2. ASSUME ~Apart(b, c) PROVE \E w \in Nat : Holds(b, w) /\ Holds(c, w)
  <2>1. CASE b.addr <= c.addr
    <3>1. Holds(b, c.addr) /\ Holds(c, c.addr) /\ c.addr \in Nat
      BY <1>2, <2>1 DEF Apart, Holds, IsBlock
    <3> QED BY <3>1
  <2>2. CASE c.addr <= b.addr
    <3>1. Holds(b, b.addr) /\ Holds(c, b.addr) /\ b.addr \in Nat
      BY <1>2, <2>2 DEF Apart, Holds, IsBlock
    <3> QED BY <3>1
  <2> QED BY <2>1, <2>2 DEF IsBlock
<1> QED BY <1>1, <1>2

(* Blocks are replaced by others that hold the same words. *)
LEMMA Replaced ==
    ASSUME NEW A, NEW end \in Nat, Divided(A, end), NEW J \in SUBSET A, NEW N, SameWords(J, N)
    PROVE  Divided((A \ J) \cup N, end)
<1>1. \A b \in (A \ J) \cup N : IsBlock(b)
  BY DEF Divided, SameWords
<1>2. ASSUME NEW w \in Nat PROVE w < end <=> \E b \in (A \ J) \cup N : Holds(b, w)
  BY DEF Divided, SameWords
<1>3. ASSUME NEW b \in A \ J, NEW c \in N, NEW w \in Nat, Holds(b, w), Holds(c, w) PROVE FALSE
  <2>1. PICK d \in J : Holds(d, w)
    BY <1>3 DEF SameWords
  <2> QED BY <1>3, <2>1 DEF Divided
<1>4. ASSUME NEW b \in (A \ J) \cup N, NEW c \in (A \ J) \cup N, b # c, NEW w \in Nat
      PROVE  ~(Holds(b, w) /\ Holds(c, w))
  BY <1>3, <1>4 DEF Divided, SameWords
<1> QED BY <1>1, <1>2, <1>4 DEF Divided

(* A block is added at the end. *)
LEMMA Grown ==
    ASSUME NEW A, NEW end \in Nat, Divided(A, end), NEW n, IsBlock(n), n.addr = end
    PROVE  Divided(A \cup {n}, end + n.size)
<1>1. ASSUME NEW b \in A \cup {n} PROVE IsBlock(b)
  BY DEF Divided
<1>2. \A w \in Nat : Holds(n, w) <=> w >= end /\ w < end + n.size
  BY DEF Holds
<1>3. ASSUME NEW w \in Nat PROVE w < end + n.size <=> \E b \in A \cup {n} : Holds(b, w)
  <2>1. CASE w < end
    <3>1. w < end + n.size
      BY <2>1 DEF IsBlock
    <3>2. \E b \in A : Holds(b, w)
      BY <2>1 DEF Divided
    <3> QED BY <3>1, <3>2
  <2>2. CASE w >= end
    <3>1. ~ \E b \in A : Holds(b, w)
      BY <2>2 DEF Divided
    <3> QED BY <1>2, <2>2, <3>1
  <2> QED BY <2>1, <2>2
<1>4. ASSUME NEW b \in A, NEW w \in Nat, Holds(b, w) PROVE ~Holds(n, w)
  <2>1. w < end
    BY <1>4 DEF Divided
  <2> QED BY <1>2, <2>1
<1>5. ASSUME NEW b \in A \cup {n}, NEW c \in A \cup {n}, b # c, NEW w \in Nat
      PROVE  ~(Holds(b, w) /\ Holds(c, w))
  BY <1>4, <1>5 DEF Divided
<1> QED BY <1>1, <1>3, <1>5 DEF Divided

----------------------------------------------------------------------------
(* Lists. *)

FreeBlock == [addr : Nat, size : Nat]

Members(s) == {s[i] : i \in DOMAIN s}

(* A list in the order of addresses whose blocks do not touch. *)
Ordered(s) ==
    /\ s \in Seq(FreeBlock)
    /\ \A i, j \in DOMAIN s : i < j => s[i].addr + s[i].size < s[j].addr

(* The list s becomes t, an ordered list: some blocks go and others come. *)
Becomes(s, t, gone, new) == Ordered(t) /\ Members(t) = (Members(s) \ gone) \cup new

(* Length and elements of a list. *)
LEMMA ListElements ==
    ASSUME NEW S, NEW s \in Seq(S)
    PROVE  Len(s) \in Nat /\ DOMAIN s = 1 .. Len(s) /\ \A i \in DOMAIN s : s[i] \in S
  OBVIOUS

(* The n elements of t behind the first l are those of s behind its first k. *)
Copied(t, l, s, k, n) == \A i \in 1 .. n : t[l + i] = s[k + i]

(* The list t of l and k elements begins like a and goes on as b does. *)
Glued(S, t, a, b, l, k) ==
    t \in Seq(S) /\ DOMAIN t = 1 .. (l + k) /\ Copied(t, 0, a, 0, l) /\ Copied(t, l, b, 0, k)

(* The list t is s without the elements behind the l-th up to the n-th: k more follow. *)
Cut(S, t, s, l, n, k) ==
    t \in Seq(S) /\ DOMAIN t = 1 .. (l + k) /\ Copied(t, 0, s, 0, l) /\ Copied(t, l, s, n, k)

(* The same with x in their place. *)
CutWith(S, t, s, x, l, n, k) ==
    /\ t \in Seq(S) /\ DOMAIN t = 1 .. (l + 1 + k)
    /\ Copied(t, 0, s, 0, l) /\ t[l + 1] = x /\ Copied(t, l + 1, s, n, k)

(* The list t has x behind the l elements of a. *)
Added(S, t, a, x, l) ==
    t \in Seq(S) /\ Len(t) = l + 1 /\ t[l + 1] = x /\ Copied(t, 0, a, 0, l)

(* What the beginning of a list holds. *)
LEMMA BeginOf ==
    ASSUME NEW S, NEW s \in Seq(S), NEW n \in 0 .. Len(s)
    PROVE  /\ SubSeq(s, 1, n) \in Seq(S) /\ Len(SubSeq(s, 1, n)) = n
           /\ Copied(SubSeq(s, 1, n), 0, s, 0, n)
  BY DEF Copied

(* What the end of a list holds. *)
LEMMA EndOf ==
    ASSUME NEW S, NEW s \in Seq(S), NEW n \in 0 .. Len(s), NEW k \in Nat, k = Len(s) - n
    PROVE  /\ SubSeq(s, n + 1, Len(s)) \in Seq(S) /\ Len(SubSeq(s, n + 1, Len(s))) = k
           /\ Copied(SubSeq(s, n + 1, Len(s)), 0, s, n, k)
<1>1. Len(s) \in Nat
  OBVIOUS
<1>2. \A i \in 1 .. k : SubSeq(s, n + 1, Len(s))[i] = s[n + i]
  BY <1>1
<1> QED BY <1>1, <1>2 DEF Copied

(* What two lists hold when they are put together. *)
LEMMA PutTogether ==
    ASSUME NEW S, NEW a \in Seq(S), NEW b \in Seq(S), NEW l \in Nat, NEW k \in Nat, Len(a) = l, Len(b) = k
    PROVE  Glued(S, a \o b, a, b, l, k)
<1>1. a \o b \in Seq(S) /\ Len(a \o b) = l + k
  OBVIOUS
<1>2. DOMAIN (a \o b) = 1 .. (l + k)
  BY <1>1
<1>3. \A i \in 1 .. l : (a \o b)[i] = a[i]
  OBVIOUS
<1>4. \A i \in 1 .. k : (a \o b)[l + i] = b[i]
  OBVIOUS
<1>5. PICK t : t = a \o b
  OBVIOUS
<1>6. Copied(t, 0, a, 0, l)
  <2>1. \A i \in 1 .. l : 0 + i = i
    OBVIOUS
  <2> QED BY <1>3, <1>5, <2>1 DEF Copied
<1>7. Copied(t, l, b, 0, k)
  <2>1. \A i \in 1 .. k : 0 + i = i
    OBVIOUS
  <2> QED BY <1>4, <1>5, <2>1 DEF Copied
<1> QED BY <1>1, <1>2, <1>5, <1>6, <1>7 DEF Glued

(* A list to which x is added. *)
LEMMA AddedLast ==
    ASSUME NEW S, NEW a \in Seq(S), NEW x \in S, NEW l \in Nat, Len(a) = l
    PROVE  Added(S, a \o <<x>>, a, x, l)
  BY DEF Added, Copied

(* The elements behind the l-th up to the n-th are taken out. *)
LEMMA TakenOut ==
    ASSUME NEW S, NEW s \in Seq(S), NEW l \in 0 .. Len(s), NEW n \in 0 .. Len(s),
           NEW k \in Nat, k = Len(s) - n, NEW t, t = SubSeq(s, 1, l) \o SubSeq(s, n + 1, Len(s))
    PROVE  Cut(S, t, s, l, n, k)
<1> DEFINE a == SubSeq(s, 1, l)
           b == SubSeq(s, n + 1, Len(s))
<1>1. l \in Nat
  OBVIOUS
<1>2. a \in Seq(S) /\ Len(a) = l /\ Copied(a, 0, s, 0, l)
  BY BeginOf, Zenon
<1>3. b \in Seq(S) /\ Len(b) = k /\ Copied(b, 0, s, n, k)
  BY EndOf, Zenon
<1> HIDE DEF a, b
<1>4. Glued(S, a \o b, a, b, l, k)
  BY <1>1, <1>2, <1>3, PutTogether, Zenon
<1>5. Glued(S, t, a, b, l, k)
  BY <1>4, Zenon DEF a, b
<1>6. t \in Seq(S) /\ DOMAIN t = 1 .. (l + k) /\ Copied(t, 0, a, 0, l) /\ Copied(t, l, b, 0, k)
  BY <1>5 DEF Glued
<1>7. Copied(t, 0, s, 0, l)
  BY <1>2, <1>6, Zenon DEF Copied
<1>8. Copied(t, l, s, n, k)
  BY <1>3, <1>6, Zenon DEF Copied
<1> QED BY <1>6, <1>7, <1>8 DEF Cut

(* The elements behind the l-th up to the n-th are replaced by x. *)
LEMMA Spliced ==
    ASSUME NEW S, NEW s \in Seq(S), NEW x \in S, NEW l \in 0 .. Len(s), NEW n \in 0 .. Len(s),
           NEW k \in Nat, k = Len(s) - n, NEW t, t = SubSeq(s, 1, l) \o <<x>> \o SubSeq(s, n + 1, Len(s))
    PROVE  CutWith(S, t, s, x, l, n, k)
<1> DEFINE a == SubSeq(s, 1, l)
           b == SubSeq(s, n + 1, Len(s))
           c == a \o <<x>>
<1>1. l \in Nat /\ l + 1 \in Nat
  OBVIOUS
<1>2. a \in Seq(S) /\ Len(a) = l /\ Copied(a, 0, s, 0, l)
  BY BeginOf, Zenon
<1>3. b \in Seq(S) /\ Len(b) = k /\ Copied(b, 0, s, n, k)
  BY EndOf, Zenon
<1> HIDE DEF a, b
<1>4. c \in Seq(S) /\ Len(c) = l + 1 /\ c[l + 1] = x /\ Copied(c, 0, a, 0, l)
  <2>1. Added(S, c, a, x, l)
    BY <1>1, <1>2, AddedLast, Zenon
  <2> QED BY <2>1 DEF Added
<1> HIDE DEF c
<1>5. Glued(S, c \o b, c, b, l + 1, k)
  BY <1>1, <1>3, <1>4, PutTogether, Zenon
<1>6. Glued(S, t, c, b, l + 1, k)
  BY <1>5, Zenon DEF a, b, c
<1>7. t \in Seq(S) /\ DOMAIN t = 1 .. (l + 1 + k) /\ Copied(t, 0, c, 0, l + 1) /\ Copied(t, l + 1, b, 0, k)
  BY <1>6 DEF Glued
<1>8. \A i \in 1 .. l : i \in 1 .. (l + 1) /\ 0 + i = i
  BY <1>1
<1>9. l + 1 \in 1 .. (l + 1) /\ 0 + (l + 1) = l + 1
  BY <1>1
<1>10. t[l + 1] = x
  BY <1>4, <1>7, <1>9, Zenon DEF Copied
<1>11. Copied(t, 0, s, 0, l)
  BY <1>2, <1>4, <1>7, <1>8, Zenon DEF Copied
<1>12. Copied(t, l + 1, s, n, k)
  BY <1>3, <1>7, Zenon DEF Copied
<1> QED BY <1>7, <1>10, <1>11, <1>12 DEF CutWith

(* No block is twice in an ordered list. *)
LEMMA OrderedOnce ==
    ASSUME NEW s, Ordered(s), NEW i \in DOMAIN s, NEW j \in DOMAIN s, s[i] = s[j]
    PROVE  i = j
<1>1. i \in Nat /\ j \in Nat /\ s[i] \in FreeBlock
  BY ListElements DEF Ordered
<1>2. s[i].addr \in Nat /\ s[i].size \in Nat
  BY <1>1 DEF FreeBlock
<1>3. CASE i < j
  BY <1>2, <1>3 DEF Ordered
<1>4. CASE j < i
  BY <1>2, <1>4 DEF Ordered
<1> QED BY <1>1, <1>3, <1>4

(* What is left of an ordered list without some of its places. *)
LEMMA OrderedRest ==
    ASSUME NEW s, Ordered(s), NEW P \in SUBSET DOMAIN s
    PROVE  {s[i] : i \in DOMAIN s \ P} = Members(s) \ {s[i] : i \in P}
<1>1. ASSUME NEW i \in DOMAIN s \ P PROVE s[i] \in Members(s) \ {s[j] : j \in P}
  BY OrderedOnce DEF Members
<1>2. ASSUME NEW b \in Members(s), b \notin {s[i] : i \in P} PROVE b \in {s[i] : i \in DOMAIN s \ P}
  BY <1>2 DEF Members
<1> QED BY <1>1, <1>2

(* A block of the list becomes smaller. *)
LEMMA ShrunkList ==
    ASSUME NEW s, Ordered(s), NEW i \in DOMAIN s, NEW r \in FreeBlock,
           r.addr = s[i].addr, r.size <= s[i].size, NEW t, t = [s EXCEPT ![i] = r]
    PROVE  Becomes(s, t, {s[i]}, {r})
<1>1. s \in Seq(FreeBlock) /\ Len(s) \in Nat /\ DOMAIN s = 1 .. Len(s) /\ \A j \in DOMAIN s : s[j] \in FreeBlock
  BY ListElements DEF Ordered
<1>2. DOMAIN t = DOMAIN s /\ t[i] = r /\ \A j \in DOMAIN s : j # i => t[j] = s[j]
  OBVIOUS
<1>3. t \in Seq(FreeBlock)
  BY <1>1
<1>4. ASSUME NEW j \in DOMAIN s
      PROVE  /\ t[j].addr = s[j].addr /\ t[j].size <= s[j].size
             /\ s[j].addr \in Nat /\ s[j].size \in Nat /\ t[j].size \in Nat
  <2>1. s[j].addr \in Nat /\ s[j].size \in Nat /\ r.size \in Nat
    BY <1>1 DEF FreeBlock
  <2>2. CASE j = i
    BY <1>2, <2>1, <2>2
  <2>3. CASE j # i
    BY <1>2, <2>1, <2>3
  <2> QED BY <2>2, <2>3
<1>5. ASSUME NEW j \in DOMAIN t, NEW k \in DOMAIN t, j < k PROVE t[j].addr + t[j].size < t[k].addr
  <2>1. s[j].addr + s[j].size < s[k].addr
    BY <1>2, <1>5 DEF Ordered
  <2> QED BY <1>2, <1>4, <2>1
<1>6. Members(t) = {s[j] : j \in DOMAIN s \ {i}} \cup {r}
  BY <1>2 DEF Members
<1>7. {s[j] : j \in DOMAIN s \ {i}} = Members(s) \ {s[j] : j \in {i}}
  <2>1. PICK P \in SUBSET DOMAIN s : P = {i}
    OBVIOUS
  <2> QED BY <2>1, OrderedRest
<1> QED BY <1>3, <1>5, <1>6, <1>7 DEF Becomes, Ordered

(* What an ordered list holds, place by place. *)
LEMMA OrderedPlaces ==
    ASSUME NEW s, Ordered(s)
    PROVE  /\ s \in Seq(FreeBlock) /\ Len(s) \in Nat /\ DOMAIN s = 1 .. Len(s)
           /\ \A i \in DOMAIN s : s[i].addr \in Nat /\ s[i].size \in Nat
<1>1. s \in Seq(FreeBlock) /\ Len(s) \in Nat /\ DOMAIN s = 1 .. Len(s) /\ \A i \in DOMAIN s : s[i] \in FreeBlock
  BY ListElements DEF Ordered
<1>2. \A b \in FreeBlock : b.addr \in Nat /\ b.size \in Nat
  BY DEF FreeBlock
<1> QED BY <1>1, <1>2

(* How many elements are before the n-th and behind it. *)
LEMMA AroundOne ==
    ASSUME NEW len \in Nat, NEW n \in 1 .. len
    PROVE  \E l \in Nat, k \in Nat :
              /\ l \in 0 .. len /\ n \in 0 .. len /\ l = n - 1 /\ n = l + 1
              /\ k = len - n /\ len = l + 1 + k
<1>1. /\ n - 1 \in Nat /\ len - n \in Nat /\ n - 1 \in 0 .. len /\ n \in 0 .. len
      /\ n = (n - 1) + 1 /\ len = (n - 1) + 1 + (len - n)
  OBVIOUS
<1> QED BY <1>1, Zenon

(* A list without the block behind its first l. *)
LEMMA WithoutOne ==
    ASSUME NEW s, Ordered(s), NEW l \in Nat, NEW k \in Nat, Len(s) = l + 1 + k, NEW n, n = l + 1,
           NEW t, Cut(FreeBlock, t, s, l, n, k)
    PROVE  Becomes(s, t, {s[n]}, {})
<1>1. DOMAIN s = 1 .. Len(s) /\ n \in DOMAIN s
  BY OrderedPlaces
<1>2. Len(s) = l + 1 + k /\ n = l + 1
  OBVIOUS
<1>4. t \in Seq(FreeBlock) /\ DOMAIN t = 1 .. (l + k) /\ Copied(t, 0, s, 0, l) /\ Copied(t, l, s, n, k)
  BY DEF Cut
<1>5. ASSUME NEW i \in 1 .. (l + k)
      PROVE  \E p \in DOMAIN s : t[i] = s[p] /\ (i <= l => p = i) /\ (i > l => p = i + 1)
  <2>1. CASE i <= l
    <3>1. i \in 1 .. l /\ 0 + i = i /\ i \in DOMAIN s /\ ~(i > l)
      BY <1>1, <1>2, <2>1
    <3>2. t[i] = s[i]
      BY <1>4, <3>1 DEF Copied
    <3> QED BY <3>1, <3>2, Zenon
  <2>2. CASE i > l
    <3>1. i - l \in 1 .. k /\ l + (i - l) = i /\ n + (i - l) = i + 1 /\ i + 1 \in DOMAIN s /\ ~(i <= l)
      BY <1>1, <1>2, <2>2
    <3>2. t[i] = s[i + 1]
      BY <1>4, <3>1 DEF Copied
    <3> QED BY <3>1, <3>2, Zenon
  <2> QED BY <1>2, <2>1, <2>2
<1>6. ASSUME NEW i \in DOMAIN t, NEW j \in DOMAIN t, i < j PROVE t[i].addr + t[i].size < t[j].addr
  <2>1. i \in 1 .. (l + k) /\ j \in 1 .. (l + k) /\ i \in Nat /\ j \in Nat /\ l \in Nat
    BY <1>2, <1>4
  <2>2. PICK p \in DOMAIN s : t[i] = s[p] /\ (i <= l => p = i) /\ (i > l => p = i + 1)
    BY <1>5, <2>1
  <2>3. PICK q \in DOMAIN s : t[j] = s[q] /\ (j <= l => q = j) /\ (j > l => q = j + 1)
    BY <1>5, <2>1
  <2>4. p < q
    BY <1>6, <2>1, <2>2, <2>3
  <2> QED BY <2>2, <2>3, <2>4 DEF Ordered
<1>7. ASSUME NEW i \in DOMAIN t PROVE t[i] \in {s[j] : j \in DOMAIN s \ {n}}
  <2>1. i \in 1 .. (l + k) /\ i \in Nat /\ l \in Nat
    BY <1>2, <1>4
  <2>2. PICK p \in DOMAIN s : t[i] = s[p] /\ (i <= l => p = i) /\ (i > l => p = i + 1)
    BY <1>5, <2>1
  <2>3. p # n
    BY <1>2, <2>1, <2>2
  <2> QED BY <2>2, <2>3
<1>8. ASSUME NEW j \in DOMAIN s \ {n} PROVE s[j] \in Members(t)
  <2>1. j \in 1 .. (l + 1 + k) /\ j # l + 1
    BY <1>1, <1>2
  <2>2. CASE j <= l
    <3>1. j \in 1 .. (l + k)
      BY <1>2, <2>1, <2>2
    <3>2. t[j] = s[j]
      BY <1>5, <2>2, <3>1, <1>2
    <3> QED BY <1>4, <3>1, <3>2 DEF Members
  <2>3. CASE j > l
    <3>1. j - 1 \in 1 .. (l + k) /\ j - 1 > l /\ (j - 1) + 1 = j
      BY <1>2, <2>1, <2>3
    <3>2. t[j - 1] = s[j]
      BY <1>2, <1>5, <3>1
    <3> QED BY <1>4, <3>1, <3>2 DEF Members
  <2> QED BY <1>2, <2>1, <2>2, <2>3
<1>9. Members(t) = {s[j] : j \in DOMAIN s \ {n}}
  BY <1>7, <1>8 DEF Members
<1>10. {s[j] : j \in DOMAIN s \ {n}} = Members(s) \ {s[n]}
  <2>1. \A j \in DOMAIN s : j # n => s[j] # s[n]
    BY <1>1, OrderedOnce
  <2> QED BY <2>1 DEF Members
<1> QED BY <1>4, <1>6, <1>9, <1>10 DEF Becomes, Ordered

(* A block of the list is taken out. *)
LEMMA ShorterList ==
    ASSUME NEW s, Ordered(s), NEW n \in DOMAIN s, NEW t,
           t = SubSeq(s, 1, n - 1) \o SubSeq(s, n + 1, Len(s))
    PROVE  Becomes(s, t, {s[n]}, {})
<1>1. s \in Seq(FreeBlock) /\ Len(s) \in Nat /\ DOMAIN s = 1 .. Len(s)
  BY OrderedPlaces, Zenon
<1>2. PICK l \in Nat, k \in Nat :
        /\ l \in 0 .. Len(s) /\ n \in 0 .. Len(s) /\ l = n - 1 /\ n = l + 1
        /\ k = Len(s) - n /\ Len(s) = l + 1 + k
  <2>1. n \in 1 .. Len(s)
    BY <1>1, Zenon
  <2> QED BY <1>1, <2>1, AroundOne, Zenon
<1>3. t = SubSeq(s, 1, l) \o SubSeq(s, n + 1, Len(s))
  BY <1>2, Zenon
<1>4. Cut(FreeBlock, t, s, l, n, k)
  BY <1>1, <1>2, <1>3, TakenOut, Zenon
<1> QED BY <1>2, <1>4, WithoutOne, Zenon

(* A list with x in the place of the blocks behind the l-th up to the n-th. *)
LEMMA WithOne ==
    ASSUME NEW s, Ordered(s), NEW l \in Nat, NEW n \in Nat, l <= n, NEW k \in Nat, Len(s) = n + k,
           NEW x \in FreeBlock, NEW t, CutWith(FreeBlock, t, s, x, l, n, k),
           \A i \in 1 .. l : s[i].addr + s[i].size < x.addr,
           \A i \in (n + 1) .. Len(s) : x.addr + x.size < s[i].addr
    PROVE  Becomes(s, t, {s[i] : i \in (l + 1) .. n}, {x})
<1>1. Len(s) \in Nat /\ DOMAIN s = 1 .. Len(s) /\ l <= n /\ n <= Len(s)
  BY OrderedPlaces
<1>2. Len(s) = n + k
  OBVIOUS
<1>3. /\ t \in Seq(FreeBlock) /\ DOMAIN t = 1 .. (l + 1 + k)
      /\ Copied(t, 0, s, 0, l) /\ t[l + 1] = x /\ Copied(t, l + 1, s, n, k)
  BY DEF CutWith
<1>4. ASSUME NEW i \in 1 .. l PROVE t[i] = s[i] /\ i \in DOMAIN s
  <2>1. 0 + i = i /\ i \in DOMAIN s
    BY <1>1
  <2> QED BY <1>3, <2>1 DEF Copied
<1>5. ASSUME NEW i \in 1 .. k PROVE t[l + 1 + i] = s[n + i] /\ n + i \in (n + 1) .. Len(s) /\ n + i \in DOMAIN s
  <2>1. n + i \in (n + 1) .. Len(s) /\ n + i \in DOMAIN s
    BY <1>1, <1>2
  <2> QED BY <1>3, <2>1 DEF Copied
<1>6. ASSUME NEW i \in DOMAIN t
      PROVE  \/ i \in 1 .. l
             \/ i = l + 1
             \/ \E j \in 1 .. k : i = l + 1 + j
  <2>1. i \in 1 .. (l + 1 + k)
    BY <1>3
  <2>2. CASE i > l + 1
    <3>1. i - (l + 1) \in 1 .. k /\ i = l + 1 + (i - (l + 1))
      BY <1>1, <2>1, <2>2
    <3> QED BY <3>1
  <2> QED BY <1>1, <2>1, <2>2
<1>7. ASSUME NEW i \in DOMAIN t, NEW j \in DOMAIN t, i < j PROVE t[i].addr + t[i].size < t[j].addr
  <2>1. CASE i \in 1 .. l
    <3>1. CASE j \in 1 .. l
      BY <1>4, <1>7, <2>1, <3>1 DEF Ordered
    <3>2. CASE j = l + 1
      BY <1>3, <1>4, <2>1, <3>2
    <3>3. ASSUME NEW q \in 1 .. k, j = l + 1 + q PROVE t[i].addr + t[i].size < t[j].addr
      <4>1. i < n + q
        BY <1>1, <2>1
      <4> QED BY <1>4, <1>5, <2>1, <3>3, <4>1 DEF Ordered
    <3> QED BY <1>6, <3>1, <3>2, <3>3
  <2>2. CASE i = l + 1
    <3>1. PICK q \in 1 .. k : j = l + 1 + q
      BY <1>1, <1>6, <1>7, <2>2
    <3> QED BY <1>3, <1>5, <2>2, <3>1
  <2>3. ASSUME NEW p \in 1 .. k, i = l + 1 + p PROVE t[i].addr + t[i].size < t[j].addr
    <3>1. PICK q \in 1 .. k : j = l + 1 + q
      <4>1. j \notin 1 .. l /\ j # l + 1
        BY <1>7, <2>3
      <4> QED BY <1>6, <4>1
    <3>2. n + p < n + q
      BY <1>1, <1>7, <2>3, <3>1
    <3> QED BY <1>5, <2>3, <3>1, <3>2 DEF Ordered
  <2> QED BY <1>6, <2>1, <2>2, <2>3
<1>8. PICK P \in SUBSET DOMAIN s : P = (l + 1) .. n
  <2>1. (l + 1) .. n \in SUBSET DOMAIN s
    BY <1>1
  <2> QED BY <2>1
<1>9. ASSUME NEW i \in DOMAIN t PROVE t[i] \in {s[j] : j \in DOMAIN s \ P} \cup {x}
  <2>1. CASE i \in 1 .. l
    <3>1. i \notin P
      BY <1>1, <1>8, <2>1
    <3> QED BY <1>4, <2>1, <3>1
  <2>2. CASE i = l + 1
    BY <1>3, <2>2
  <2>3. ASSUME NEW j \in 1 .. k, i = l + 1 + j PROVE t[i] \in {s[q] : q \in DOMAIN s \ P} \cup {x}
    <3>1. n + j \notin P
      BY <1>1, <1>8
    <3> QED BY <1>5, <2>3, <3>1
  <2> QED BY <1>6, <2>1, <2>2, <2>3
<1>10. ASSUME NEW j \in DOMAIN s \ P PROVE s[j] \in Members(t)
  <2>1. j \in Nat /\ j >= 1 /\ j <= Len(s) /\ ~(l + 1 <= j /\ j <= n)
    BY <1>1, <1>8
  <2>2. CASE j <= l
    <3>1. j \in 1 .. l /\ j \in DOMAIN t
      BY <1>1, <1>3, <2>1, <2>2
    <3> QED BY <1>4, <3>1 DEF Members
  <2>3. CASE j > n
    <3>1. PICK q \in 1 .. k : j = n + q
      <4>1. j - n \in 1 .. k /\ j = n + (j - n)
        BY <1>1, <1>2, <2>1, <2>3
      <4> QED BY <4>1
    <3>2. l + 1 + q \in DOMAIN t
      BY <1>1, <1>3
    <3> QED BY <1>5, <3>1, <3>2 DEF Members
  <2> QED BY <1>1, <2>1, <2>2, <2>3
<1>11. x \in Members(t)
  <2>1. l + 1 \in DOMAIN t
    BY <1>1, <1>3
  <2> QED BY <1>3, <2>1 DEF Members
<1>12. Members(t) = {s[j] : j \in DOMAIN s \ P} \cup {x}
  BY <1>9, <1>10, <1>11 DEF Members
<1>13. {s[j] : j \in DOMAIN s \ P} = Members(s) \ {s[j] : j \in P}
  BY OrderedRest
<1> QED BY <1>3, <1>7, <1>8, <1>12, <1>13 DEF Becomes, Ordered

(* The blocks behind the l-th up to the n-th become one. *)
LEMMA JoinedList ==
    ASSUME NEW s, Ordered(s), NEW l \in 0 .. Len(s), NEW n \in l .. Len(s), NEW x \in FreeBlock, NEW t,
           t = SubSeq(s, 1, l) \o <<x>> \o SubSeq(s, n + 1, Len(s)),
           \A i \in 1 .. l : s[i].addr + s[i].size < x.addr,
           \A i \in (n + 1) .. Len(s) : x.addr + x.size < s[i].addr
    PROVE  Becomes(s, t, {s[i] : i \in (l + 1) .. n}, {x})
<1>1. s \in Seq(FreeBlock) /\ Len(s) \in Nat
  BY OrderedPlaces, Zenon
<1>2. l \in Nat /\ n \in Nat /\ l <= n /\ n \in 0 .. Len(s)
  BY <1>1
<1>3. PICK k \in Nat : k = Len(s) - n /\ Len(s) = n + k
  <2>1. Len(s) - n \in Nat /\ Len(s) = n + (Len(s) - n)
    BY <1>1, <1>2
  <2> QED BY <2>1, Zenon
<1>4. CutWith(FreeBlock, t, s, x, l, n, k)
  BY <1>1, <1>2, <1>3, Spliced, Zenon
<1> QED BY <1>2, <1>3, <1>4, WithOne, Zenon

----------------------------------------------------------------------------
(* The allocator. *)

UsedBlock == [addr : Nat, size : Nat, bytes : Nat]

(* Blocks have room for the bytes that were asked for. *)
Roomy(B) == \A b \in B : (b.size - 1) * 4 >= b.bytes

(* The inductive invariant: the free list is ordered, and the blocks of the  *)
(* list and of the program divide the heap.                                  *)
HeapOK ==
    /\ heap_end \in Nat /\ blocks \subseteq UsedBlock /\ moving \in blocks \cup {NoBlock}
    /\ Roomy(blocks) /\ Ordered(free_list)
    /\ Divided(Members(free_list) \cup blocks, heap_end)

(* A free block is never a block of the program. *)
LEMMA NotBoth ==
    ASSUME NEW b \in FreeBlock, NEW c \in UsedBlock
    PROVE  b # c
<1>1. DOMAIN b = {"addr", "size"} /\ DOMAIN c = {"addr", "size", "bytes"}
  BY DEF FreeBlock, UsedBlock
<1> QED BY <1>1

(* The blocks of an ordered list are free blocks. *)
LEMMA OrderedBlocks ==
    ASSUME NEW s, Ordered(s), NEW b \in Members(s)
    PROVE  b \in FreeBlock
  BY ListElements DEF Members, Ordered

(* What the invariant says of a block. *)
LEMMA BlockFacts ==
    ASSUME HeapOK
    PROVE  /\ \A b \in Members(free_list) : b \in FreeBlock /\ IsBlock(b) /\ b \notin blocks
           /\ \A b \in blocks : b \in UsedBlock /\ IsBlock(b) /\ b \notin Members(free_list)
<1>1. \A b \in Members(free_list) : b \in FreeBlock
  BY OrderedBlocks DEF HeapOK
<1>2. \A b \in blocks : b \in UsedBlock
  BY DEF HeapOK
<1>3. \A b \in Members(free_list) \cup blocks : IsBlock(b)
  BY DEF HeapOK, Divided
<1>4. \A b \in Members(free_list), c \in blocks : b # c
  BY <1>1, <1>2, NotBoth
<1> QED BY <1>1, <1>2, <1>3, <1>4

(* What the invariant of the module says, block by block. *)
LEMMA InvariantMeans == HeapOK => MallocInv
<1> SUFFICES ASSUME HeapOK PROVE MallocInv
  OBVIOUS
<1> DEFINE all == FreeBlocks \cup blocks
<1>1. FreeBlocks = Members(free_list)
  BY DEF FreeBlocks, Members
<1>2. /\ heap_end \in Nat /\ \A b \in all : IsBlock(b)
      /\ \A w \in Nat : w < heap_end <=> \E b \in all : Holds(b, w)
      /\ \A b, c \in all : b # c => \A w \in Nat : ~(Holds(b, w) /\ Holds(c, w))
  BY <1>1 DEF HeapOK, Divided
<1>3. MallocTypeOK
  BY DEF HeapOK, Ordered, MallocTypeOK, FreeBlock, UsedBlock
<1>4. FreeListJoined
  BY DEF HeapOK, Ordered, FreeListJoined
<1>5. BlocksBigEnough
  <2>1. \A b \in all : b.size >= 3
    BY <1>2 DEF IsBlock
  <2>2. \A b \in blocks : (b.size - 1) * 4 >= b.bytes
    BY DEF HeapOK, Roomy
  <2> QED BY <2>1, <2>2 DEF BlocksBigEnough, MinAlloc, Header, WordSize
<1> HIDE DEF all
<1>6. UNION {Words(b) : b \in all} = 0 .. (heap_end - 1)
  <2>1. ASSUME NEW b \in all, NEW w \in Words(b) PROVE w \in Nat /\ Holds(b, w)
    BY <1>2 DEF Words, IsBlock, Holds
  <2>2. ASSUME NEW b \in all, NEW w \in Nat, Holds(b, w) PROVE w \in Words(b)
    BY <1>2, <2>2 DEF Words, IsBlock, Holds
  <2>3. ASSUME NEW w \in UNION {Words(b) : b \in all} PROVE w \in 0 .. (heap_end - 1)
    <3>1. PICK b \in all : w \in Words(b)
      OBVIOUS
    <3>2. w \in Nat /\ w < heap_end
      BY <1>2, <2>1, <3>1
    <3> QED BY <1>2, <3>2
  <2>4. ASSUME NEW w \in 0 .. (heap_end - 1) PROVE w \in UNION {Words(b) : b \in all}
    <3>1. w \in Nat /\ w < heap_end
      BY <1>2
    <3>2. PICK b \in all : Holds(b, w)
      BY <1>2, <3>1
    <3> QED BY <2>2, <3>1, <3>2
  <2> QED BY <2>3, <2>4
<1>7. \A b, c \in all : b # c => Apart(b, c)
  BY <1>2, ApartMeaning
<1>8. \A b \in blocks, c \in FreeBlocks : Apart(b, c)
  BY <1>1, <1>7, BlockFacts DEF all
<1>9. \A b, c \in blocks : b # c => Apart(b, c)
  BY <1>7 DEF all
<1> QED BY <1>3, <1>4, <1>5, <1>6, <1>8, <1>9 DEF MallocInv, HeapPartitioned, all

(* The heap is empty at first. *)
LEMMA MallocInitial == MallocInit => HeapOK
<1> SUFFICES ASSUME MallocInit PROVE HeapOK
  OBVIOUS
<1>1. free_list = <<>> /\ heap_end = 0 /\ blocks = {} /\ moving = NoBlock
  BY DEF MallocInit
<1>2. Ordered(free_list) /\ Members(free_list) = {}
  BY <1>1 DEF Ordered, Members
<1>3. Divided({}, 0)
  BY DEF Divided
<1>4. Members(free_list) \cup blocks = {}
  BY <1>1, <1>2
<1> QED BY <1>1, <1>2, <1>3, <1>4 DEF HeapOK, Roomy

(* A call that replaces blocks by others with the same words preserves it. *)
LEMMA ReplaceStep ==
    ASSUME HeapOK, heap_end' = heap_end, moving' \in blocks' \cup {NoBlock},
           NEW gone \in SUBSET Members(free_list), NEW new, Becomes(free_list, free_list', gone, new),
           NEW less \in SUBSET blocks, NEW more \in SUBSET UsedBlock, blocks' = (blocks \ less) \cup more,
           Roomy(more), SameWords(gone \cup less, new \cup more)
    PROVE  HeapOK'
<1>1. PICK A, J, N : A = Members(free_list) \cup blocks /\ J = gone \cup less /\ N = new \cup more
  OBVIOUS
<1>2. Divided(A, heap_end) /\ J \in SUBSET A /\ heap_end \in Nat
  BY <1>1 DEF HeapOK
<1>3. Divided((A \ J) \cup N, heap_end)
  <2>1. PICK end \in Nat : end = heap_end
    BY <1>2
  <2>2. SameWords(J, N)
    BY <1>1, Zenon
  <2>3. Divided(A, end) /\ J \in SUBSET A
    BY <1>2, <2>1
  <2>4. Divided((A \ J) \cup N, end)
    BY <2>2, <2>3, Replaced, Zenon
  <2> QED BY <2>1, <2>4
<1>4. Ordered(free_list') /\ Members(free_list') = (Members(free_list) \ gone) \cup new
  BY DEF Becomes
<1>5. Members(free_list') \cup blocks' = (A \ J) \cup N
  BY <1>1, <1>4, BlockFacts
<1>6. blocks' \subseteq UsedBlock /\ Roomy(blocks')
  BY DEF HeapOK, Roomy
<1>7. Divided(Members(free_list') \cup blocks', heap_end')
  BY <1>3, <1>5
<1> QED BY <1>2, <1>4, <1>6, <1>7 DEF HeapOK

(* malloc asks for enough words. *)
LEMMA EnoughWords ==
    ASSUME NEW bytes \in Nat
    PROVE  WordsFor(bytes) \in Nat /\ WordsFor(bytes) >= 2 /\ WordsFor(bytes) * 4 >= bytes
<1> DEFINE q == (bytes + WordSize - 1) \div WordSize
<1>1. q \in Nat /\ q * 4 >= bytes
  BY DEF WordSize
<1> HIDE DEF q
<1>2. \E x \in {MinAlloc, q} : \A y \in {MinAlloc, q} : x >= y
  BY <1>1 DEF MinAlloc
<1>3. Max({MinAlloc, q}) \in {MinAlloc, q} /\ \A y \in {MinAlloc, q} : Max({MinAlloc, q}) >= y
  BY <1>2 DEF Max
<1>4. WordsFor(bytes) = Max({MinAlloc, q})
  BY DEF WordsFor, q
<1> QED BY <1>1, <1>3, <1>4 DEF MinAlloc

(* A new block of the program. *)
Fresh(n, addr, size, bytes) == n \in UsedBlock /\ n.addr = addr /\ n.size = size /\ n.bytes = bytes

(* malloc returns such a block. *)
LEMMA NewBlock ==
    ASSUME NEW addr \in Nat, NEW size \in Nat, NEW bytes \in Nat
    PROVE  Fresh(Block(addr, size, bytes), addr, size, bytes)
  BY DEF Block, UsedBlock, Fresh

(* The heap grows by the new block. *)
LEMMA GrowStep ==
    ASSUME HeapOK, NEW bytes \in Nat, malloc_from_system(bytes), moving' \in blocks' \cup {NoBlock}
    PROVE  HeapOK'
<1>1. PICK words \in Nat, end \in Nat :
        words = WordsFor(bytes) /\ words >= 2 /\ words * 4 >= bytes /\ end = heap_end
  BY EnoughWords DEF HeapOK
<1>2. PICK n \in UsedBlock :
        n = Block(end, words + 1, bytes) /\ n.addr = end /\ n.size = words + 1 /\ n.bytes = bytes
  <2>1. words + 1 \in Nat
    OBVIOUS
  <2>2. Fresh(Block(end, words + 1, bytes), end, words + 1, bytes)
    BY <2>1, NewBlock, Zenon
  <2> QED BY <2>2, Zenon DEF Fresh
<1>3. blocks' = blocks \cup {n} /\ heap_end' = end + (words + 1) /\ free_list' = free_list
  BY <1>1, <1>2 DEF malloc_from_system, Header
<1>4. IsBlock(n)
  BY <1>1, <1>2 DEF IsBlock
<1>5. Divided((Members(free_list) \cup blocks) \cup {n}, end + n.size)
  <2>1. PICK A : A = Members(free_list) \cup blocks
    OBVIOUS
  <2>2. Divided(A, end)
    BY <1>1, <2>1 DEF HeapOK
  <2> QED BY <1>2, <1>4, <2>1, <2>2, Grown
<1>6. (Members(free_list) \cup blocks) \cup {n} = Members(free_list') \cup blocks'
  BY <1>3
<1>7. Divided(Members(free_list') \cup blocks', heap_end')
  BY <1>2, <1>3, <1>5, <1>6
<1>8. blocks' \subseteq UsedBlock /\ Roomy(blocks')
  BY <1>1, <1>2, <1>3 DEF HeapOK, Roomy
<1>9. heap_end' \in Nat /\ Ordered(free_list')
  BY <1>3 DEF HeapOK
<1> QED BY <1>7, <1>8, <1>9 DEF HeapOK

(* A free block is split: its end becomes the new block. *)
LEMMA SplitStep ==
    ASSUME HeapOK, NEW bytes \in Nat, NEW i \in DOMAIN free_list, moving' \in blocks' \cup {NoBlock},
           NEW words \in Nat, words >= 2, words * 4 >= bytes, NEW b, b = free_list[i],
           Splits(b, words), free_list' = [free_list EXCEPT ![i].size = Rest(b, words + Header)],
           blocks' = blocks \cup {Block(b.addr + Rest(b, words + Header), words + Header, bytes)},
           heap_end' = heap_end
    PROVE  HeapOK'
<1>1. b \in Members(free_list) /\ b \in FreeBlock /\ IsBlock(b) /\ b.addr \in Nat /\ b.size \in Nat
  <2>1. b \in Members(free_list)
    BY DEF Members
  <2> QED BY <2>1, BlockFacts DEF IsBlock
<1>2. PICK rest \in Nat : rest = b.size - (words + 1) /\ rest >= 3 /\ b.size = rest + (words + 1)
  BY <1>1 DEF Splits, MinAlloc, Header
<1>3. Rest(b, words + Header) = rest /\ words + Header = words + 1
  BY <1>2 DEF Rest, Header
<1>4. PICK r \in FreeBlock : r = [b EXCEPT !.size = rest] /\ r.addr = b.addr /\ r.size = rest
  <2>1. [addr |-> b.addr, size |-> rest] \in FreeBlock
    BY <1>1 DEF FreeBlock
  <2>2. [addr |-> b.addr, size |-> rest] = [b EXCEPT !.size = rest]
    BY <1>1 DEF FreeBlock
  <2> QED BY <2>1, <2>2
<1>5. PICK n \in UsedBlock : /\ n = Block(b.addr + rest, words + 1, bytes)
                             /\ n.addr = b.addr + rest /\ n.size = words + 1 /\ n.bytes = bytes
  <2>1. words + 1 \in Nat /\ b.addr + rest \in Nat
    BY <1>1
  <2>2. Fresh(Block(b.addr + rest, words + 1, bytes), b.addr + rest, words + 1, bytes)
    BY <2>1, NewBlock, Zenon
  <2> QED BY <2>2, Zenon DEF Fresh
<1>6. free_list' = [free_list EXCEPT ![i] = r]
  BY <1>3, <1>4
<1>7. Becomes(free_list, free_list', {b}, {r})
  <2>1. PICK s, t : s = free_list /\ t = free_list'
    OBVIOUS
  <2>2. Ordered(s) /\ i \in DOMAIN s /\ b = s[i] /\ t = [s EXCEPT ![i] = r]
    BY <1>6, <2>1, Zenon DEF HeapOK
  <2>3. r.addr = b.addr /\ r.size <= b.size
    BY <1>1, <1>2, <1>4
  <2>4. Becomes(s, t, {s[i]}, {r})
    BY <2>2, <2>3, ShrunkList, Zenon
  <2> QED BY <2>1, <2>2, <2>4, Zenon
<1>8. blocks' = (blocks \ {}) \cup {n}
  BY <1>3, <1>5
<1>9. Roomy({n}) /\ \A c \in {r} \cup {n} : IsBlock(c)
  BY <1>1, <1>2, <1>4, <1>5 DEF IsBlock, Roomy
<1>10. \A w \in Nat : Holds(b, w) <=> Holds(r, w) \/ Holds(n, w)
  BY <1>1, <1>2, <1>4, <1>5 DEF Holds
<1>11. \A w \in Nat : ~(Holds(r, w) /\ Holds(n, w))
  BY <1>1, <1>2, <1>4, <1>5 DEF Holds
<1>12. \A w \in Nat : (\E c \in {b} \cup {} : Holds(c, w)) <=> (\E c \in {r} \cup {n} : Holds(c, w))
  BY <1>10, Zenon
<1>13. \A c, d \in {r} \cup {n} : c # d => \A w \in Nat : ~(Holds(c, w) /\ Holds(d, w))
  BY <1>11, Zenon
<1>14. {b} \in SUBSET Members(free_list) /\ {} \in SUBSET blocks /\ {n} \in SUBSET UsedBlock
  BY <1>1
<1>15. SameWords({b} \cup {}, {r} \cup {n})
  BY <1>9, <1>12, <1>13 DEF SameWords
<1> QED BY <1>7, <1>8, <1>9, <1>14, <1>15, ReplaceStep, Zenon

(* A free block that is just big enough is used as it is. *)
LEMMA WholeStep ==
    ASSUME HeapOK, NEW bytes \in Nat, NEW i \in DOMAIN free_list, moving' \in blocks' \cup {NoBlock},
           NEW words \in Nat, words * 4 >= bytes, NEW b, b = free_list[i], b.size >= words + Header,
           free_list' = SubSeq(free_list, 1, i - 1) \o SubSeq(free_list, i + 1, Len(free_list)),
           blocks' = blocks \cup {Block(b.addr, b.size, bytes)},
           heap_end' = heap_end
    PROVE  HeapOK'
<1>1. b \in Members(free_list) /\ IsBlock(b) /\ b.addr \in Nat /\ b.size \in Nat
  <2>1. b \in Members(free_list)
    BY Zenon DEF Members
  <2> QED BY <2>1, BlockFacts, Zenon DEF IsBlock
<1>2. PICK n \in UsedBlock : /\ n = Block(b.addr, b.size, bytes)
                             /\ n.addr = b.addr /\ n.size = b.size /\ n.bytes = bytes
  <2>1. PICK addr \in Nat, size \in Nat : addr = b.addr /\ size = b.size
    BY <1>1, Zenon
  <2>2. Fresh(Block(addr, size, bytes), addr, size, bytes)
    BY NewBlock, Zenon
  <2> QED BY <2>1, <2>2, Zenon DEF Fresh
<1>3. Becomes(free_list, free_list', {b}, {})
  <2>1. PICK s, t : s = free_list /\ t = free_list'
    OBVIOUS
  <2>2. Ordered(s) /\ i \in DOMAIN s /\ t = SubSeq(s, 1, i - 1) \o SubSeq(s, i + 1, Len(s))
    BY <2>1, Zenon DEF HeapOK
  <2>3. Becomes(s, t, {s[i]}, {})
    BY <2>2, ShorterList, Zenon
  <2> QED BY <2>1, <2>3, Zenon
<1>4. blocks' = (blocks \ {}) \cup {n}
  BY <1>2
<1>5. Roomy({n}) /\ IsBlock(n)
  BY <1>1, <1>2 DEF IsBlock, Header, Roomy
<1>6. \A w \in Nat : Holds(b, w) <=> Holds(n, w)
  BY <1>2 DEF Holds
<1>7. \A w \in Nat : (\E c \in {b} \cup {} : Holds(c, w)) <=> (\E c \in {} \cup {n} : Holds(c, w))
  BY <1>6, Zenon
<1>8. \A c, d \in {} \cup {n} : c # d => \A w \in Nat : ~(Holds(c, w) /\ Holds(d, w))
  BY Zenon
<1>9. {b} \in SUBSET Members(free_list) /\ {} \in SUBSET blocks /\ {n} \in SUBSET UsedBlock
  BY <1>1
<1>10. SameWords({b} \cup {}, {} \cup {n})
  BY <1>5, <1>7, <1>8, Zenon DEF SameWords
<1> QED BY <1>3, <1>4, <1>5, <1>9, <1>10, ReplaceStep, Zenon

(* malloc takes words that are free, or new ones. *)
LEMMA MallocStep ==
    ASSUME HeapOK, NEW bytes \in Nat, malloc(bytes), moving' \in blocks' \cup {NoBlock}
    PROVE  HeapOK'
<1>1. CASE malloc_from_system(bytes)
  BY <1>1, GrowStep
<1>2. CASE malloc_from_list(bytes)
  <2>1. PICK words \in Nat : words = WordsFor(bytes) /\ words >= 2 /\ words * 4 >= bytes
    BY EnoughWords
  <2>2. PICK fit : fit = {i \in DOMAIN free_list : Fits(free_list[i], words)}
    OBVIOUS
  <2>3. fit \in SUBSET Nat /\ fit # {}
    <3>1. DOMAIN free_list \subseteq Nat
      BY OrderedPlaces DEF HeapOK
    <3> QED BY <1>2, <2>1, <2>2, <3>1 DEF malloc_from_list
  <2>4. Min(fit) \in fit
    BY <2>3, MinIsLeast
  <2>5. PICK i \in DOMAIN free_list : i = Min(fit) /\ Fits(free_list[i], words)
    BY <2>2, <2>4
  <2> DEFINE b == free_list[i]
  <2>6. heap_end' = heap_end
    BY <1>2 DEF malloc_from_list
  <2>7. \/ /\ Splits(b, words)
           /\ free_list' = [free_list EXCEPT ![i].size = Rest(b, words + Header)]
           /\ blocks' = blocks \cup {Block(b.addr + Rest(b, words + Header), words + Header, bytes)}
        \/ /\ ~Splits(b, words)
           /\ free_list' = SubSeq(free_list, 1, i - 1) \o SubSeq(free_list, i + 1, Len(free_list))
           /\ blocks' = blocks \cup {Block(b.addr, b.size, bytes)}
    BY <1>2, <2>1, <2>2, <2>5, Zenon DEF malloc_from_list
  <2>8. CASE Splits(b, words)
    BY <2>1, <2>5, <2>6, <2>7, <2>8, SplitStep, Zenon
  <2>9. CASE ~Splits(b, words)
    <3>1. b.size >= words + Header
      BY <2>5, <2>9 DEF Fits
    <3> QED BY <2>1, <2>5, <2>6, <2>7, <2>9, <3>1, WholeStep, Zenon
  <2> QED BY <2>8, <2>9
<1> QED BY <1>1, <1>2 DEF malloc

(* The place of a freed block: behind the blocks below it, before those above. *)
LEMMA PlaceSplits ==
    ASSUME HeapOK, NEW block \in blocks
    PROVE  /\ Place(block) \in 1 .. (Len(free_list) + 1)
           /\ \A i \in 1 .. (Place(block) - 1) : free_list[i].addr + free_list[i].size <= block.addr
           /\ \A i \in Place(block) .. Len(free_list) : block.addr + block.size <= free_list[i].addr
<1>1. /\ Len(free_list) \in Nat /\ DOMAIN free_list = 1 .. Len(free_list)
      /\ \A i \in DOMAIN free_list : free_list[i].addr \in Nat /\ free_list[i].size \in Nat
  BY OrderedPlaces DEF HeapOK
<1>2. PICK P \in SUBSET Nat :
        P = {i \in DOMAIN free_list : free_list[i].addr > block.addr} \cup {Len(free_list) + 1}
  <2>1. {i \in DOMAIN free_list : free_list[i].addr > block.addr} \cup {Len(free_list) + 1} \in SUBSET Nat
    BY <1>1
  <2> QED BY <2>1, Zenon
<1>3. PICK pos : pos = Place(block) /\ pos \in P /\ \A y \in P : pos <= y
  BY <1>2, MinIsLeast DEF Place
<1>4. pos \in 1 .. (Len(free_list) + 1)
  BY <1>1, <1>2, <1>3
<1>5. block.addr \in Nat /\ block.size \in Nat /\ block.size >= 3
  BY BlockFacts DEF IsBlock
<1>6. ASSUME NEW i \in DOMAIN free_list
      PROVE  \/ block.addr + block.size <= free_list[i].addr
             \/ free_list[i].addr + free_list[i].size <= block.addr
  <2>1. PICK b : b = free_list[i] /\ b \in Members(free_list)
    BY DEF Members
  <2>2. IsBlock(b) /\ IsBlock(block) /\ b # block
    BY <2>1, BlockFacts
  <2>3. \A w \in Nat : ~(Holds(block, w) /\ Holds(b, w))
    BY <2>1, <2>2 DEF HeapOK, Divided
  <2>4. Apart(block, b)
    BY <2>2, <2>3, ApartMeaning
  <2> QED BY <2>1, <2>4 DEF Apart
<1>7. ASSUME NEW i \in 1 .. (pos - 1) PROVE free_list[i].addr + free_list[i].size <= block.addr
  <2>1. i \in DOMAIN free_list /\ i \notin P
    BY <1>1, <1>3, <1>4
  <2>2. ~(free_list[i].addr > block.addr)
    BY <1>2, <2>1
  <2> QED BY <1>1, <1>5, <1>6, <2>1, <2>2
<1>8. ASSUME NEW i \in pos .. Len(free_list) PROVE block.addr + block.size <= free_list[i].addr
  <2>1. i \in DOMAIN free_list /\ pos \in DOMAIN free_list /\ pos # Len(free_list) + 1 /\ pos <= i /\ pos \in Nat /\ i \in Nat
    BY <1>1, <1>4
  <2>2. free_list[pos].addr > block.addr
    BY <1>2, <1>3, <2>1
  <2>3. free_list[i].addr > block.addr
    <3>1. CASE i = pos
      BY <2>2, <3>1
    <3>2. CASE pos < i
      <4>1. free_list[pos].addr + free_list[pos].size < free_list[i].addr
        BY <2>1, <3>2 DEF HeapOK, Ordered
      <4> QED BY <1>1, <1>5, <2>1, <2>2, <4>1
    <3> QED BY <2>1, <3>1, <3>2
  <2> QED BY <1>1, <1>5, <1>6, <2>1, <2>3
<1> QED BY <1>3, <1>4, <1>7, <1>8

(* A block that consists of two. *)
LEMMA WordsOfTwo ==
    ASSUME NEW b, IsBlock(b), NEW c, IsBlock(c), b.addr + b.size = c.addr,
           NEW x, x.addr = b.addr, x.size = b.size + c.size
    PROVE  \A w \in Nat : Holds(x, w) <=> Holds(b, w) \/ Holds(c, w)
  BY DEF Holds, IsBlock

(* A list of blocks, and the place of a block in it. *)
HasPlace(s, block, pos) ==
    /\ Ordered(s) /\ (\A i \in DOMAIN s : IsBlock(s[i])) /\ IsBlock(block)
    /\ pos \in 1 .. (Len(s) + 1)
    /\ \A i \in 1 .. (pos - 1) : s[i].addr + s[i].size <= block.addr
    /\ \A i \in pos .. Len(s) : block.addr + block.size <= s[i].addr

(* What joining with the block before it gives. *)
JoinsBefore(s, block, pos, l, x) ==
    \/ pos > 1 /\ Touch(s[pos - 1], block) /\ l = pos - 2 /\ x = With(s[pos - 1], block)
    \/ ~(pos > 1 /\ Touch(s[pos - 1], block)) /\ l = pos - 1 /\ x = [addr |-> block.addr, size |-> block.size]

JoinOK(s, block, pos, l, x) ==
    /\ l \in 0 .. (pos - 1) /\ x \in FreeBlock /\ IsBlock(x)
    /\ x.addr + x.size = block.addr + block.size
    /\ \A i \in 1 .. l : s[i].addr + s[i].size < x.addr
    /\ \A w \in Nat : Holds(x, w) <=> Holds(block, w) \/ \E i \in (l + 1) .. (pos - 1) : Holds(s[i], w)

(* The freed block and the block before it, if they touch: below it are the  *)
(* first l blocks of the list, and none of them touches it.                  *)
LEMMA JoinedBefore ==
    ASSUME NEW s, NEW block, NEW pos, HasPlace(s, block, pos), NEW l, NEW x, JoinsBefore(s, block, pos, l, x)
    PROVE  JoinOK(s, block, pos, l, x)
<1>0. /\ Ordered(s) /\ (\A i \in DOMAIN s : IsBlock(s[i])) /\ IsBlock(block)
      /\ pos \in 1 .. (Len(s) + 1)
      /\ \A i \in 1 .. (pos - 1) : s[i].addr + s[i].size <= block.addr
  BY Zenon DEF HasPlace
<1>1. /\ Len(s) \in Nat /\ DOMAIN s = 1 .. Len(s) /\ pos \in Nat /\ pos >= 1 /\ pos <= Len(s) + 1
      /\ \A i \in DOMAIN s : s[i].addr \in Nat /\ s[i].size \in Nat /\ s[i].size >= 3
      /\ block.addr \in Nat /\ block.size \in Nat /\ block.size >= 3
  BY <1>0, OrderedPlaces DEF IsBlock
<1>2. CASE pos > 1 /\ Touch(s[pos - 1], block) /\ l = pos - 2 /\ x = With(s[pos - 1], block)
  <2>1. PICK b : b = s[pos - 1]
    OBVIOUS
  <2>2. pos - 1 \in DOMAIN s /\ l \in 0 .. (pos - 1) /\ l + 1 = pos - 1
    BY <1>1, <1>2
  <2>3. b.addr \in Nat /\ b.size \in Nat /\ b.size >= 3
    BY <1>1, <2>1, <2>2
  <2>4. x \in FreeBlock /\ x.addr = b.addr /\ x.size = b.size + block.size
    BY <1>1, <1>2, <2>1, <2>3 DEF With, FreeBlock
  <2>5. b.addr + b.size = block.addr
    <3>1. block.addr - b.addr = b.size
      BY <1>2, <2>1, Zenon DEF Touch
    <3> QED BY <1>1, <2>3, <3>1
  <2>6. ASSUME NEW i \in 1 .. l PROVE s[i].addr + s[i].size < x.addr
    <3>1. i \in DOMAIN s /\ i < pos - 1
      BY <1>1, <1>2
    <3> QED BY <1>0, <2>1, <2>2, <2>4, <3>1 DEF Ordered
  <2>7. \A w \in Nat : Holds(x, w) <=> Holds(b, w) \/ Holds(block, w)
    <3>1. IsBlock(b)
      BY <2>3 DEF IsBlock
    <3> QED BY <1>0, <2>4, <2>5, <3>1, WordsOfTwo, Zenon
  <2>8. \A i : i \in (l + 1) .. (pos - 1) <=> i = pos - 1
    BY <1>1, <2>2
  <2>9. \A w \in Nat : Holds(x, w) <=> Holds(block, w) \/ \E i \in (l + 1) .. (pos - 1) : Holds(s[i], w)
    BY <2>1, <2>7, <2>8
  <2>10. IsBlock(x) /\ x.addr + x.size = block.addr + block.size
    BY <1>1, <2>3, <2>4, <2>5 DEF IsBlock
  <2> QED BY <2>2, <2>4, <2>6, <2>9, <2>10, Zenon DEF JoinOK
<1>3. CASE /\ ~(pos > 1 /\ Touch(s[pos - 1], block)) /\ l = pos - 1
           /\ x = [addr |-> block.addr, size |-> block.size]
  <2>1. x \in FreeBlock /\ x.addr = block.addr /\ x.size = block.size
    BY <1>1, <1>3 DEF FreeBlock
  <2>2. l \in 0 .. (pos - 1) /\ l \in Nat /\ l + 1 = pos
    BY <1>1, <1>3
  <2>3. ASSUME NEW i \in 1 .. l PROVE s[i].addr + s[i].size < x.addr
    <3>1. i \in DOMAIN s /\ pos - 1 \in DOMAIN s /\ pos > 1 /\ pos - 1 \in 1 .. (pos - 1)
      BY <1>1, <2>2
    <3>2. s[pos - 1].addr + s[pos - 1].size <= block.addr
      BY <1>0, <3>1, Zenon
    <3>3. CASE i = pos - 1
      <4>1. PICK addr \in Nat, size \in Nat : addr = s[pos - 1].addr /\ size = s[pos - 1].size
        BY <1>1, <3>1
      <4>2. block.addr - addr # size /\ addr + size <= block.addr
        BY <1>3, <3>1, <3>2, <4>1, Zenon DEF Touch
      <4>3. addr + size < block.addr
        BY <1>1, <4>2
      <4> QED BY <2>1, <3>3, <4>1, <4>3, Zenon
    <3>4. CASE i < pos - 1
      <4>1. s[i].addr + s[i].size < s[pos - 1].addr
        BY <1>0, <3>1, <3>4 DEF Ordered
      <4>2. PICK end \in Nat, addr \in Nat, size \in Nat :
              end = s[i].addr + s[i].size /\ addr = s[pos - 1].addr /\ size = s[pos - 1].size
        <5>1. s[i].addr \in Nat /\ s[i].size \in Nat /\ s[pos - 1].addr \in Nat /\ s[pos - 1].size \in Nat
          BY <1>1, <3>1, Zenon
        <5>2. s[i].addr + s[i].size \in Nat
          BY <5>1
        <5> QED BY <5>1, <5>2, Zenon
      <4>3. end < addr /\ addr + size <= block.addr
        BY <3>2, <4>1, <4>2, Zenon
      <4>4. end < block.addr
        BY <1>1, <4>3
      <4> QED BY <2>1, <4>2, <4>4, Zenon
    <3> QED BY <1>1, <1>3, <3>3, <3>4
  <2>4. \A i : i \notin (l + 1) .. (pos - 1)
    BY <1>1, <2>2
  <2>5. \A w \in Nat : Holds(x, w) <=> Holds(block, w)
    BY <2>1 DEF Holds
  <2>6. \A w \in Nat : Holds(x, w) <=> Holds(block, w) \/ \E i \in (l + 1) .. (pos - 1) : Holds(s[i], w)
    BY <2>4, <2>5
  <2>7. IsBlock(x) /\ x.addr + x.size = block.addr + block.size
    BY <1>1, <2>1 DEF IsBlock
  <2> QED BY <2>1, <2>2, <2>3, <2>6, <2>7, Zenon DEF JoinOK
<1> QED BY <1>2, <1>3, Zenon DEF JoinsBefore

(* What joining that with the block after it gives. *)
JoinsAfter(s, joined, pos, n, x) ==
    \/ pos <= Len(s) /\ Touch(joined, s[pos]) /\ n = pos /\ x = With(joined, s[pos])
    \/ ~(pos <= Len(s) /\ Touch(joined, s[pos])) /\ n = pos - 1 /\ x = joined

WholeOK(s, joined, pos, n, x) ==
    /\ n \in (pos - 1) .. Len(s) /\ x \in FreeBlock /\ IsBlock(x) /\ x.addr = joined.addr
    /\ \A i \in (n + 1) .. Len(s) : x.addr + x.size < s[i].addr
    /\ \A w \in Nat : Holds(x, w) <=> Holds(joined, w) \/ \E i \in pos .. n : Holds(s[i], w)

(* What that gave and the block after it, if they touch: above it are the    *)
(* blocks behind the n-th, and none of them touches it.                      *)
LEMMA JoinedAfter ==
    ASSUME NEW s, NEW block, NEW pos, HasPlace(s, block, pos), NEW l, NEW joined, JoinOK(s, block, pos, l, joined),
           NEW n, NEW x, JoinsAfter(s, joined, pos, n, x)
    PROVE  WholeOK(s, joined, pos, n, x)
<1>0. /\ Ordered(s) /\ (\A i \in DOMAIN s : IsBlock(s[i])) /\ joined \in FreeBlock /\ IsBlock(joined)
      /\ pos \in 1 .. (Len(s) + 1)
      /\ \A i \in pos .. Len(s) : joined.addr + joined.size <= s[i].addr
  BY Zenon DEF HasPlace, JoinOK
<1>1. /\ Len(s) \in Nat /\ DOMAIN s = 1 .. Len(s) /\ pos \in Nat /\ pos >= 1 /\ pos <= Len(s) + 1
      /\ \A i \in DOMAIN s : s[i].addr \in Nat /\ s[i].size \in Nat /\ s[i].size >= 3
      /\ joined.addr \in Nat /\ joined.size \in Nat /\ joined.size >= 3
  BY <1>0, OrderedPlaces DEF IsBlock
<1>2. CASE pos <= Len(s) /\ Touch(joined, s[pos]) /\ n = pos /\ x = With(joined, s[pos])
  <2>1. PICK b : b = s[pos]
    OBVIOUS
  <2>2. pos \in DOMAIN s /\ n \in (pos - 1) .. Len(s)
    BY <1>1, <1>2
  <2>3. b.addr \in Nat /\ b.size \in Nat /\ b.size >= 3
    BY <1>1, <2>1, <2>2
  <2>4. x \in FreeBlock /\ x.addr = joined.addr /\ x.size = joined.size + b.size
    BY <1>1, <1>2, <2>1, <2>3 DEF With, FreeBlock
  <2>5. joined.addr + joined.size = b.addr
    <3>1. b.addr - joined.addr = joined.size
      BY <1>2, <2>1, Zenon DEF Touch
    <3> QED BY <1>1, <2>3, <3>1
  <2>6. ASSUME NEW i \in (n + 1) .. Len(s) PROVE x.addr + x.size < s[i].addr
    <3>1. i \in DOMAIN s /\ pos < i
      BY <1>1, <1>2
    <3>2. b.addr + b.size < s[i].addr
      BY <1>0, <2>1, <2>2, <3>1 DEF Ordered
    <3> QED BY <1>1, <2>3, <2>4, <2>5, <3>1, <3>2
  <2>7. \A w \in Nat : Holds(x, w) <=> Holds(joined, w) \/ Holds(b, w)
    <3>1. IsBlock(b)
      BY <2>3 DEF IsBlock
    <3> QED BY <1>0, <2>4, <2>5, <3>1, WordsOfTwo, Zenon
  <2>8. \A i : i \in pos .. n <=> i = pos
    BY <1>1, <1>2
  <2>9. \A w \in Nat : Holds(x, w) <=> Holds(joined, w) \/ \E i \in pos .. n : Holds(s[i], w)
    BY <2>1, <2>7, <2>8
  <2>10. IsBlock(x)
    BY <1>1, <2>3, <2>4 DEF IsBlock
  <2> QED BY <2>2, <2>4, <2>6, <2>9, <2>10, Zenon DEF WholeOK
<1>3. CASE ~(pos <= Len(s) /\ Touch(joined, s[pos])) /\ n = pos - 1 /\ x = joined
  <2>1. n \in (pos - 1) .. Len(s) /\ n \in Nat /\ n + 1 = pos
    BY <1>1, <1>3
  <2>2. ASSUME NEW i \in (n + 1) .. Len(s) PROVE x.addr + x.size < s[i].addr
    <3>1. i \in DOMAIN s /\ pos \in DOMAIN s /\ pos <= Len(s) /\ pos \in pos .. Len(s)
      BY <1>1, <2>1
    <3>2. joined.addr + joined.size <= s[pos].addr
      BY <1>0, <3>1
    <3>3. joined.addr + joined.size < s[pos].addr
      BY <1>1, <1>3, <3>1, <3>2 DEF Touch
    <3>4. CASE i = pos
      BY <1>3, <3>3, <3>4
    <3>5. CASE pos < i
      <4>1. s[pos].addr + s[pos].size < s[i].addr
        BY <1>0, <3>1, <3>5 DEF Ordered
      <4>2. PICK end \in Nat, addr \in Nat, size \in Nat, high \in Nat :
              /\ end = joined.addr + joined.size /\ addr = s[pos].addr /\ size = s[pos].size
              /\ high = s[i].addr
        <5>1. joined.addr + joined.size \in Nat
          BY <1>1
        <5>2. s[i].addr \in Nat /\ s[pos].addr \in Nat /\ s[pos].size \in Nat
          BY <1>1, <3>1, Zenon
        <5> QED BY <5>1, <5>2, Zenon
      <4>3. end < addr /\ addr + size < high
        BY <3>3, <4>1, <4>2, Zenon
      <4>4. end < high
        BY <4>3
      <4> QED BY <1>3, <4>2, <4>4, Zenon
    <3> QED BY <1>1, <2>1, <3>4, <3>5
  <2>3. \A i : i \notin pos .. n
    BY <1>1, <2>1
  <2>4. \A w \in Nat : Holds(x, w) <=> Holds(joined, w) \/ \E i \in pos .. n : Holds(s[i], w)
    BY <1>3, <2>3
  <2> QED BY <1>0, <1>3, <2>1, <2>2, <2>4, Zenon DEF WholeOK
<1> QED BY <1>2, <1>3, Zenon DEF JoinsAfter

(* free keeps the heap divided, whichever neighbours the block joins. *)
LEMMA FreeStep ==
    ASSUME HeapOK, NEW block \in blocks, free(block), moving' \in blocks' \cup {NoBlock}
    PROVE  HeapOK'
<1>1. PICK s, t : s = free_list /\ t = free_list'
  OBVIOUS
<1>2. /\ Ordered(s) /\ IsBlock(block)
      /\ \A i \in DOMAIN s : IsBlock(s[i])
      /\ \A i \in DOMAIN s : s[i] \in Members(s)
  BY <1>1, BlockFacts DEF HeapOK, Members
<1>3. PICK pos \in 1 .. (Len(s) + 1) :
        /\ pos = Place(block)
        /\ \A i \in 1 .. (pos - 1) : s[i].addr + s[i].size <= block.addr
        /\ \A i \in pos .. Len(s) : block.addr + block.size <= s[i].addr
  BY <1>1, PlaceSplits
<1>4. HasPlace(s, block, pos)
  BY <1>2, <1>3, Zenon DEF HasPlace
<1>5. PICK l, joined : JoinsBefore(s, block, pos, l, joined)
  BY Zenon DEF JoinsBefore
<1>6. PICK n, x : JoinsAfter(s, joined, pos, n, x)
  BY Zenon DEF JoinsAfter
<1>7. JoinOK(s, block, pos, l, joined)
  BY <1>4, <1>5, JoinedBefore, Zenon
<1>8. WholeOK(s, joined, pos, n, x)
  BY <1>4, <1>6, <1>7, JoinedAfter, Zenon
<1>9. /\ Len(s) \in Nat /\ DOMAIN s = 1 .. Len(s) /\ l \in 0 .. Len(s) /\ n \in l .. Len(s)
      /\ (l + 1) .. n = ((l + 1) .. (pos - 1)) \cup (pos .. n) /\ (l + 1) .. n \subseteq DOMAIN s
  <2>1. Len(s) \in Nat /\ DOMAIN s = 1 .. Len(s)
    BY <1>2, OrderedPlaces
  <2>2. l \in 0 .. (pos - 1) /\ n \in (pos - 1) .. Len(s)
    BY <1>7, <1>8, Zenon DEF JoinOK, WholeOK
  <2>3. l \in 0 .. Len(s) /\ n \in l .. Len(s)
    BY <2>1, <2>2
  <2>4. (l + 1) .. n = ((l + 1) .. (pos - 1)) \cup (pos .. n) /\ (l + 1) .. n \subseteq DOMAIN s
    BY <2>1, <2>2
  <2> QED BY <2>1, <2>3, <2>4
<1>10. t = SubSeq(s, 1, l) \o <<x>> \o SubSeq(s, n + 1, Len(s))
  <2>1. l = (IF pos > 1 /\ Touch(s[pos - 1], block) THEN pos - 2 ELSE pos - 1)
    BY <1>5, Zenon DEF JoinsBefore
  <2>2. joined = (IF pos > 1 /\ Touch(s[pos - 1], block) THEN With(s[pos - 1], block)
                  ELSE [addr |-> block.addr, size |-> block.size])
    BY <1>5, Zenon DEF JoinsBefore
  <2>3. x = (IF pos <= Len(s) /\ Touch(joined, s[pos]) THEN With(joined, s[pos]) ELSE joined)
    BY <1>6, Zenon DEF JoinsAfter
  <2>4. n + 1 = (IF pos <= Len(s) /\ Touch(joined, s[pos]) THEN pos + 1 ELSE pos)
    BY <1>6 DEF JoinsAfter
  <2>5. t = SubSeq(s, 1, IF pos > 1 /\ Touch(s[pos - 1], block) THEN pos - 2 ELSE pos - 1)
              \o <<IF pos <= Len(s) /\ Touch(joined, s[pos]) THEN With(joined, s[pos]) ELSE joined>>
              \o SubSeq(s, IF pos <= Len(s) /\ Touch(joined, s[pos]) THEN pos + 1 ELSE pos, Len(s))
    BY <1>1, <1>3, <2>2, Zenon DEF free
  <2> QED BY <2>1, <2>3, <2>4, <2>5, Zenon
<1>11. PICK gone : gone = {s[i] : i \in (l + 1) .. n}
  OBVIOUS
<1>12. Becomes(s, t, gone, {x})
  <2>1. \A i \in 1 .. l : s[i].addr + s[i].size < x.addr
    BY <1>7, <1>8, Zenon DEF JoinOK, WholeOK
  <2>2. x \in FreeBlock /\ \A i \in (n + 1) .. Len(s) : x.addr + x.size < s[i].addr
    BY <1>8, Zenon DEF WholeOK
  <2>3. Becomes(s, t, {s[i] : i \in (l + 1) .. n}, {x})
    BY <1>2, <1>9, <1>10, <2>1, <2>2, JoinedList, Zenon
  <2> QED BY <1>11, <2>3, Zenon
<1>13. \A w \in Nat : Holds(x, w) <=> Holds(block, w) \/ \E b \in gone : Holds(b, w)
  <2>1. ASSUME NEW w \in Nat PROVE Holds(x, w) <=> Holds(block, w) \/ \E i \in (l + 1) .. n : Holds(s[i], w)
    BY <1>7, <1>8, <1>9, Zenon DEF JoinOK, WholeOK
  <2> QED BY <1>11, <2>1
<1>14. SameWords(gone \cup {block}, {x} \cup {})
  <2>1. \A w \in Nat : (\E b \in gone \cup {block} : Holds(b, w)) <=> (\E b \in {x} \cup {} : Holds(b, w))
    BY <1>13, Zenon
  <2>2. \A b, c \in {x} \cup {} : b # c => \A w \in Nat : ~(Holds(b, w) /\ Holds(c, w))
    BY Zenon
  <2>3. \A b \in {x} \cup {} : IsBlock(b)
    BY <1>8, Zenon DEF WholeOK
  <2> QED BY <2>1, <2>2, <2>3, Zenon DEF SameWords
<1>15. blocks' = (blocks \ {block}) \cup {} /\ heap_end' = heap_end
  BY DEF free
<1>16. gone \in SUBSET Members(free_list) /\ {block} \in SUBSET blocks /\ {} \in SUBSET UsedBlock /\ Roomy({})
  <2>1. gone \in SUBSET Members(s)
    BY <1>2, <1>9, <1>11
  <2> QED BY <1>1, <2>1 DEF Roomy
<1> QED BY <1>1, <1>12, <1>14, <1>15, <1>16, ReplaceStep, Zenon

(* Every call of the allocator preserves its invariant. *)
LEMMA AllocatorStep == HeapOK /\ [MallocNext]_mallocVars => HeapOK'
<1> SUFFICES ASSUME HeapOK, [MallocNext]_mallocVars PROVE HeapOK'
  OBVIOUS
<1>1. CASE UNCHANGED mallocVars
  BY <1>1 DEF mallocVars, HeapOK
<1>2. ASSUME NEW bytes \in Nat, malloc(bytes), moving' \in blocks \cup {NoBlock}
      PROVE  HeapOK'
  <2>1. blocks \subseteq blocks'
    BY <1>2 DEF malloc, malloc_from_list, malloc_from_system
  <2> QED BY <1>2, <2>1, MallocStep
<1>3. ASSUME NEW bytes \in Requests, malloc(bytes), moving = NoBlock, UNCHANGED moving PROVE HeapOK'
  BY <1>2, <1>3, MallocAssumption
<1>4. ASSUME NEW nmemb \in {2}, NEW size \in Requests, calloc(nmemb, size), moving = NoBlock, UNCHANGED moving
      PROVE  HeapOK'
  <2>1. nmemb * size \in Nat
    BY MallocAssumption
  <2> QED BY <1>2, <1>4, <2>1 DEF calloc
<1>5. ASSUME NEW block \in blocks, free(block), moving' = NoBlock PROVE HeapOK'
  BY <1>5, FreeStep
<1>6. ASSUME NEW block \in blocks, NEW bytes \in Requests, realloc_malloc(block, bytes) PROVE HeapOK'
  BY <1>2, <1>6, MallocAssumption DEF realloc_malloc
<1>7. CASE realloc_free
  <2>1. moving \in blocks
    BY <1>7 DEF realloc_free, HeapOK
  <2> QED BY <1>5, <1>7, <2>1 DEF realloc_free
<1> QED BY <1>1, <1>3, <1>4, <1>5, <1>6, <1>7 DEF MallocNext

(* Whatever is asked for and freed, in whatever order: every word of the     *)
(* userland heap is in one block, free blocks that touch are one, and blocks *)
(* are as big as was asked for.                                              *)
THEOREM MallocInvariant == MallocSpec => []MallocInv
<1>1. MallocSpec => []HeapOK
  BY MallocInitial, AllocatorStep, PTL DEF MallocSpec
<1> QED BY <1>1, InvariantMeans, PTL

----------------------------------------------------------------------------
(* The heap assignment.  The tree is looked at as a function that gives the *)
(* node at each place, where the children of place p are 2p and 2p + 1:     *)
(* every step of an insertion changes it at one place of the path at most.  *)

(* A half is smaller. *)
LEMMA HalfIsLess == \A p \in Nat : p > 1 => p \div 2 \in 1 .. (p - 1)
OBVIOUS

(* TopBit satisfies the equation that defines it: a function on 1 .. m that *)
(* does is extended to one on 1 .. m + 1.                                   *)
LEMMA TopBitEquation ==
    /\ TopBit = [path \in NodeIds |-> TopBit[path]]
    /\ \A path \in NodeIds : TopBit[path] = IF path = 1 THEN 1 ELSE 2 * TopBit[path \div 2]
<1> DEFINE Doubles(f, m) == f = [p \in 1 .. m |-> IF p = 1 THEN 1 ELSE 2 * f[p \div 2]]
           Without == {m \in Nat : ~ \E f : Doubles(f, m)}
<1>1. ASSUME NEW m \in Nat, m > 0, NEW f, Doubles(f, m - 1)
      PROVE  \E g : Doubles(g, m)
  <2> DEFINE g == [p \in 1 .. m |-> IF p < m THEN f[p] ELSE IF m = 1 THEN 1 ELSE 2 * f[m \div 2]]
  <2>1. ASSUME NEW p \in 1 .. m
        PROVE  g[p] = IF p = 1 THEN 1 ELSE 2 * g[p \div 2]
    <3>1. p > 1 => p \div 2 \in 1 .. (p - 1)
      BY HalfIsLess
    <3>2. p > 1 => g[p \div 2] = f[p \div 2]
      BY <3>1
    <3>3. p < m => g[p] = f[p] /\ f[p] = IF p = 1 THEN 1 ELSE 2 * f[p \div 2]
      BY <1>1
    <3>4. p = m => g[p] = IF p = 1 THEN 1 ELSE 2 * f[p \div 2]
      OBVIOUS
    <3> QED BY <3>2, <3>3, <3>4
  <2>2. g = [p \in 1 .. m |-> IF p = 1 THEN 1 ELSE 2 * g[p \div 2]]
    BY <2>1
  <2> QED BY <2>2
<1>2. Without = {}
  <2> SUFFICES ASSUME Without # {} PROVE FALSE
    OBVIOUS
  <2> DEFINE m == Min(Without)
  <2>1. m \in Without /\ \A y \in Without : m <= y
    BY MinIsLeast
  <2> HIDE DEF m
  <2>2. m \in Nat /\ ~ \E f : Doubles(f, m)
    BY <2>1
  <2>3. \A y \in Nat : (\E f : Doubles(f, y)) \/ m <= y
    BY <2>1
  <2> HIDE DEF Doubles, Without
  <2>4. m # 0
    <3>1. Doubles([p \in 1 .. 0 |-> 1], 0)
      BY DEF Doubles
    <3> QED BY <2>2, <3>1
  <2>5. m - 1 \in Nat /\ ~ (m <= m - 1) /\ m > 0
    BY <2>2, <2>4
  <2>6. PICK f : Doubles(f, m - 1)
    BY <2>3, <2>5
  <2> QED BY <1>1, <2>2, <2>5, <2>6
<1>3. PICK f : Doubles(f, MaxNodes)
  BY <1>2, HeapAssumption
<1>4. TopBit = [path \in NodeIds |-> IF path = 1 THEN 1 ELSE 2 * TopBit[path \div 2]]
  BY <1>3 DEF TopBit, NodeIds
<1> QED BY <1>4

(* TopBit[path] is the greatest power of two up to path. *)
LEMMA TopBitBounds ==
    \A path \in NodeIds : TopBit[path] \in Nat /\ 1 <= TopBit[path] /\ TopBit[path] <= path /\ path < 2 * TopBit[path]
<1> DEFINE Good(p) == TopBit[p] \in Nat /\ 1 <= TopBit[p] /\ TopBit[p] <= p /\ p < 2 * TopBit[p]
           Wrong == {p \in NodeIds : ~ Good(p)}
<1>0. NodeIds \subseteq Nat
  BY HeapAssumption DEF NodeIds
<1> SUFFICES ASSUME Wrong # {} PROVE FALSE
  OBVIOUS
<1>a. Wrong \in SUBSET Nat
  BY <1>0
<1> DEFINE p == Min(Wrong)
<1>1. p \in Wrong /\ \A y \in Wrong : p <= y
  BY <1>a, MinIsLeast
<1> HIDE DEF p
<1>2. p \in NodeIds /\ p \in Nat /\ TopBit[p] = IF p = 1 THEN 1 ELSE 2 * TopBit[p \div 2]
  BY <1>0, <1>1, TopBitEquation
<1>3. CASE p = 1
  BY <1>1, <1>2, <1>3
<1>4. CASE p # 1
  <2>1. p > 1 /\ p \div 2 \in 1 .. (p - 1) /\ p \div 2 \in NodeIds
    BY <1>2, <1>4, HalfIsLess, HeapAssumption DEF NodeIds
  <2>2. Good(p \div 2)
    BY <1>1, <1>2, <2>1
  <2> QED BY <1>1, <1>2, <1>4, <2>1, <2>2
<1> QED BY <1>3, <1>4

(* The values of mask. *)
Masks == {TopBit[p] : p \in NodeIds}

(* Shifted to the right, a mask is one again until it is 1. *)
LEMMA ShiftedMask ==
    ASSUME NEW m \in Masks
    PROVE  /\ m \in Nat /\ m >= 1
           /\ m # 1 => m \div 2 \in Masks /\ m \div 2 \in Nat /\ m \div 2 >= 1 /\ m = 2 * (m \div 2)
<1>1. PICK p \in NodeIds : m = TopBit[p]
  BY DEF Masks
<1>2. m \in Nat /\ m >= 1 /\ m = IF p = 1 THEN 1 ELSE 2 * TopBit[p \div 2]
  BY <1>1, TopBitEquation, TopBitBounds
<1>3. CASE m # 1
  <2>1. p \in Nat /\ p > 1 /\ p \div 2 \in NodeIds
    BY <1>2, <1>3, HalfIsLess, HeapAssumption DEF NodeIds
  <2>2. TopBit[p \div 2] \in Nat /\ TopBit[p \div 2] >= 1 /\ TopBit[p \div 2] \in Masks
    BY <2>1, TopBitBounds DEF Masks
  <2> QED BY <1>2, <1>3, <2>1, <2>2
<1> QED BY <1>2, <1>3

(* What a quotient is. *)
LEMMA Quotient ==
    ASSUME NEW n \in Nat, NEW h \in Nat, h >= 1
    PROVE  n \div h \in Nat /\ \E r \in Nat : r < h /\ n = h * (n \div h) + r
<1>1. n \div h \in Int
  OBVIOUS
<1>2. n % h \in 0 .. (h - 1)
  OBVIOUS
<1>3. n = h * (n \div h) + (n % h)
  OBVIOUS
<1>4. n \div h \in Nat
  OBVIOUS
<1> QED BY <1>2, <1>3, <1>4

(* Only one number is it. *)
LEMMA OneQuotient ==
    ASSUME NEW h \in Nat, h >= 1, NEW a \in Nat, NEW b \in Nat, NEW r \in Nat, NEW s \in Nat,
           r < h, s < h, h * a + r = h * b + s
    PROVE  a = b
<1>1. ASSUME NEW x \in Nat, NEW y \in Nat, NEW u \in Nat, NEW v \in Nat, u < h, v < h,
             h * x + u = h * y + v, x < y
      PROVE  FALSE
  <2>1. PICK d \in Nat : y = x + 1 + d
    BY <1>1
  <2>2. h * y = h * x + h + h * d
    BY <2>1
  <2>3. h * d \in Nat /\ h * x \in Nat /\ h * y \in Nat
    BY <2>1
  <2> QED BY <1>1, <2>2, <2>3
<1> QED BY <1>1

(* The place that the first bits of a path lead to is the child, on the     *)
(* side of the last of them, of the place that the others lead to.          *)
LEMMA NextPlace ==
    ASSUME NEW n \in Nat, NEW m \in Nat, NEW h \in Nat, h >= 1, m = 2 * h
    PROVE  /\ n \div m \in Nat /\ n \div h \in Nat
           /\ n \div h = 2 * (n \div m) + (IF Bit(n, h) THEN 1 ELSE 0)
<1> DEFINE a == n \div h
           q == n \div m
<1>1. a \in Nat /\ \E r \in Nat : r < h /\ n = h * a + r
  BY Quotient
<1>m. m >= 1
  OBVIOUS
<1>2. q \in Nat /\ \E r \in Nat : r < m /\ n = m * q + r
  BY <1>m, Quotient
<1>b. Bit(n, h) <=> a % 2 = 1
  BY DEF Bit
<1> HIDE DEF a, q
<1>3. PICK r \in Nat : r < h /\ n = h * a + r
  BY <1>1
<1>4. PICK s \in Nat : s < m /\ n = m * q + s
  BY <1>2
<1>5. PICK c \in Nat, b \in {0, 1} : a = 2 * c + b /\ (b = 1 <=> a % 2 = 1)
  <2>1. a = 2 * (a \div 2) + (a % 2) /\ a \div 2 \in Nat /\ a % 2 \in {0, 1}
    BY <1>1
  <2> QED BY <2>1
<1>6. h * a = m * c + h * b
  <2>1. h * a = h * (2 * c) + h * b
    BY <1>5
  <2> QED BY <2>1
<1>7. h * b + r \in Nat /\ h * b + r < m
  BY <1>3, <1>5
<1>8. m * c + (h * b + r) = m * q + s
  BY <1>3, <1>4, <1>6
<1>9. c = q
  BY <1>2, <1>4, <1>5, <1>7, <1>8, OneQuotient
<1> QED BY <1>1, <1>2, <1>5, <1>9, <1>b DEF a, q

(* The first bit of a path leads to the root, all of them to its number. *)
LEMMA PathEnds ==
    /\ \A n \in Nat : n \div 1 = n
    /\ \A n \in NodeIds : n \div TopBit[n] = 1
<1>1. \A n \in Nat : n \div 1 = n
  OBVIOUS
<1>2. ASSUME NEW n \in NodeIds PROVE n \div TopBit[n] = 1
  <2>1. PICK t \in Nat : t = TopBit[n] /\ 1 <= t /\ t <= n /\ n < 2 * t
    BY TopBitBounds
  <2>2. n \in Nat
    BY HeapAssumption DEF NodeIds
  <2>3. n \div t \in Nat /\ \E r \in Nat : r < t /\ n = t * (n \div t) + r
    BY <2>1, <2>2, Quotient
  <2>4. PICK q \in Nat, r \in Nat : q = n \div t /\ r < t /\ n = t * q + r
    BY <2>3
  <2>5. PICK s \in Nat : s < t /\ n = t * 1 + s
    <3>1. n - t \in Nat /\ n - t < t /\ n = t * 1 + (n - t)
      BY <2>1, <2>2
    <3> QED BY <3>1
  <2>6. t * 1 + s = t * q + r /\ t >= 1 /\ 1 \in Nat
    BY <2>1, <2>4, <2>5
  <2>7. 1 = q
    BY <2>4, <2>5, <2>6, OneQuotient
  <2> QED BY <2>1, <2>4, <2>7, Zenon
<1> QED BY <1>1, <1>2

----------------------------------------------------------------------------
(* The node that is not in the tree: the new one until it is linked, then   *)
(* the outsider.                                                            *)
Out == CASE step = "walk" -> n_nodes [] step = "merge" -> outsider [] OTHER -> Null

(* How many places of the tree are filled. *)
Filled == IF Out = Null THEN n_nodes ELSE n_nodes - 1

(* The children of the edge are still those of the outsider. *)
Holder(x) == IF step = "merge" /\ x = edge THEN outsider ELSE x

(* The child that a node of the tree has, or is to have. *)
Child(x, right) == IF Holder(x) = Null THEN Null ELSE get_child(Holder(x), right)

(* The place that the path has led to. *)
PathPlace == n_nodes \div mask

(* A node's fields are nodes or Null. *)
HeapTypeOK ==
    /\ n_nodes \in 0 .. MaxNodes
    /\ nodes \in [1 .. n_nodes -> [value : HeapValues, left : 0 .. n_nodes, right : 0 .. n_nodes]]
    /\ step \in {"done", "walk", "merge"}
    /\ outsider \in 0 .. n_nodes
    /\ step # "merge" => outsider = Null

(* The nodes at the first places are those of the tree, each once; *)
NodesPlaced(at) ==
    /\ \A p \in Places : at[p] # Null <=> p <= Filled
    /\ \A p, r \in 1 .. Filled : at[p] = at[r] => p = r
    /\ \A p \in 1 .. Filled : at[p] # Out
    /\ \A x \in 1 .. n_nodes : x # Out => \E p \in 1 .. Filled : at[p] = x

(* the links lead to them; *)
NodesLinked(at) ==
    /\ at[1] = root
    /\ \A p \in 1 .. Filled : /\ at[2 * p] = Child(at[p], FALSE)
                              /\ at[2 * p + 1] = Child(at[p], TRUE)

(* and no node is greater than its parent. *)
NodesOrdered(at) ==
    \A p \in 2 .. Filled : nodes[at[p]].value <= nodes[at[p \div 2]].value

(* Where the loops are on the path, and what they have found there. *)
WalkOK(at) ==
    step = "walk" =>
      /\ mask \in Masks /\ mask <= n_nodes
      /\ current = at[PathPlace]
      /\ parent = IF PathPlace = 1 THEN Null ELSE at[PathPlace \div 2]
      /\ PathPlace > 1 => nodes[n_nodes].value < nodes[parent].value

MergeOK(at) ==
    step = "merge" =>
      /\ mask \in Masks /\ mask <= n_nodes
      /\ edge = at[PathPlace]
      /\ outsider = Null <=> PathPlace = n_nodes
      /\ outsider # Null =>
           /\ nodes[outsider].value <= nodes[edge].value
           /\ \A p \in {2 * PathPlace, 2 * PathPlace + 1} :
                p <= Filled => nodes[at[p]].value <= nodes[outsider].value

TreeAt(at) == NodesPlaced(at) /\ NodesLinked(at) /\ NodesOrdered(at) /\ WalkOK(at) /\ MergeOK(at)

(* What holds of the heap after every step of an insertion. *)
HeapInv == HeapTypeOK /\ \E at \in [Places -> 0 .. n_nodes] : TreeAt(at)

(* Any n nodes. *)
NodesOf(n) == [1 .. n -> [value : HeapValues, left : 0 .. n, right : 0 .. n]]

(* What the type says of numbers, and of the nodes. *)
LEMMA HeapFacts ==
    ASSUME HeapTypeOK
    PROVE  /\ n_nodes \in Nat /\ MaxNodes \in Nat /\ n_nodes <= MaxNodes
           /\ \A p \in Places : p \in Nat /\ p >= 1
           /\ \A p \in 1 .. n_nodes : p \in Places /\ 2 * p \in Places /\ 2 * p + 1 \in Places
           /\ \A x \in 1 .. n_nodes : /\ nodes[x].value \in Int
                                      /\ nodes[x].left \in 0 .. n_nodes
                                      /\ nodes[x].right \in 0 .. n_nodes
           /\ Filled \in Int /\ Filled <= n_nodes /\ n_nodes - 1 <= Filled
           /\ Out \in 0 .. n_nodes
<1>1. /\ n_nodes \in Nat /\ MaxNodes \in Nat /\ n_nodes <= MaxNodes
  BY HeapAssumption DEF HeapTypeOK
<1>2. /\ \A p \in Places : p \in Nat /\ p >= 1
      /\ \A p \in 1 .. n_nodes : p \in Places /\ 2 * p \in Places /\ 2 * p + 1 \in Places
  BY <1>1 DEF Places
<1>3. \A x \in 1 .. n_nodes : /\ nodes[x].value \in Int
                              /\ nodes[x].left \in 0 .. n_nodes
                              /\ nodes[x].right \in 0 .. n_nodes
  BY HeapAssumption DEF HeapTypeOK
<1>4. Filled \in Int /\ Filled <= n_nodes /\ n_nodes - 1 <= Filled
  BY <1>1 DEF Filled
<1>5. Out \in 0 .. n_nodes
  BY <1>1 DEF Out, HeapTypeOK, Null
<1> QED BY <1>1, <1>2, <1>3, <1>4, <1>5

(* The place of a mask is one of the first n_nodes, and the next place is   *)
(* a child of it.                                                           *)
LEMMA PathPlaces ==
    ASSUME NEW n \in Nat, NEW m \in Masks, m <= n
    PROVE  /\ n \div m \in Nat /\ 1 <= n \div m /\ n \div m <= n
           /\ n \div m < n => /\ m \div 2 \in Masks /\ m \div 2 <= n /\ m # 1
                              /\ n \div (m \div 2) = 2 * (n \div m) + (IF Bit(n, m \div 2) THEN 1 ELSE 0)
                              /\ n \div (m \div 2) <= n
<1>1. m \in Nat /\ m >= 1
  BY ShiftedMask
<1>2. ASSUME NEW k \in Nat, k >= 1, k <= n
      PROVE  n \div k \in Nat /\ 1 <= n \div k /\ n \div k <= n
  <2>1. PICK q \in Nat, r \in Nat : q = n \div k /\ r < k /\ n = k * q + r
    BY <1>2, Quotient
  <2>2. q # 0
    BY <1>2, <2>1
  <2>3. q <= k * q
    BY <1>2, <2>2
  <2>4. q <= n /\ 1 <= q
    BY <2>1, <2>2, <2>3
  <2> QED BY <2>1, <2>4
<1>3. ASSUME n \div m < n
      PROVE  /\ m \div 2 \in Masks /\ m \div 2 <= n /\ m # 1
             /\ n \div (m \div 2) = 2 * (n \div m) + (IF Bit(n, m \div 2) THEN 1 ELSE 0)
             /\ n \div (m \div 2) <= n
  <2>1. m # 1
    BY <1>3, PathEnds
  <2>2. PICK h \in Nat : h = m \div 2 /\ h \in Masks /\ h >= 1 /\ m = 2 * h
    BY <2>1, ShiftedMask
  <2>3. h <= n
    BY <2>2
  <2>4. n \div h = 2 * (n \div m) + (IF Bit(n, h) THEN 1 ELSE 0)
    BY <1>1, <2>2, NextPlace
  <2>5. n \div h <= n
    BY <1>2, <2>2, <2>3
  <2> QED BY <2>1, <2>2, <2>3, <2>4, <2>5, Zenon
<1> QED BY <1>1, <1>2, <1>3

(* Without nodes. *)
HeapEmpty ==
    n_nodes = 0 /\ root = Null /\ nodes = [i \in {} |-> NewNode(0)] /\ step = "done" /\ outsider = Null

(* The empty heap is a tree without places. *)
LEMMA EmptyHeap == HeapEmpty => HeapInv
<1> SUFFICES ASSUME HeapEmpty PROVE HeapInv
  OBVIOUS
<1> USE DEF HeapEmpty
<1>1. HeapTypeOK
  <2>1. 1 .. n_nodes = {} /\ n_nodes \in 0 .. MaxNodes
    BY HeapAssumption
  <2> QED BY <2>1 DEF HeapTypeOK, Null
<1>2. PICK at : at = [p \in Places |-> Null]
  OBVIOUS
<1>3. at \in [Places -> 0 .. n_nodes] /\ 1 \in Places
  BY <1>2, HeapAssumption DEF Null, Places
<1>4. Filled = 0 /\ Out = Null
  BY DEF Filled, Out
<1>5. NodesPlaced(at)
  BY <1>2, <1>4, HeapAssumption DEF NodesPlaced, Places
<1>6. NodesLinked(at) /\ NodesOrdered(at) /\ WalkOK(at) /\ MergeOK(at)
  BY <1>2, <1>3, <1>4 DEF NodesLinked, NodesOrdered, WalkOK, MergeOK
<1> QED BY <1>1, <1>3, <1>5, <1>6 DEF HeapInv, TreeAt

(* So is the one that heap_init makes, *)
LEMMA HeapInitial == HeapInit => HeapInv
BY EmptyHeap DEF HeapInit, HeapEmpty

(* and the one that heap_clear leaves. *)
LEMMA HeapClearStep == heap_clear /\ HeapTypeOK => HeapInv'
<1> SUFFICES ASSUME heap_clear, HeapTypeOK PROVE HeapInv'
  OBVIOUS
<1>1. /\ n_nodes' = 0 /\ root' = Null /\ nodes' = [i \in {} |-> NewNode(0)]
      /\ step' = "done" /\ outsider' = Null
  BY DEF heap_clear, locals, HeapTypeOK
<1>2. HeapEmpty'
  BY <1>1 DEF HeapEmpty, NewNode, Null
<1> QED BY <1>2, EmptyHeap, PTL

(* A new node gets the next number; the path to its place begins at the     *)
(* root.                                                                    *)
LEMMA HeapInsertStep ==
    ASSUME HeapTypeOK, NEW at \in [Places -> 0 .. n_nodes], TreeAt(at),
           NEW v \in HeapValues, heap_insert(v)
    PROVE  HeapInv'
<1>1. PICK n \in Nat : n = n_nodes /\ n < MaxNodes /\ n_nodes' = n + 1
  BY HeapFacts DEF heap_insert
<1>2. /\ step = "done" /\ step' = "walk" /\ mask' = TopBit[n_nodes'] /\ parent' = Null /\ current' = root
      /\ root' = root /\ outsider' = outsider /\ outsider = Null /\ edge' = edge
  BY <1>1 DEF heap_insert, HeapTypeOK
<1>3. Out = Null /\ Filled = n /\ Out' = n + 1 /\ Filled' = n
  BY <1>1, <1>2 DEF Out, Filled, Null
<1>4. /\ nodes' = [i \in 1 .. n + 1 |-> IF i <= n THEN nodes[i] ELSE NewNode(v)]
      /\ \A x \in 1 .. n : nodes'[x] = nodes[x]
  BY <1>1 DEF heap_insert
<1>5. HeapTypeOK'
  <2>1. nodes' \in [1 .. n_nodes' -> [value : HeapValues, left : 0 .. n_nodes', right : 0 .. n_nodes']]
    BY <1>1, <1>4 DEF HeapTypeOK, NewNode, Null
  <2>2. n_nodes' \in 0 .. MaxNodes /\ outsider' \in 0 .. n_nodes' /\ outsider' = Null
    BY <1>1, <1>2, HeapFacts DEF Null
  <2> QED BY <1>2, <2>1, <2>2 DEF HeapTypeOK, Null
<1>6. at \in [Places -> 0 .. n_nodes'] /\ 1 \in Places
  BY <1>1, HeapFacts DEF Places
<1>7. NodesPlaced(at)'
  <2>1. \A p \in 1 .. n : at[p] # n + 1
    BY <1>1, HeapFacts
  <2>2. \A x \in 1 .. n + 1 : x # n + 1 => x \in 1 .. n /\ x # Null
    BY DEF Null
  <2> QED BY <1>1, <1>3, <2>1, <2>2 DEF NodesPlaced, TreeAt
<1>8. NodesLinked(at)'
  <2>1. ASSUME NEW p \in 1 .. n
        PROVE  at[2 * p] = Child(at[p], FALSE)' /\ at[2 * p + 1] = Child(at[p], TRUE)'
    <3>1. at[p] \in 1 .. n
      BY <1>1, <1>3, HeapFacts DEF NodesPlaced, TreeAt, Null
    <3>2. at[2 * p] = Child(at[p], FALSE) /\ at[2 * p + 1] = Child(at[p], TRUE)
      BY <1>3 DEF NodesLinked, TreeAt
    <3> QED BY <1>2, <1>4, <3>1, <3>2 DEF Child, Holder, get_child
  <2> QED BY <1>2, <1>3, <2>1 DEF NodesLinked, TreeAt
<1>9. NodesOrdered(at)'
  <2>1. ASSUME NEW p \in 2 .. n
        PROVE  nodes'[at[p]].value <= nodes'[at[p \div 2]].value
    <3>1. p \in 1 .. n /\ p \div 2 \in 1 .. n
      BY HalfIsLess
    <3>2. at[p] \in 1 .. n /\ at[p \div 2] \in 1 .. n
      BY <1>1, <1>3, <3>1, HeapFacts DEF NodesPlaced, TreeAt, Null
    <3>3. nodes[at[p]].value <= nodes[at[p \div 2]].value
      BY <1>3 DEF NodesOrdered, TreeAt
    <3> QED BY <1>4, <3>2, <3>3
  <2> QED BY <1>3, <2>1 DEF NodesOrdered
<1>10. WalkOK(at)'
  <2>1. n + 1 \in NodeIds
    BY <1>1, HeapFacts DEF NodeIds
  <2>2. mask' \in Masks /\ mask' <= n_nodes'
    BY <1>1, <1>2, <2>1, TopBitBounds DEF Masks
  <2>3. PathPlace' = 1
    BY <1>1, <1>2, <2>1, PathEnds, Zenon DEF PathPlace
  <2> QED BY <1>2, <2>2, <2>3 DEF WalkOK, TreeAt, NodesLinked
<1>11. MergeOK(at)'
  BY <1>2 DEF MergeOK
<1> QED BY <1>5, <1>6, <1>7, <1>8, <1>9, <1>10, <1>11 DEF HeapInv, TreeAt

(* A turn of the walk goes to the next place of the path. *)
LEMMA WalkStep ==
    ASSUME HeapTypeOK, NEW at \in [Places -> 0 .. n_nodes], TreeAt(at), insert_on_path_walk
    PROVE  HeapInv'
<1>1. /\ step = "walk" /\ current # Null /\ nodes[n_nodes].value < nodes[current].value
      /\ mask' = mask \div 2 /\ parent' = current
      /\ current' = get_child(current, Bit(n_nodes, mask \div 2))
      /\ n_nodes' = n_nodes /\ root' = root /\ nodes' = nodes /\ step' = step
      /\ edge' = edge /\ outsider' = outsider
  BY DEF insert_on_path_walk, Descends, Less
<1>2. PICK n \in Nat, q \in Nat : n = n_nodes /\ q = PathPlace /\ q >= 1 /\ q <= n
  BY <1>1, PathPlaces, HeapFacts DEF PathPlace, TreeAt, WalkOK
<1>3. mask \in Masks /\ mask <= n /\ current = at[q] /\ mask \in Nat
  BY <1>1, <1>2, ShiftedMask DEF WalkOK, TreeAt
<1>4. Out = n /\ Filled = n - 1 /\ Out' = n /\ Filled' = n - 1
  BY <1>1, <1>2 DEF Out, Filled, Null
<1>5. q <= n - 1 /\ q \in 1 .. Filled
  BY <1>1, <1>2, <1>3, <1>4, HeapFacts DEF NodesPlaced, TreeAt
<1>6. PICK r \in Nat : /\ r = PathPlace' /\ r <= n /\ r = 2 * q + (IF Bit(n_nodes, mask \div 2) THEN 1 ELSE 0)
                       /\ mask' \in Masks /\ mask' <= n
  <2>1. mask \div 2 \in Masks /\ mask \div 2 <= n
        /\ n \div (mask \div 2) = 2 * q + (IF Bit(n_nodes, mask \div 2) THEN 1 ELSE 0)
        /\ n \div (mask \div 2) <= n
    <3>1. q = n \div mask
      BY <1>2 DEF PathPlace
    <3>2. n \div mask < n
      BY <1>5, <3>1
    <3> QED BY <1>2, <1>3, <3>1, <3>2, PathPlaces, Zenon
  <2>2. PathPlace' = n \div (mask \div 2)
    BY <1>1, <1>2 DEF PathPlace
  <2>3. 2 * q + (IF Bit(n_nodes, mask \div 2) THEN 1 ELSE 0) \in Nat
    OBVIOUS
  <2> QED BY <1>1, <2>1, <2>2, <2>3
<1>7. current' = at[r]
  <2>1. at[2 * q] = get_child(at[q], FALSE) /\ at[2 * q + 1] = get_child(at[q], TRUE)
    BY <1>1, <1>3, <1>5 DEF TreeAt, NodesLinked, Child, Holder
  <2> QED BY <1>1, <1>3, <1>6, <2>1 DEF get_child
<1>8. r # 1 /\ r \div 2 = q
  BY <1>2, <1>6
<1>9. WalkOK(at)'
  BY <1>1, <1>2, <1>3, <1>6, <1>7, <1>8 DEF WalkOK
<1>10. MergeOK(at)' /\ HeapTypeOK'
  BY <1>1 DEF MergeOK, HeapTypeOK
<1>11. NodesPlaced(at)' /\ NodesLinked(at)' /\ NodesOrdered(at)'
  BY <1>1, <1>4 DEF TreeAt, NodesPlaced, NodesLinked, NodesOrdered, Child, Holder, get_child
<1> QED BY <1>1, <1>9, <1>10, <1>11 DEF HeapInv, TreeAt

(* At the end the last node has no children. *)
LEMMA MergeEndStep ==
    ASSUME HeapTypeOK, NEW at \in [Places -> 0 .. n_nodes], TreeAt(at), merge_on_path_end
    PROVE  HeapInv'
<1>1. /\ step = "merge" /\ outsider = Null /\ step' = "done"
      /\ nodes' = [nodes EXCEPT ![edge].left = Null, ![edge].right = Null]
      /\ n_nodes' = n_nodes /\ root' = root /\ outsider' = outsider
  BY DEF merge_on_path_end
<1>2. PICK n \in Nat : n = n_nodes /\ n >= 1 /\ edge = at[n]
  <2>1. n_nodes \in Nat /\ mask \in Masks /\ mask <= n_nodes
    BY <1>1, HeapFacts DEF TreeAt, MergeOK
  <2> QED BY <1>1, <2>1, ShiftedMask DEF TreeAt, MergeOK
<1>3. Out = Null /\ Filled = n /\ Out' = Null /\ Filled' = n
  BY <1>1, <1>2 DEF Out, Filled
<1>4. \A p \in 1 .. n : at[p] \in 1 .. n
  BY <1>2, <1>3, HeapFacts DEF NodesPlaced, TreeAt, Null
<1>5. \A x \in 1 .. n : /\ nodes'[x].value = nodes[x].value
                        /\ x # edge => nodes'[x] = nodes[x]
                        /\ x = edge => nodes'[x].left = Null /\ nodes'[x].right = Null
  BY <1>1, <1>2, <1>4 DEF HeapTypeOK
<1>6. HeapTypeOK'
  BY <1>1, <1>2, <1>4 DEF HeapTypeOK, Null
<1>7. NodesPlaced(at)'
  BY <1>1, <1>3 DEF TreeAt, NodesPlaced
<1>8. NodesLinked(at)'
  <2>1. ASSUME NEW p \in 1 .. n
        PROVE  at[2 * p] = Child(at[p], FALSE)' /\ at[2 * p + 1] = Child(at[p], TRUE)'
    <3>1. CASE p = n
      <4>1. at[2 * p] = Null /\ at[2 * p + 1] = Null
        <5>1. 2 * n \in Places /\ 2 * n + 1 \in Places /\ ~ (2 * n <= n) /\ ~ (2 * n + 1 <= n)
          BY <1>2, HeapFacts
        <5> QED BY <1>3, <3>1, <5>1 DEF NodesPlaced, TreeAt
      <4>2. nodes'[at[p]].left = Null /\ nodes'[at[p]].right = Null
        BY <1>2, <1>4, <1>5, <3>1
      <4> QED BY <1>1, <4>1, <4>2 DEF Child, Holder, get_child
    <3>2. CASE p # n
      <4>1. at[p] # edge /\ at[p] \in 1 .. n
        BY <1>2, <1>3, <1>4, <3>2 DEF NodesPlaced, TreeAt
      <4>2. at[2 * p] = Child(at[p], FALSE) /\ at[2 * p + 1] = Child(at[p], TRUE)
        BY <1>3 DEF NodesLinked, TreeAt
      <4> QED BY <1>1, <1>5, <4>1, <4>2 DEF Child, Holder, get_child
    <3> QED BY <3>1, <3>2
  <2> QED BY <1>1, <1>3, <2>1 DEF NodesLinked, TreeAt
<1>9. NodesOrdered(at)'
  <2>1. ASSUME NEW p \in 2 .. n
        PROVE  nodes'[at[p]].value <= nodes'[at[p \div 2]].value
    <3>1. p \in 1 .. n /\ p \div 2 \in 1 .. n
      BY HalfIsLess
    <3>2. nodes[at[p]].value <= nodes[at[p \div 2]].value
      BY <1>3 DEF NodesOrdered, TreeAt
    <3> QED BY <1>4, <1>5, <3>1, <3>2
  <2> QED BY <1>3, <2>1 DEF NodesOrdered
<1>10. WalkOK(at)' /\ MergeOK(at)'
  BY <1>1 DEF WalkOK, MergeOK
<1> QED BY <1>1, <1>6, <1>7, <1>8, <1>9, <1>10 DEF HeapInv, TreeAt

(* The node that is out of the tree takes a place, and the one that had it  *)
(* is out.                                                                  *)
LEMMA OutsiderPlaced ==
    ASSUME HeapTypeOK, NEW at \in [Places -> 0 .. n_nodes], NodesPlaced(at), Out # Null,
           NEW r \in 1 .. n_nodes, NEW b, b = [at EXCEPT ![r] = Out],
           n_nodes' = n_nodes, Out' = at[r]
    PROVE  /\ b \in [Places -> 0 .. n_nodes]
           /\ \A p \in Places : b[p] = IF p = r THEN Out ELSE at[p]
           /\ Filled = n_nodes - 1
           /\ at[r] = Null <=> r = n_nodes
           /\ Filled' = IF r = n_nodes THEN n_nodes ELSE n_nodes - 1
           /\ \A p \in 1 .. Filled' : p # r => p \in 1 .. Filled
           /\ NodesPlaced(b)'
<1>1. PICK n \in Nat, o \in Nat : n = n_nodes /\ o = Out /\ o \in 1 .. n
  BY HeapFacts DEF Null
<1>2. Filled = n - 1 /\ r \in Places /\ (at[r] = Null <=> r = n)
  BY <1>1, HeapFacts DEF Filled, NodesPlaced
<1>3. Filled' = IF r = n THEN n ELSE n - 1
  BY <1>1, <1>2 DEF Filled
<1>4. /\ b \in [Places -> 0 .. n]
      /\ \A p \in Places : b[p] = IF p = r THEN o ELSE at[p]
  BY <1>1, <1>2
<1>5. \A p \in 1 .. Filled' : p # r => p \in 1 .. Filled
  BY <1>1, <1>2, <1>3
<1>6. \A p \in 1 .. n : p \in Places
  BY <1>1, HeapFacts
<1>7. \A p \in Places : b[p] # Null <=> p <= Filled'
  <2>1. ASSUME NEW p \in Places PROVE b[p] # Null <=> p <= Filled'
    <3>1. CASE p = r
      BY <1>1, <1>3, <1>4, <3>1 DEF Null
    <3>2. CASE p # r
      <4>1. p \in Nat /\ b[p] = at[p] /\ (at[p] # Null <=> p <= n - 1)
        BY <1>2, <1>4, <3>2, HeapFacts DEF NodesPlaced
      <4> QED BY <1>1, <1>3, <3>2, <4>1
    <3> QED BY <3>1, <3>2
  <2> QED BY <2>1
<1>8. \A p, s \in 1 .. Filled' : b[p] = b[s] => p = s
  <2>1. ASSUME NEW p \in 1 .. Filled', NEW s \in 1 .. Filled', b[p] = b[s], p # s PROVE FALSE
    <3>1. p \in Places /\ s \in Places
      BY <1>1, <1>3, <1>6
    <3>2. p # r => p \in 1 .. Filled /\ b[p] = at[p] /\ at[p] # o
      BY <1>1, <1>4, <1>5, <3>1 DEF NodesPlaced
    <3>3. s # r => s \in 1 .. Filled /\ b[s] = at[s] /\ at[s] # o
      BY <1>1, <1>4, <1>5, <3>1 DEF NodesPlaced
    <3>4. b[r] = o
      BY <1>2, <1>4
    <3> QED BY <2>1, <3>2, <3>3, <3>4 DEF NodesPlaced
  <2> QED BY <2>1
<1>9. \A p \in 1 .. Filled' : b[p] # Out'
  <2>1. ASSUME NEW p \in 1 .. Filled' PROVE b[p] # at[r]
    <3>1. p \in Places
      BY <1>1, <1>3, <1>6
    <3>2. CASE p = r
      <4>1. b[p] = o
        BY <1>4, <3>1, <3>2
      <4>2. r # n => r \in 1 .. Filled
        BY <1>1, <1>2
      <4> QED BY <1>1, <1>2, <4>1, <4>2 DEF NodesPlaced, Null
    <3>3. CASE p # r
      <4>1. b[p] = at[p] /\ p \in 1 .. Filled /\ at[p] # Null
        BY <1>2, <1>4, <1>5, <3>1, <3>3 DEF NodesPlaced
      <4>2. r # n => r \in 1 .. Filled
        BY <1>1, <1>2
      <4> QED BY <1>2, <3>3, <4>1, <4>2 DEF NodesPlaced
    <3> QED BY <3>2, <3>3
  <2> QED BY <2>1
<1>10. \A x \in 1 .. n : x # Out' => \E p \in 1 .. Filled' : b[p] = x
  <2>1. ASSUME NEW x \in 1 .. n, x # at[r] PROVE \E p \in 1 .. Filled' : b[p] = x
    <3>1. CASE x = o
      <4>1. r \in 1 .. Filled' /\ b[r] = x
        BY <1>1, <1>2, <1>3, <1>4, <3>1
      <4> QED BY <4>1
    <3>2. CASE x # o
      <4>1. PICK p \in 1 .. Filled : at[p] = x
        BY <1>1, <3>2 DEF NodesPlaced
      <4>2. p # r /\ p \in Places /\ p \in 1 .. Filled'
        BY <1>1, <1>2, <1>3, <1>6, <2>1, <4>1
      <4> QED BY <1>4, <4>1, <4>2
    <3> QED BY <3>1, <3>2
  <2> QED BY <2>1
<1>11. NodesPlaced(b)'
  BY <1>1, <1>7, <1>8, <1>9, <1>10 DEF NodesPlaced
<1> QED BY <1>1, <1>2, <1>3, <1>4, <1>5, <1>11

(* The children of a place of the path, with the value of the node there.   *)
LEMMA PlaceFacts ==
    ASSUME NEW q \in Nat
    PROVE  /\ q >= 1 => q # 2 * q /\ q # 2 * q + 1
           /\ q > 1 => q \div 2 \in 1 .. (q - 1) /\ q # q \div 2
           /\ q % 2 \in {0, 1} /\ q = 2 * (q \div 2) + (q % 2)
           /\ (2 * q) \div 2 = q /\ (2 * q + 1) \div 2 = q
           /\ (2 * q) % 2 = 0 /\ (2 * q + 1) % 2 = 1
OBVIOUS

(* The new node takes its place, and the node that had it is the outsider.  *)
LEMMA LinkStep ==
    ASSUME HeapTypeOK, NEW at \in [Places -> 0 .. n_nodes], TreeAt(at), insert_on_path_link
    PROVE  HeapInv'
<1>1. /\ step = "walk" /\ step' = "merge" /\ edge' = n_nodes /\ outsider' = current
      /\ n_nodes' = n_nodes /\ mask' = mask
      /\ current # Null => ~ (nodes[n_nodes].value < nodes[current].value)
  BY DEF insert_on_path_link, Descends, Less
<1>2. PICK n \in Nat, q \in Nat : n = n_nodes /\ q = PathPlace /\ q >= 1 /\ q <= n /\ PathPlace' = q
  BY <1>1, PathPlaces, HeapFacts DEF PathPlace, TreeAt, WalkOK
<1>3. /\ mask \in Masks /\ mask <= n /\ current = at[q] /\ mask \in Nat /\ mask >= 1
      /\ parent = IF q = 1 THEN Null ELSE at[q \div 2]
      /\ q > 1 => nodes[n].value < nodes[parent].value
  BY <1>1, <1>2, ShiftedMask DEF WalkOK, TreeAt
<1>4. Out = n /\ Out # Null /\ Out' = at[q] /\ q \in 1 .. n_nodes
  BY <1>1, <1>2, <1>3 DEF Out, Null
<1>5. PICK b : b = [at EXCEPT ![q] = Out]
  OBVIOUS
<1>6. /\ b \in [Places -> 0 .. n_nodes]
      /\ \A p \in Places : b[p] = IF p = q THEN n ELSE at[p]
      /\ Filled = n - 1
      /\ at[q] = Null <=> q = n
      /\ Filled' = IF q = n THEN n ELSE n - 1
      /\ \A p \in 1 .. Filled' : p # q => p \in 1 .. Filled
      /\ NodesPlaced(b)'
  BY <1>1, <1>2, <1>4, <1>5, OutsiderPlaced DEF TreeAt
<1>7. /\ \A p \in 1 .. n : p \in Places /\ 2 * p \in Places /\ 2 * p + 1 \in Places
      /\ \A p \in 1 .. (n - 1) : at[p] \in 1 .. n /\ at[p] # n
      /\ \A p, s \in 1 .. (n - 1) : at[p] = at[s] => p = s
  <2>1. \A p \in 1 .. n : p \in Places /\ 2 * p \in Places /\ 2 * p + 1 \in Places
    BY <1>2, HeapFacts
  <2>2. ASSUME NEW p \in 1 .. (n - 1) PROVE at[p] \in 1 .. n /\ at[p] # n
    <3>1. at[p] # Null /\ at[p] # n /\ p \in Places
      BY <1>4, <1>6, <2>1 DEF NodesPlaced, TreeAt
    <3> QED BY <1>2, <3>1 DEF Null
  <2>3. \A p, s \in 1 .. (n - 1) : at[p] = at[s] => p = s
    BY <1>6 DEF NodesPlaced, TreeAt
  <2> QED BY <2>1, <2>2, <2>3
<1>8. q > 1 => q \div 2 \in 1 .. (n - 1) /\ parent = at[q \div 2] /\ parent \in 1 .. n /\ parent # n
  BY <1>2, <1>3, <1>7, PlaceFacts
<1>9. /\ root' = IF q = 1 THEN n ELSE root
      /\ nodes' \in [1 .. n -> [value : HeapValues, left : 0 .. n, right : 0 .. n]]
      /\ \A y \in 1 .. n :
           /\ nodes'[y].value = nodes[y].value
           /\ nodes'[y].left = IF q > 1 /\ y = parent /\ q % 2 = 0 THEN n ELSE nodes[y].left
           /\ nodes'[y].right = IF q > 1 /\ y = parent /\ q % 2 = 1 THEN n ELSE nodes[y].right
  <2>1. CASE q = 1
    <3>1. root' = n /\ nodes' = nodes
      BY <1>2, <1>3, <2>1 DEF insert_on_path_link
    <3> QED BY <1>2, <2>1, <3>1 DEF HeapTypeOK
  <2>2. CASE q # 1
    <3>1. q > 1 /\ parent # Null
      BY <1>2, <1>8, <2>2 DEF Null
    <3>2. root' = root /\ nodes' = set_child(nodes, parent, Bit(n, mask), n)
      BY <1>2, <3>1 DEF insert_on_path_link
    <3>3. Bit(n, mask) <=> q % 2 = 1
      BY <1>2, <1>3 DEF Bit, PathPlace
    <3>4. q % 2 \in {0, 1}
      BY PlaceFacts
    <3>5. n \in 0 .. n /\ nodes \in NodesOf(n) /\ parent \in 1 .. n
      BY <1>2, <1>8, <3>1 DEF HeapTypeOK, NodesOf
    <3>6. CASE q % 2 = 1
      <4>1. nodes' = [nodes EXCEPT ![parent].right = n]
        BY <3>2, <3>3, <3>6 DEF set_child
      <4>2. /\ nodes' \in NodesOf(n)
            /\ \A y \in 1 .. n : /\ nodes'[y].value = nodes[y].value
                                 /\ nodes'[y].left = nodes[y].left
                                 /\ nodes'[y].right = IF y = parent THEN n ELSE nodes[y].right
        BY <3>5, <4>1 DEF NodesOf
      <4> QED BY <2>2, <3>1, <3>2, <3>6, <4>2 DEF NodesOf
    <3>7. CASE q % 2 = 0
      <4>1. nodes' = [nodes EXCEPT ![parent].left = n]
        BY <3>2, <3>3, <3>7 DEF set_child
      <4>2. /\ nodes' \in NodesOf(n)
            /\ \A y \in 1 .. n : /\ nodes'[y].value = nodes[y].value
                                 /\ nodes'[y].left = IF y = parent THEN n ELSE nodes[y].left
                                 /\ nodes'[y].right = nodes[y].right
        BY <3>5, <4>1 DEF NodesOf
      <4> QED BY <2>2, <3>1, <3>2, <3>7, <4>2 DEF NodesOf
    <3> QED BY <3>4, <3>6, <3>7
  <2> QED BY <2>1, <2>2
<1>10. HeapTypeOK'
  <2>1. outsider' \in 0 .. n /\ n \in 0 .. MaxNodes
    BY <1>1, <1>2, <1>3, <1>7, HeapFacts
  <2> QED BY <1>1, <1>2, <1>9, <2>1 DEF HeapTypeOK
<1>11. ASSUME NEW p \in 1 .. Filled'
       PROVE  b[2 * p] = Child(b[p], FALSE)' /\ b[2 * p + 1] = Child(b[p], TRUE)'
  <2>1. p \in 1 .. n /\ p \in Places /\ 2 * p \in Places /\ 2 * p + 1 \in Places
    BY <1>2, <1>6, <1>7
  <2>2. CASE p = q
    <3>1. b[p] = n /\ Holder(b[p])' = at[q]
      BY <1>1, <1>2, <1>3, <1>6, <2>1, <2>2 DEF Holder
    <3>2. 2 * q # q /\ 2 * q + 1 # q /\ b[2 * p] = at[2 * q] /\ b[2 * p + 1] = at[2 * q + 1]
      BY <1>2, <1>6, <2>1, <2>2
    <3>3. CASE q = n
      <4>1. at[2 * q] = Null /\ at[2 * q + 1] = Null
        BY <1>2, <1>6, <2>1, <2>2, <3>3 DEF NodesPlaced, TreeAt
      <4> QED BY <1>6, <3>1, <3>2, <3>3, <4>1 DEF Child
    <3>4. CASE q # n
      <4>1. q \in 1 .. (n - 1) /\ at[q] \in 1 .. n /\ at[q] # Null
        BY <1>2, <1>7, <3>4 DEF Null
      <4>2. at[2 * q] = nodes[at[q]].left /\ at[2 * q + 1] = nodes[at[q]].right
        BY <1>1, <1>6, <4>1 DEF TreeAt, NodesLinked, Child, Holder, get_child
      <4>3. q > 1 => at[q] # parent
        BY <1>7, <1>8, <4>1, PlaceFacts
      <4>4. nodes'[at[q]].left = nodes[at[q]].left /\ nodes'[at[q]].right = nodes[at[q]].right
        BY <1>9, <4>1, <4>3
      <4> QED BY <3>1, <3>2, <4>1, <4>2, <4>4 DEF Child, get_child
    <3> QED BY <3>3, <3>4
  <2>3. CASE p # q
    <3>1. p \in 1 .. (n - 1) /\ b[p] = at[p] /\ at[p] \in 1 .. n /\ at[p] # n /\ at[p] # Null
      BY <1>6, <1>7, <2>1, <2>3 DEF Null
    <3>2. Holder(b[p])' = at[p]
      BY <1>1, <1>2, <3>1 DEF Holder
    <3>3. at[2 * p] = nodes[at[p]].left /\ at[2 * p + 1] = nodes[at[p]].right
      BY <1>1, <1>6, <3>1 DEF TreeAt, NodesLinked, Child, Holder, get_child
    <3>4. 2 * p = q <=> q > 1 /\ at[p] = parent /\ q % 2 = 0
      <4>1. 2 * p = q => q > 1 /\ q \div 2 = p /\ q % 2 = 0
        BY <2>1
      <4>2. q > 1 /\ at[p] = parent => p = q \div 2
        BY <1>7, <1>8, <3>1
      <4>3. q % 2 = 0 /\ p = q \div 2 => 2 * p = q
        BY PlaceFacts
      <4> QED BY <1>8, <4>1, <4>2, <4>3
    <3>5. 2 * p + 1 = q <=> q > 1 /\ at[p] = parent /\ q % 2 = 1
      <4>1. 2 * p + 1 = q => q > 1 /\ q \div 2 = p /\ q % 2 = 1
        BY <2>1
      <4>2. q > 1 /\ at[p] = parent => p = q \div 2
        BY <1>7, <1>8, <3>1
      <4>3. q % 2 = 1 /\ p = q \div 2 => 2 * p + 1 = q
        BY PlaceFacts
      <4> QED BY <1>8, <4>1, <4>2, <4>3
    <3>6. b[2 * p] = nodes'[at[p]].left
      BY <1>6, <1>9, <2>1, <3>1, <3>3, <3>4
    <3>7. b[2 * p + 1] = nodes'[at[p]].right
      BY <1>6, <1>9, <2>1, <3>1, <3>3, <3>5
    <3> QED BY <3>1, <3>2, <3>6, <3>7 DEF Child, get_child
  <2> QED BY <2>2, <2>3
<1>12. NodesLinked(b)'
  <2>1. b[1] = root'
    <3>1. 1 \in Places /\ at[1] = root
      BY <1>2, <1>7 DEF NodesLinked, TreeAt
    <3> QED BY <1>2, <1>6, <1>9, <3>1
  <2> QED BY <1>11, <2>1 DEF NodesLinked
<1>13. \A p \in 2 .. (n - 1) : nodes[at[p]].value <= nodes[at[p \div 2]].value
  BY <1>6 DEF TreeAt, NodesOrdered
<1>14. \A p \in 2 .. (n - 1) : p \div 2 = q => q # n /\ current = at[q] /\ nodes'[at[p]].value <= nodes'[n].value
                                              /\ nodes'[at[p]].value <= nodes'[current].value
  <2>1. ASSUME NEW p \in 2 .. (n - 1), p \div 2 = q
        PROVE  q # n /\ nodes'[at[p]].value <= nodes'[n].value /\ nodes'[at[p]].value <= nodes'[current].value
    <3>1. q \in 1 .. (n - 1) /\ p \in 1 .. (n - 1)
      BY <2>1, HalfIsLess
    <3>2. at[p] \in 1 .. n /\ current \in 1 .. n /\ n \in 1 .. n /\ current # Null
      BY <1>3, <1>7, <3>1 DEF Null
    <3>3. nodes[at[p]].value <= nodes[current].value
      BY <1>3, <1>13, <2>1
    <3>4. ~ (nodes[n].value < nodes[current].value)
      BY <1>1, <1>2, <3>2
    <3>5. nodes[at[p]].value \in Int /\ nodes[n].value \in Int /\ nodes[current].value \in Int
      BY <1>2, <3>2, HeapFacts
    <3>6. /\ nodes'[at[p]].value = nodes[at[p]].value /\ nodes'[n].value = nodes[n].value
          /\ nodes'[current].value = nodes[current].value
      BY <1>9, <3>2
    <3>7. nodes[at[p]].value <= nodes[n].value
      BY <3>3, <3>4, <3>5
    <3> QED BY <3>1, <3>3, <3>6, <3>7
  <2> QED BY <1>3, <2>1
<1>15. NodesOrdered(b)'
  <2>1. ASSUME NEW p \in 2 .. Filled'
        PROVE  nodes'[b[p]].value <= nodes'[b[p \div 2]].value
    <3>1. p \in 1 .. n /\ p \div 2 \in 1 .. (n - 1) /\ p \div 2 # p
      BY <1>2, <1>6, HalfIsLess
    <3>2. CASE p = q
      <4>1. b[p] = n /\ b[p \div 2] = parent /\ nodes[n].value < nodes[parent].value /\ parent \in 1 .. n
        BY <1>3, <1>6, <1>7, <1>8, <3>1, <3>2
      <4>2. nodes[n].value \in Int /\ nodes[parent].value \in Int /\ n \in 1 .. n
        BY <1>2, <4>1, HeapFacts
      <4> QED BY <1>9, <4>1, <4>2
    <3>3. CASE p # q
      <4>1. p \in 2 .. (n - 1) /\ b[p] = at[p]
        BY <1>6, <1>7, <3>1, <3>3
      <4>2. CASE p \div 2 = q
        <5>1. b[p \div 2] = n
          BY <1>6, <1>7, <3>1, <4>2
        <5> QED BY <1>14, <4>1, <4>2, <5>1
      <4>3. CASE p \div 2 # q
        <5>1. b[p \div 2] = at[p \div 2] /\ at[p \div 2] \in 1 .. n /\ at[p] \in 1 .. n
          BY <1>6, <1>7, <3>1, <4>1, <4>3
        <5> QED BY <1>9, <1>13, <4>1, <5>1
      <4> QED BY <4>2, <4>3
    <3> QED BY <3>2, <3>3
  <2> QED BY <2>1 DEF NodesOrdered
<1>16. MergeOK(b)'
  <2>1. mask' \in Masks /\ mask' <= n_nodes' /\ edge' = b[q]
    BY <1>1, <1>2, <1>3, <1>6, <1>7
  <2>2. outsider' = Null <=> q = n
    BY <1>1, <1>3, <1>6
  <2>3. ASSUME outsider' # Null
        PROVE  /\ nodes'[outsider'].value <= nodes'[edge'].value
               /\ \A p \in {2 * q, 2 * q + 1} :
                    p <= Filled' => nodes'[b[p]].value <= nodes'[outsider'].value
    <3>1. q \in 1 .. (n - 1) /\ current \in 1 .. n /\ n \in 1 .. n /\ Filled' = n - 1 /\ current # Null
      BY <1>2, <1>3, <1>6, <1>7, <2>2, <2>3 DEF Null
    <3>2. ~ (nodes[n].value < nodes[current].value) /\ nodes[n].value \in Int /\ nodes[current].value \in Int
      BY <1>1, <1>2, <3>1, HeapFacts
    <3>3. nodes'[current].value <= nodes'[n].value
      <4>1. nodes[current].value <= nodes[n].value
        BY <3>2
      <4>2. nodes'[current].value = nodes[current].value /\ nodes'[n].value = nodes[n].value
        BY <1>9, <3>1
      <4> QED BY <4>1, <4>2
    <3>4. ASSUME NEW p \in {2 * q, 2 * q + 1}, p <= Filled'
          PROVE  nodes'[b[p]].value <= nodes'[current].value
      <4>1. p \in 2 .. (n - 1) /\ p # q /\ p \div 2 = q /\ p \in Places
        BY <1>7, <3>1, <3>4
      <4> QED BY <1>6, <1>14, <4>1
    <3> QED BY <1>1, <1>2, <3>3, <3>4
  <2> QED BY <1>1, <1>2, <2>1, <2>2, <2>3 DEF MergeOK
<1>17. WalkOK(b)'
  BY <1>1 DEF WalkOK
<1> QED BY <1>1, <1>6, <1>10, <1>12, <1>15, <1>16, <1>17 DEF HeapInv, TreeAt

(* The outsider takes the next place of the path; the edge gets it and the  *)
(* other child of the outsider.                                             *)
LEMMA MergeStep ==
    ASSUME HeapTypeOK, NEW at \in [Places -> 0 .. n_nodes], TreeAt(at), merge_on_path
    PROVE  HeapInv'
<1>1. /\ step = "merge" /\ step' = "merge" /\ outsider # Null /\ edge' = outsider
      /\ n_nodes' = n_nodes /\ mask' = mask \div 2 /\ root' = root
      /\ outsider' = get_child(outsider, Bit(n_nodes, mask \div 2))
  BY DEF merge_on_path
<1>2. PICK n \in Nat, q \in Nat, o \in Nat, e \in Nat :
        /\ n = n_nodes /\ q = n \div mask /\ q = PathPlace /\ q >= 1 /\ q <= n - 1
        /\ o = outsider /\ e = edge /\ o \in 1 .. n /\ e = at[q]
  <2>1. n_nodes \in Nat /\ mask \in Masks /\ mask <= n_nodes /\ edge = at[PathPlace] /\ PathPlace # n_nodes
        /\ outsider \in Nat /\ outsider \in 1 .. n_nodes
    BY <1>1, HeapFacts DEF HeapTypeOK, TreeAt, MergeOK, Null
  <2>2. PICK q \in Nat : q = PathPlace /\ q >= 1 /\ q <= n_nodes - 1
    BY <2>1, PathPlaces DEF PathPlace
  <2>3. q \in Places /\ at[q] \in Nat
    <3>1. q \in 1 .. n_nodes
      BY <2>1, <2>2
    <3>2. q \in Places
      BY <3>1, HeapFacts
    <3> QED BY <2>1, <3>2
  <2> QED BY <2>1, <2>2, <2>3 DEF PathPlace
<1>3. PICK r \in Nat : /\ r = PathPlace' /\ r <= n /\ r = 2 * q + (IF Bit(n, mask \div 2) THEN 1 ELSE 0)
                       /\ mask' \in Masks /\ mask' <= n
  <2>1. mask \div 2 \in Masks /\ mask \div 2 <= n
        /\ n \div (mask \div 2) = 2 * q + (IF Bit(n, mask \div 2) THEN 1 ELSE 0)
        /\ n \div (mask \div 2) <= n
    <3>1. mask \in Masks /\ mask <= n /\ n \div mask < n
      BY <1>1, <1>2 DEF TreeAt, MergeOK
    <3> QED BY <1>2, <3>1, PathPlaces, Zenon
  <2>2. PathPlace' = n \div (mask \div 2)
    BY <1>1, <1>2 DEF PathPlace
  <2>3. 2 * q + (IF Bit(n, mask \div 2) THEN 1 ELSE 0) \in Nat
    OBVIOUS
  <2> QED BY <1>1, <2>1, <2>2, <2>3
<1>4. /\ Out = o /\ Filled = n - 1
      /\ \A p \in 1 .. n : p \in Places /\ 2 * p \in Places /\ 2 * p + 1 \in Places
      /\ q \in 1 .. (n - 1) /\ r \in 1 .. n /\ r # q /\ r > 1 /\ r \div 2 = q
  <2>1. Out = o /\ Filled = n - 1
    BY <1>1, <1>2 DEF Out, Filled
  <2>2. \A p \in 1 .. n : p \in Places /\ 2 * p \in Places /\ 2 * p + 1 \in Places
    BY <1>2, HeapFacts
  <2>3. q \in 1 .. (n - 1) /\ r \in 1 .. n /\ r # q /\ r > 1 /\ r \div 2 = q
    BY <1>2, <1>3
  <2> QED BY <2>1, <2>2, <2>3
<1>5. /\ \A p \in 1 .. (n - 1) : at[p] \in 1 .. n /\ at[p] # o
      /\ \A p, s \in 1 .. (n - 1) : at[p] = at[s] => p = s
  <2>1. ASSUME NEW p \in 1 .. (n - 1) PROVE at[p] \in 1 .. n /\ at[p] # o
    <3>1. at[p] # Null /\ at[p] # o /\ p \in Places
      BY <1>4 DEF NodesPlaced, TreeAt
    <3> QED BY <1>2, <3>1 DEF Null
  <2>2. \A p, s \in 1 .. (n - 1) : at[p] = at[s] => p = s
    BY <1>4 DEF NodesPlaced, TreeAt
  <2> QED BY <2>1, <2>2
<1>6. e \in 1 .. n /\ e # o
  BY <1>2, <1>4, <1>5
<1>7. at[2 * q] = nodes[o].left /\ at[2 * q + 1] = nodes[o].right
  BY <1>1, <1>2, <1>4 DEF TreeAt, NodesLinked, Child, Holder, get_child
<1>8. outsider' = at[r]
  BY <1>1, <1>2, <1>3, <1>7 DEF get_child
<1>9. PICK b : b = [at EXCEPT ![r] = Out]
  OBVIOUS
<1>10. Out' = at[r] /\ Out # Null
  BY <1>1, <1>2, <1>4, <1>8 DEF Out
<1>11. /\ b \in [Places -> 0 .. n]
       /\ \A p \in Places : b[p] = IF p = r THEN o ELSE at[p]
       /\ at[r] = Null <=> r = n
       /\ Filled' = IF r = n THEN n ELSE n - 1
       /\ \A p \in 1 .. Filled' : p # r => p \in 1 .. (n - 1)
       /\ NodesPlaced(b)'
  <2>1. NodesPlaced(at) /\ r \in 1 .. n_nodes
    BY <1>2, <1>4 DEF TreeAt
  <2>2. /\ b \in [Places -> 0 .. n_nodes]
        /\ \A p \in Places : b[p] = IF p = r THEN Out ELSE at[p]
        /\ at[r] = Null <=> r = n_nodes
        /\ Filled' = IF r = n_nodes THEN n_nodes ELSE n_nodes - 1
        /\ \A p \in 1 .. Filled' : p # r => p \in 1 .. Filled
        /\ NodesPlaced(b)'
    BY <1>1, <1>9, <1>10, <2>1, OutsiderPlaced
  <2> QED BY <1>2, <1>4, <2>2
<1>12. /\ nodes' \in NodesOf(n)
       /\ \A y \in 1 .. n :
            /\ nodes'[y].value = nodes[y].value
            /\ nodes'[y].left = IF y = e THEN (IF r = 2 * q THEN o ELSE nodes[o].left) ELSE nodes[y].left
            /\ nodes'[y].right = IF y = e THEN (IF r = 2 * q THEN nodes[o].right ELSE o) ELSE nodes[y].right
  <2>1. nodes \in NodesOf(n) /\ o \in 0 .. n /\ nodes[o].left \in 0 .. n /\ nodes[o].right \in 0 .. n
    BY <1>2 DEF HeapTypeOK, NodesOf
  <2>2. CASE Bit(n, mask \div 2)
    <3>1. PICK mid : mid = [nodes EXCEPT ![e].left = nodes[o].left]
      OBVIOUS
    <3>2. nodes' = [mid EXCEPT ![e].right = o]
      BY <1>2, <2>2, <3>1 DEF merge_on_path, set_child, get_child
    <3>3. /\ mid \in NodesOf(n)
          /\ \A y \in 1 .. n : /\ mid[y].value = nodes[y].value
                               /\ mid[y].left = IF y = e THEN nodes[o].left ELSE nodes[y].left
                               /\ mid[y].right = nodes[y].right
      BY <1>6, <2>1, <3>1 DEF NodesOf
    <3>4. /\ nodes' \in NodesOf(n)
          /\ \A y \in 1 .. n : /\ nodes'[y].value = mid[y].value
                               /\ nodes'[y].left = mid[y].left
                               /\ nodes'[y].right = IF y = e THEN o ELSE mid[y].right
      <4>1. /\ nodes' = [y \in 1 .. n |-> nodes'[y]]
            /\ \A y \in 1 .. n : mid[y] \in [value : HeapValues, left : 0 .. n, right : 0 .. n]
        BY <3>2, <3>3 DEF NodesOf
      <4>2. \A y \in 1 .. n : y # e => nodes'[y] = mid[y]
        BY <3>2, <3>3 DEF NodesOf
      <4>3. nodes'[e] = [mid[e] EXCEPT !.right = o]
        BY <1>6, <3>2, <3>3 DEF NodesOf
      <4>4. nodes'[e] \in [value : HeapValues, left : 0 .. n, right : 0 .. n]
        BY <1>6, <2>1, <4>1, <4>3
      <4>5. nodes' \in NodesOf(n)
        BY <4>1, <4>2, <4>4 DEF NodesOf
      <4>6. /\ nodes'[e].value = mid[e].value
            /\ nodes'[e].right = o /\ nodes'[e].left = mid[e].left
        BY <1>6, <4>1, <4>3
      <4> QED BY <4>2, <4>5, <4>6
    <3>5. r # 2 * q
      BY <1>3, <2>2
    <3> QED BY <3>3, <3>4, <3>5
  <2>3. CASE ~ Bit(n, mask \div 2)
    <3>1. PICK mid : mid = [nodes EXCEPT ![e].right = nodes[o].right]
      OBVIOUS
    <3>2. nodes' = [mid EXCEPT ![e].left = o]
      BY <1>2, <2>3, <3>1 DEF merge_on_path, set_child, get_child
    <3>3. /\ mid \in NodesOf(n)
          /\ \A y \in 1 .. n : /\ mid[y].value = nodes[y].value
                               /\ mid[y].left = nodes[y].left
                               /\ mid[y].right = IF y = e THEN nodes[o].right ELSE nodes[y].right
      BY <1>6, <2>1, <3>1 DEF NodesOf
    <3>4. /\ nodes' \in NodesOf(n)
          /\ \A y \in 1 .. n : /\ nodes'[y].value = mid[y].value
                               /\ nodes'[y].left = IF y = e THEN o ELSE mid[y].left
                               /\ nodes'[y].right = mid[y].right
      <4>1. /\ nodes' = [y \in 1 .. n |-> nodes'[y]]
            /\ \A y \in 1 .. n : mid[y] \in [value : HeapValues, left : 0 .. n, right : 0 .. n]
        BY <3>2, <3>3 DEF NodesOf
      <4>2. \A y \in 1 .. n : y # e => nodes'[y] = mid[y]
        BY <3>2, <3>3 DEF NodesOf
      <4>3. nodes'[e] = [mid[e] EXCEPT !.left = o]
        BY <1>6, <3>2, <3>3 DEF NodesOf
      <4>4. nodes'[e] \in [value : HeapValues, left : 0 .. n, right : 0 .. n]
        BY <1>6, <2>1, <4>1, <4>3
      <4>5. nodes' \in NodesOf(n)
        BY <4>1, <4>2, <4>4 DEF NodesOf
      <4>6. /\ nodes'[e].value = mid[e].value
            /\ nodes'[e].left = o /\ nodes'[e].right = mid[e].right
        BY <1>6, <4>1, <4>3
      <4> QED BY <4>2, <4>5, <4>6
    <3>5. r = 2 * q
      BY <1>3, <2>3
    <3> QED BY <3>3, <3>4, <3>5
  <2> QED BY <2>2, <2>3
<1>13. HeapTypeOK'
  <2>1. outsider' \in 0 .. n /\ n \in 0 .. MaxNodes
    BY <1>2, <1>4, <1>8, HeapFacts
  <2> QED BY <1>1, <1>2, <1>12, <2>1 DEF HeapTypeOK, NodesOf
<1>14. ASSUME NEW p \in 1 .. Filled'
       PROVE  b[2 * p] = Child(b[p], FALSE)' /\ b[2 * p + 1] = Child(b[p], TRUE)'
  <2>1. p \in 1 .. n /\ p \in Places /\ 2 * p \in Places /\ 2 * p + 1 \in Places
    BY <1>2, <1>4, <1>11
  <2>2. CASE p = r
    <3>1. b[p] = o /\ Holder(b[p])' = at[r]
      BY <1>1, <1>2, <1>8, <1>11, <2>1, <2>2 DEF Holder
    <3>2. 2 * r # r /\ 2 * r + 1 # r /\ b[2 * p] = at[2 * r] /\ b[2 * p + 1] = at[2 * r + 1]
      BY <1>4, <1>11, <2>1, <2>2
    <3>3. CASE r = n
      <4>1. at[2 * r] = Null /\ at[2 * r + 1] = Null
        <5>1. ~ (2 * r <= n - 1) /\ ~ (2 * r + 1 <= n - 1)
          BY <1>4, <3>3
        <5> QED BY <1>4, <2>1, <2>2, <5>1 DEF NodesPlaced, TreeAt
      <4> QED BY <1>11, <3>1, <3>2, <3>3, <4>1 DEF Child
    <3>4. CASE r # n
      <4>1. r \in 1 .. (n - 1) /\ at[r] \in 1 .. n /\ at[r] # Null /\ at[r] # e
        BY <1>2, <1>4, <1>5, <1>11, <3>4
      <4>2. at[2 * r] = nodes[at[r]].left /\ at[2 * r + 1] = nodes[at[r]].right
        BY <1>1, <1>2, <1>4, <4>1 DEF TreeAt, NodesLinked, Child, Holder, get_child
      <4>3. nodes'[at[r]].left = nodes[at[r]].left /\ nodes'[at[r]].right = nodes[at[r]].right
        BY <1>12, <4>1
      <4> QED BY <3>1, <3>2, <4>1, <4>2, <4>3 DEF Child, get_child
    <3> QED BY <3>3, <3>4
  <2>3. CASE p # r
    <3>1. p \in 1 .. (n - 1) /\ b[p] = at[p] /\ at[p] \in 1 .. n /\ at[p] # o /\ at[p] # Null
      BY <1>5, <1>11, <2>1, <2>3 DEF Null
    <3>2. Holder(b[p])' = at[p]
      BY <1>1, <1>2, <3>1 DEF Holder
    <3>3. CASE p = q
      <4>1. b[2 * p] = nodes'[at[p]].left
        BY <1>2, <1>7, <1>11, <1>12, <2>1, <3>1, <3>3
      <4>2. r = 2 * q \/ r = 2 * q + 1
        BY <1>3
      <4>3. b[2 * p + 1] = nodes'[at[p]].right
        BY <1>2, <1>7, <1>11, <1>12, <2>1, <3>1, <3>3, <4>2
      <4> QED BY <3>1, <3>2, <4>1, <4>3 DEF Child, get_child
    <3>4. CASE p # q
      <4>1. at[p] # e /\ 2 * p # r /\ 2 * p + 1 # r
        BY <1>2, <1>3, <1>4, <1>5, <3>1, <3>4
      <4>2. at[2 * p] = nodes[at[p]].left /\ at[2 * p + 1] = nodes[at[p]].right
        BY <1>1, <1>2, <1>4, <3>1, <4>1 DEF TreeAt, NodesLinked, Child, Holder, get_child
      <4>3. b[2 * p] = at[2 * p] /\ b[2 * p + 1] = at[2 * p + 1]
        BY <1>11, <2>1, <4>1
      <4>4. nodes'[at[p]].left = nodes[at[p]].left /\ nodes'[at[p]].right = nodes[at[p]].right
        BY <1>12, <3>1, <4>1
      <4> QED BY <3>1, <3>2, <4>2, <4>3, <4>4 DEF Child, get_child
    <3> QED BY <3>3, <3>4
  <2> QED BY <2>2, <2>3
<1>15. NodesLinked(b)'
  <2>1. 1 \in Places /\ at[1] = root /\ r # 1
    BY <1>2, <1>4 DEF NodesLinked, TreeAt
  <2>2. b[1] = root'
    BY <1>1, <1>11, <2>1
  <2> QED BY <1>14, <2>2 DEF NodesLinked
<1>16. \A p \in 2 .. (n - 1) : nodes[at[p]].value <= nodes[at[p \div 2]].value
  BY <1>4 DEF TreeAt, NodesOrdered
<1>17. /\ nodes[o].value <= nodes[e].value
       /\ r <= n - 1 => nodes[at[r]].value <= nodes[o].value
  <2>1. r \in {2 * q, 2 * q + 1}
    BY <1>3
  <2>2. nodes[o].value <= nodes[e].value
    BY <1>1, <1>2 DEF TreeAt, MergeOK
  <2>3. \A p \in {2 * q, 2 * q + 1} : p <= n - 1 => nodes[at[p]].value <= nodes[o].value
    BY <1>1, <1>2, <1>4 DEF TreeAt, MergeOK
  <2> QED BY <2>1, <2>2, <2>3
<1>18. ASSUME NEW p \in 2 .. (n - 1), p \div 2 = r
       PROVE  /\ r \in 1 .. (n - 1) /\ at[r] \in 1 .. n /\ at[p] \in 1 .. n
              /\ nodes'[at[p]].value <= nodes'[at[r]].value
              /\ nodes'[at[p]].value <= nodes'[o].value
  <2>1. r \in 1 .. (n - 1) /\ p \in 1 .. (n - 1) /\ r <= n - 1
    BY <1>4, <1>18, HalfIsLess
  <2>2. at[p] \in 1 .. n /\ at[r] \in 1 .. n
    BY <1>5, <2>1
  <2>3. nodes[at[p]].value <= nodes[at[r]].value
    BY <1>16, <1>18
  <2>4. nodes[at[p]].value \in Int /\ nodes[at[r]].value \in Int /\ nodes[o].value \in Int
    BY <1>2, <2>2, HeapFacts
  <2>5. nodes[at[p]].value <= nodes[o].value
    BY <1>17, <2>1, <2>3, <2>4
  <2>6. /\ nodes'[at[p]].value = nodes[at[p]].value /\ nodes'[at[r]].value = nodes[at[r]].value
        /\ nodes'[o].value = nodes[o].value
    BY <1>2, <1>12, <2>2
  <2> QED BY <2>1, <2>2, <2>3, <2>5, <2>6
<1>19. NodesOrdered(b)'
  <2>1. ASSUME NEW p \in 2 .. Filled'
        PROVE  nodes'[b[p]].value <= nodes'[b[p \div 2]].value
    <3>1. p \in 1 .. n /\ p \div 2 \in 1 .. (n - 1) /\ p \div 2 # p /\ p \in Places /\ p \div 2 \in Places
      BY <1>2, <1>4, <1>11, HalfIsLess
    <3>2. CASE p = r
      <4>1. b[p] = o /\ p \div 2 = q /\ b[q] = e
        BY <1>2, <1>4, <1>11, <3>1, <3>2
      <4>2. nodes'[o].value = nodes[o].value /\ nodes'[e].value = nodes[e].value
        BY <1>2, <1>6, <1>12
      <4>3. b[p \div 2] = e
        BY <4>1
      <4> QED BY <1>17, <4>1, <4>2, <4>3
    <3>3. CASE p # r
      <4>1. p \in 2 .. (n - 1) /\ b[p] = at[p]
        BY <1>11, <2>1, <3>1, <3>3
      <4>2. CASE p \div 2 = r
        <5>1. b[p \div 2] = o
          BY <1>11, <3>1, <4>2
        <5> QED BY <1>18, <4>1, <4>2, <5>1
      <4>3. CASE p \div 2 # r
        <5>1. b[p \div 2] = at[p \div 2] /\ at[p \div 2] \in 1 .. n /\ at[p] \in 1 .. n
          BY <1>5, <1>11, <3>1, <4>1, <4>3
        <5>2. nodes[at[p]].value <= nodes[at[p \div 2]].value
          BY <1>16, <4>1
        <5> QED BY <1>12, <4>1, <5>1, <5>2
      <4> QED BY <4>2, <4>3
    <3> QED BY <3>2, <3>3
  <2> QED BY <2>1 DEF NodesOrdered
<1>20. MergeOK(b)'
  <2>1. mask' \in Masks /\ mask' <= n_nodes' /\ edge' = b[r]
    BY <1>1, <1>2, <1>3, <1>4, <1>11
  <2>2. outsider' = Null <=> r = n
    BY <1>8, <1>11
  <2>3. ASSUME outsider' # Null
        PROVE  /\ nodes'[outsider'].value <= nodes'[edge'].value
               /\ \A p \in {2 * r, 2 * r + 1} :
                    p <= Filled' => nodes'[b[p]].value <= nodes'[outsider'].value
    <3>1. r \in 1 .. (n - 1) /\ at[r] \in 1 .. n /\ Filled' = n - 1 /\ r <= n - 1
      BY <1>4, <1>5, <1>11, <2>2, <2>3
    <3>2. nodes'[at[r]].value <= nodes'[o].value
      <4>1. nodes'[at[r]].value = nodes[at[r]].value /\ nodes'[o].value = nodes[o].value
        BY <1>2, <1>12, <3>1
      <4> QED BY <1>17, <3>1, <4>1
    <3>3. ASSUME NEW p \in {2 * r, 2 * r + 1}, p <= Filled'
          PROVE  nodes'[b[p]].value <= nodes'[at[r]].value
      <4>1. p \in 2 .. (n - 1) /\ p # r /\ p \div 2 = r /\ p \in Places
        BY <1>4, <3>1, <3>3
      <4>2. b[p] = at[p]
        BY <1>11, <4>1
      <4> QED BY <1>18, <4>1, <4>2
    <3> QED BY <1>1, <1>2, <1>8, <3>2, <3>3
  <2> QED BY <1>1, <1>2, <1>3, <2>1, <2>2, <2>3 DEF MergeOK
<1>21. WalkOK(b)'
  BY <1>1 DEF WalkOK
<1> QED BY <1>1, <1>2, <1>11, <1>13, <1>15, <1>19, <1>20, <1>21 DEF HeapInv, TreeAt

(* Every step preserves the invariant. *)
LEMMA HeapStep == HeapInv /\ [HeapNext]_heapVars => HeapInv'
<1> SUFFICES ASSUME HeapInv, [HeapNext]_heapVars PROVE HeapInv'
  OBVIOUS
<1>1. HeapTypeOK
  BY DEF HeapInv
<1>2. PICK at \in [Places -> 0 .. n_nodes] : TreeAt(at)
  BY DEF HeapInv
<1>3. ASSUME NEW v \in HeapValues, heap_insert(v) PROVE HeapInv'
  BY <1>1, <1>2, <1>3, HeapInsertStep
<1>4. CASE insert_on_path_walk
  BY <1>1, <1>2, <1>4, WalkStep
<1>5. CASE insert_on_path_link
  BY <1>1, <1>2, <1>5, LinkStep
<1>6. CASE merge_on_path
  BY <1>1, <1>2, <1>6, MergeStep
<1>7. CASE merge_on_path_end
  BY <1>1, <1>2, <1>7, MergeEndStep
<1>8. CASE heap_clear
  BY <1>1, <1>8, HeapClearStep
<1>9. CASE UNCHANGED heapVars
  <2>1. /\ n_nodes' = n_nodes /\ root' = root /\ nodes' = nodes /\ step' = step /\ mask' = mask
        /\ parent' = parent /\ current' = current /\ edge' = edge /\ outsider' = outsider
    BY <1>9 DEF heapVars
  <2>2. Filled' = Filled /\ Out' = Out /\ PathPlace' = PathPlace
    BY <2>1 DEF Filled, Out, PathPlace
  <2>3. HeapTypeOK'
    BY <1>1, <2>1 DEF HeapTypeOK
  <2>4. NodesPlaced(at)' /\ NodesLinked(at)' /\ NodesOrdered(at)'
    BY <1>2, <2>1, <2>2 DEF TreeAt, NodesPlaced, NodesLinked, NodesOrdered, Child, Holder, get_child
  <2>5. WalkOK(at)' /\ MergeOK(at)'
    BY <1>2, <2>1, <2>2 DEF TreeAt, WalkOK, MergeOK
  <2> QED BY <1>2, <2>1, <2>3, <2>4, <2>5 DEF HeapInv, TreeAt
<1> QED BY <1>3, <1>4, <1>5, <1>6, <1>7, <1>8, <1>9 DEF HeapNext

(* After an insertion NodeAt gives the nodes at the places: no other        *)
(* function satisfies its equation.                                         *)
LEMMA NodeAtIs ==
    ASSUME HeapTypeOK, step = "done", NEW at \in [Places -> 0 .. n_nodes], TreeAt(at)
    PROVE  NodeAt = at
<1> DEFINE Reached(f, p) == IF p = 1 THEN root
                            ELSE IF f[p \div 2] = Null THEN Null ELSE get_child(f[p \div 2], p % 2 = 1)
           IsNodeAt(f) == f = [p \in Places |-> Reached(f, p)]
<1>1. Out = Null /\ Filled = n_nodes /\ n_nodes \in Nat
  BY HeapFacts DEF Out, Filled
<1>2. ASSUME NEW p \in Places, p # 1
      PROVE  /\ p \in Nat /\ p > 1 /\ p \div 2 \in Places /\ p \div 2 \in 1 .. (p - 1)
             /\ p % 2 \in {0, 1} /\ p = 2 * (p \div 2) + (p % 2)
  <2>1. p \in Nat /\ p > 1
    BY <1>2, HeapFacts
  <2> QED BY <2>1, PlaceFacts, HalfIsLess, HeapFacts DEF Places
<1>3. ASSUME NEW p \in Places PROVE at[p] = Reached(at, p)
  <2>1. CASE p = 1
    BY <2>1 DEF TreeAt, NodesLinked
  <2>2. CASE p # 1
    <3>1. PICK h \in Nat, b \in {0, 1} : h = p \div 2 /\ h \in Places /\ b = p % 2 /\ p = 2 * h + b /\ h >= 1
      BY <1>2, <2>2
    <3>2. CASE at[h] = Null
      <4>1. ~ (h <= n_nodes)
        BY <1>1, <3>1, <3>2 DEF TreeAt, NodesPlaced
      <4>2. ~ (p <= n_nodes) /\ p \in Nat
        BY <1>1, <3>1, <4>1
      <4> QED BY <1>1, <2>2, <3>1, <3>2, <4>2 DEF TreeAt, NodesPlaced
    <3>3. CASE at[h] # Null
      <4>1. h \in 1 .. Filled
        BY <1>1, <3>1, <3>3 DEF TreeAt, NodesPlaced
      <4>2. at[2 * h] = get_child(at[h], FALSE) /\ at[2 * h + 1] = get_child(at[h], TRUE)
        BY <3>3, <4>1 DEF TreeAt, NodesLinked, Child, Holder
      <4>3. at[p] = get_child(at[h], p % 2 = 1)
        BY <3>1, <4>2 DEF get_child
      <4> QED BY <2>2, <3>1, <3>3, <4>3
    <3> QED BY <3>2, <3>3
  <2> QED BY <2>1, <2>2
<1>4. IsNodeAt(at)
  BY <1>3
<1>5. IsNodeAt(NodeAt)
  <2>1. NodeAt = CHOOSE f : IsNodeAt(f)
    BY DEF NodeAt
  <2> HIDE DEF IsNodeAt
  <2> QED BY <1>4, <2>1
<1>6. PICK g : g = NodeAt
  OBVIOUS
<1> DEFINE Others == {p \in Places : g[p] # at[p]}
<1>7. Others = {}
  <2> SUFFICES ASSUME Others # {} PROVE FALSE
    OBVIOUS
  <2>1. Others \in SUBSET Nat
    BY HeapFacts
  <2> DEFINE p == Min(Others)
  <2>2. p \in Others /\ \A y \in Others : p <= y
    BY <2>1, MinIsLeast
  <2> HIDE DEF p
  <2>3. p \in Places /\ g[p] # at[p]
    BY <2>2
  <2>4. g[p] = Reached(g, p) /\ at[p] = Reached(at, p)
    BY <1>3, <1>5, <1>6, <2>3
  <2>5. p # 1
    BY <2>3, <2>4
  <2>6. p \div 2 \in Places /\ p \div 2 \in 1 .. (p - 1) /\ p \in Nat
    BY <1>2, <2>3, <2>5
  <2>7. g[p \div 2] = at[p \div 2]
    BY <2>2, <2>6
  <2> QED BY <2>3, <2>4, <2>5, <2>7
<1>8. /\ g = [p \in Places |-> g[p]] /\ at = [p \in Places |-> at[p]]
  BY <1>5, <1>6
<1>9. g = at
  BY <1>7, <1>8
<1> QED BY <1>6, <1>9

(* The invariant is IsHeap when no insertion is under way. *)
LEMMA HeapMeans == HeapInv => IsHeap
<1> SUFFICES ASSUME HeapInv, step = "done" PROVE IsHeap
  BY DEF IsHeap, HeapComplete, HeapOrdered
<1>1. HeapTypeOK
  BY DEF HeapInv
<1>2. PICK at \in [Places -> 0 .. n_nodes] : TreeAt(at)
  BY DEF HeapInv
<1>3. NodeAt = at
  BY <1>1, <1>2, NodeAtIs
<1>4. Out = Null /\ Filled = n_nodes /\ n_nodes \in Nat
  BY <1>1, HeapFacts DEF Out, Filled
<1>5. \A p \in 1 .. n_nodes : at[p] \in 1 .. n_nodes
  BY <1>1, <1>2, <1>4, HeapFacts DEF TreeAt, NodesPlaced, Null
<1>6. \A x \in 1 .. n_nodes : \E p \in 1 .. n_nodes : at[p] = x
  BY <1>2, <1>4 DEF TreeAt, NodesPlaced, Null
<1>7. {at[p] : p \in 1 .. n_nodes} = 1 .. n_nodes
  BY <1>5, <1>6
<1>8. HeapComplete
  BY <1>2, <1>3, <1>4, <1>7 DEF HeapComplete, TreeAt, NodesPlaced
<1>9. HeapOrdered
  BY <1>2, <1>3, <1>4 DEF HeapOrdered, TreeAt, NodesOrdered
<1> QED BY <1>8, <1>9 DEF IsHeap

(* However many nodes are inserted, in whatever order of their values, what *)
(* heap_insert leaves is a heap: its nodes fill the first places, each once, *)
(* and none is greater than its parent.                                     *)
THEOREM HeapInvariant == HeapSpec => []IsHeap
<1>1. HeapInit => HeapInv
  BY HeapInitial
<1>2. HeapInv /\ [HeapNext]_heapVars => HeapInv'
  BY HeapStep
<1>3. HeapInv => IsHeap
  BY HeapMeans
<1> QED BY <1>1, <1>2, <1>3, PTL DEF HeapSpec
=============================================================================
