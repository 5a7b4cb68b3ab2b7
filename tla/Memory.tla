-------------------------------- MODULE Memory --------------------------------
(***************************************************************************)
(* Memory of processes: the pool of physical pages (vm/pagepool.c), page    *)
(* tables (vm/vm.c), the translation buffer and its exceptions (vm/tlb.c),  *)
(* and what proc/process.c does with them: process_start, process_fork_     *)
(* setup, process_memlimit, process_finish.                                 *)
(*                                                                          *)
(* A process is known by its thread id, which is its address space          *)
(* identifier.  An address is a number, PageSize of them to a page, and two *)
(* pages, the even one first, share an entry of the page table and of the   *)
(* buffer.  The buffer itself is hardware: it holds entries until others    *)
(* overwrite them, and an access that finds two is undefined.               *)
(***************************************************************************)
EXTENDS Integers, Sequences, FiniteSets, FiniteSetsExt

CONSTANTS
    NumFrames,     \* pagepool_num_pages
    StaticEnd,     \* pagepool_static_end: the kernel's own pages
    PageSize,      \* PAGE_SIZE
    TableEntries,  \* PAGETABLE_ENTRIES
    TlbSize,       \* entries of the translation buffer
    Asids,         \* thread ids that processes run under
    Programs,      \* [ro, rw, size, memsize]: segments, where, how long
    StackTop       \* the page of the stack

VARIABLES
    mem_free,      \* pagepool_free_pages: the pages that are free
    mem_num_free,  \* pagepool_num_free_pages
    table,         \* the page tables
    proc,          \* what runs under an identifier, and its heap_end
    tlb,           \* the translation buffer
    mem_halt,      \* what stopped the system, if anything
    gone,          \* history: pages of processes that have finished
    veteran,       \* history: identifiers that some process has run under
    partial        \* history: a process_memlimit got some of its pages only

memVars == <<mem_free, mem_num_free, table, proc, tlb, mem_halt, gone, veteran, partial>>

Frames   == StaticEnd .. (NumFrames - 1)
VPages   == 1 .. StackTop
Pair(v)  == v \div 2                    \* VPN2
Pairs    == {Pair(v) : v \in VPages}
PageOf(addr) == addr \div PageSize

NoFrame  == -1
Unmapped == [frame |-> NoFrame, dirty |-> FALSE]
NoTable  == [page |-> NoFrame, map |-> [v \in VPages |-> Unmapped]]
NoProc   == [pc |-> "none", heap_end |-> 0, program |-> [ro |-> {}, rw |-> 0, size |-> 0, memsize |-> 0],
             todo |-> 0]

(* Programs are what tests/ld.userland.script makes of them: both segments  *)
(* on pages of their own, the writable one last, the stack far above.       *)
ASSUME MemoryAssumption ==
    /\ StaticEnd \in Nat /\ NumFrames \in Nat /\ StaticEnd < NumFrames
    /\ PageSize \in Nat \ {0} /\ TableEntries \in Nat /\ TlbSize \in Nat \ {0}
    /\ StackTop \in Nat
    /\ \A p \in Programs :
          /\ p.rw \in VPages /\ p.size \in Nat /\ p.memsize \in Nat /\ p.size <= p.memsize
          /\ p.ro \subseteq 1 .. (p.rw - 1)
          /\ p.rw * PageSize + p.memsize < StackTop * PageSize

MemInit ==
    /\ mem_free = Frames
    /\ mem_num_free = NumFrames - StaticEnd
    /\ table = [a \in Asids |-> NoTable]
    /\ proc = [a \in Asids |-> NoProc]
    /\ tlb = {}
    /\ mem_halt = "no"
    /\ gone = {} /\ veteran = {} /\ partial = FALSE

MemPanic(why) ==
    /\ mem_halt' = why
    /\ UNCHANGED <<mem_free, mem_num_free, table, proc, tlb, gone, veteran, partial>>
-----------------------------------------------------------------------------
(* pagepool.c *)

(* The k-th of a set of numbers, counted from 1. *)
Nth(S, k) == CHOOSE f \in S : Cardinality({g \in S : g < f}) = k - 1

Ascending(S) == [k \in 1 .. Cardinality(S) |-> Nth(S, k)]

(* What the k-th of several calls of pagepool_get_phys_page returns. *)
NthFree(k) == Nth(mem_free, k)

(* The first n free pages are taken; pagepool_num_free_pages counts down.   *)
TakePages(n) ==
    /\ mem_free' = mem_free \ {NthFree(k) : k \in 1 .. n}
    /\ mem_num_free' = mem_num_free - n

(* As if the count were forgotten. *)
pagepool_free_phys_page_uncounted(f) ==
    /\ mem_free' = mem_free \cup {f}
    /\ UNCHANGED mem_num_free

pagepool_free_phys_page(f) ==
    /\ mem_free' = mem_free \cup {f}
    /\ mem_num_free' = mem_num_free + 1
-----------------------------------------------------------------------------
(* vm.c *)

Mapped(map) == {v \in VPages : map[v] # Unmapped}

(* valid_count: every pair with a mapped page has one entry. *)
ValidCount(map) == Cardinality({Pair(v) : v \in Mapped(map)})

(* vm_map for several pages in the order of `order', the k-th with the      *)
(* (skip + k)-th free page.                                                 *)
vm_map(map, order, skip) ==
    [v \in VPages |->
       IF \E k \in DOMAIN order : order[k] = v
       THEN [frame |-> NthFree(skip + (CHOOSE k \in DOMAIN order : order[k] = v)), dirty |-> TRUE]
       ELSE map[v]]

(* vm_map panics when a page is mapped again or the table is full.  (Of     *)
(* several panics that a call would meet, the first is not singled out:     *)
(* each of them stops the system.)                                          *)
MapFault(map, pages) ==
    CASE pages \cap Mapped(map) # {} -> "remap"
      [] Cardinality({Pair(v) : v \in Mapped(map) \cup pages}) > TableEntries -> "full"
      [] OTHER -> "no"

vm_set_dirty(map, pages) ==
    [v \in VPages |-> IF v \in pages THEN [map[v] EXCEPT !.dirty = FALSE] ELSE map[v]]
-----------------------------------------------------------------------------
(* process.c: starting *)

RwPages(p) == p.rw .. (p.rw + (p.memsize + PageSize - 1) \div PageSize - 1)

(* "Just after the program": the end of what the file holds of it. *)
HeapStart(p) == p.rw * PageSize + p.size

(* A heap that starts a page needs that page. *)
ExtraPages(p) == IF HeapStart(p) % PageSize = 0 THEN {PageOf(HeapStart(p))} ELSE {}

(* Stack, read-only and writable segment, in the order they are mapped. *)
ImageOrder(p) == <<StackTop>> \o Ascending(p.ro) \o Ascending(RwPages(p))

(* process_start up to the end of its allocations.  Pages are asserted to   *)
(* be there.                                                                *)
process_start(a, p) ==
    /\ proc[a].pc = "none"
    /\ LET image == p.ro \cup RwPages(p) \cup {StackTop}
           extra == ExtraPages(p)
           need  == 1 + Cardinality(image) + Cardinality(extra)
           order == ImageOrder(p)
           one   == vm_map(NoTable.map, order, 1)
           two   == vm_map(one, Ascending(extra), 1 + Len(order))
           fault == IF MapFault(NoTable.map, image) # "no" THEN MapFault(NoTable.map, image)
                    ELSE MapFault(one, extra)
       IN  IF need > Cardinality(mem_free) THEN MemPanic("memory")
           ELSE IF fault # "no" THEN MemPanic(fault)
           ELSE /\ TakePages(need)
                /\ table' = [table EXCEPT ![a] = [page |-> NthFree(1), map |-> two]]
                /\ proc' = [proc EXCEPT ![a] =
                              [pc |-> "loading", heap_end |-> HeapStart(p), program |-> p,
                               todo |-> 1]]
                /\ UNCHANGED <<tlb, mem_halt, gone, veteran, partial>>
-----------------------------------------------------------------------------
(* tlb.c *)

Half(v) == v % 2

EntryOf(a, pair) ==
    [asid |-> a, pair |-> pair,
     half |-> [h \in {0, 1} |-> IF 2 * pair + h \in VPages THEN table[a].map[2 * pair + h]
                                ELSE Unmapped]]

(* The entries of the buffer that an access meets. *)
Hits(a, v) == {e \in tlb : e.asid = a /\ e.pair = Pair(v)}

(* An access goes through when it meets one entry that has the page. *)
Translated(a, v) == \E e \in tlb : Hits(a, v) = {e} /\ e.half[Half(v)] # Unmapped

(* _tlb_write_random overwrites any entry, in use or not. *)
tlb_write_random(e) ==
    \E kept \in SUBSET tlb :
       /\ Cardinality(tlb \ kept) <= 1
       /\ Cardinality(kept) < TlbSize
       /\ tlb' = kept \cup {e}

(* As if an entry had only the page that was missing. *)
TlbRefill_one(a, v) ==
    /\ table[a].map[v] # Unmapped
    /\ tlb_write_random([EntryOf(a, Pair(v)) EXCEPT !.half[1 - Half(v)] = Unmapped])
    /\ UNCHANGED <<mem_free, mem_num_free, table, proc, mem_halt, gone, veteran, partial>>

(* tlb_access_exception for a page that the table has. *)
TlbRefill(a, v) ==
    /\ table[a].map[v] # Unmapped
    /\ tlb_write_random(EntryOf(a, Pair(v)))
    /\ UNCHANGED <<mem_free, mem_num_free, table, proc, mem_halt, gone, veteran, partial>>

(* process_finish gives back the page of the page table, and no other; the  *)
(* buffer keeps its entries.                                                *)
Finish(a) ==
    /\ pagepool_free_phys_page(table[a].page)
    /\ gone' = gone \cup {table[a].map[v].frame : v \in Mapped(table[a].map)}
    /\ veteran' = veteran \cup {a}
    /\ table' = [table EXCEPT ![a] = NoTable]
    /\ proc' = [proc EXCEPT ![a] = NoProc]
    /\ UNCHANGED <<tlb, mem_halt, partial>>

(* An access of a running program: to a page in the buffer that may not be  *)
(* written, to a page that is not in the buffer, to a page next to one that *)
(* is mapped, to any other page.                                            *)
tlb_modified_exception(a, v) ==
    /\ proc[a].pc = "running"
    /\ Translated(a, v)
    /\ \E e \in Hits(a, v) : ~e.half[Half(v)].dirty
    /\ Finish(a)

tlb_access_exception(a, v) ==
    /\ proc[a].pc = "running"
    /\ ~Translated(a, v)
    /\ Cardinality(Hits(a, v)) <= 1
    /\ \/ TlbRefill(a, v)
       \/ /\ table[a].map[v] = Unmapped
          /\ \E w \in Mapped(table[a].map) : Pair(w) = Pair(v)
          /\ Finish(a)
       \/ /\ \A w \in Mapped(table[a].map) : Pair(w) # Pair(v)
          /\ MemPanic("not found")

(* Two entries for one address: the hardware does not say what happens. *)
tlb_undefined(a, v) ==
    /\ proc[a].pc = "running"
    /\ Cardinality(Hits(a, v)) > 1
    /\ MemPanic("duplicate")
-----------------------------------------------------------------------------
(* process.c: loading, forking, growing, finishing *)

(* process_start clears segments and stack and then reads the segments: it  *)
(* touches every page, through the buffer, while all may be written.        *)
LoadOrder(p) ==
    Ascending(p.ro) \o Ascending(RwPages(p)) \o <<StackTop>> \o Ascending(p.ro)
      \o Ascending(RwPages(p))

process_start_load(a) ==
    /\ proc[a].pc = "loading"
    /\ proc[a].todo <= Len(LoadOrder(proc[a].program))
    /\ LET v == LoadOrder(proc[a].program)[proc[a].todo] IN
       IF Cardinality(Hits(a, v)) > 1 THEN MemPanic("duplicate")
       ELSE IF Translated(a, v)
       THEN /\ proc' = [proc EXCEPT ![a].todo = @ + 1]
            /\ UNCHANGED <<mem_free, mem_num_free, table, tlb, mem_halt, gone, veteran, partial>>
       ELSE TlbRefill(a, v)

(* Then the read-only segment is write protected, in the page table. *)
process_start_run(a) ==
    /\ proc[a].pc = "loading"
    /\ proc[a].todo > Len(LoadOrder(proc[a].program))
    /\ table' = [table EXCEPT ![a].map = vm_set_dirty(@, proc[a].program.ro)]
    /\ proc' = [proc EXCEPT ![a].pc = "running", ![a].todo = 0]
    /\ UNCHANGED <<mem_free, mem_num_free, tlb, mem_halt, gone, veteran, partial>>

(* process_fork_setup copies every page of the parent. *)
process_fork_setup(a, child) ==
    /\ proc[a].pc = "running"
    /\ proc[child].pc = "none"
    /\ LET pages == Mapped(table[a].map)
           copy  == vm_map(NoTable.map, Ascending(pages), 1)
       IN  IF 1 + Cardinality(pages) > Cardinality(mem_free) THEN MemPanic("memory")
           ELSE /\ TakePages(1 + Cardinality(pages))
                /\ table' = [table EXCEPT ![child] =
                               [page |-> NthFree(1),
                                map |-> [v \in VPages |->
                                           [copy[v] EXCEPT !.dirty = table[a].map[v].dirty]]]]
                /\ proc' = [proc EXCEPT ![child] = proc[a]]
                /\ UNCHANGED <<tlb, mem_halt, gone, veteran, partial>>

(* As if the last page were left out. *)
HeapPages_short(old, new) == (PageOf(old) + 1) .. (PageOf(new) - 1)

(* The pages that a heap needs when its end moves. *)
HeapPages(old, new) == (PageOf(old) + 1) .. PageOf(new)

(* process_memlimit: the pages after that of the old end up to that of the  *)
(* new one are mapped one by one.  When there are no more, those already    *)
(* mapped stay, and so does heap_end.                                       *)
process_memlimit(a, end) ==
    /\ proc[a].pc = "running"
    /\ end > proc[a].heap_end
    /\ LET wanted == HeapPages(proc[a].heap_end, end)
           n      == Min({Cardinality(wanted), Cardinality(mem_free)})
           got    == {v \in wanted : Cardinality({w \in wanted : w < v}) < n}
           map    == table[a].map
           enough == n = Cardinality(wanted)
       IN  IF MapFault(map, got) # "no" THEN MemPanic(MapFault(map, got))
           ELSE /\ TakePages(n)
                /\ table' = [table EXCEPT ![a].map = vm_map(@, Ascending(got), 0)]
                /\ proc' = [proc EXCEPT ![a].heap_end = IF enough THEN end ELSE @]
                /\ partial' = (partial \/ (~enough /\ n > 0))
                /\ UNCHANGED <<tlb, mem_halt, gone, veteran>>

process_finish(a) ==
    /\ proc[a].pc = "running"
    /\ Finish(a)

(* A bound: nobody asks for a heap that reaches the stack (a page table has *)
(* PAGETABLE_ENTRIES pairs, far too few for one).                           *)
MemNext ==
    /\ mem_halt = "no"
    /\ \E a \in Asids :
          \/ \E p \in Programs : process_start(a, p)
          \/ process_start_load(a)
          \/ process_start_run(a)
          \/ \E v \in VPages : tlb_modified_exception(a, v)
          \/ \E v \in VPages : tlb_access_exception(a, v)
          \/ \E v \in VPages : tlb_undefined(a, v)
          \/ \E child \in Asids : process_fork_setup(a, child)
          \/ \E end \in 0 .. (StackTop * PageSize - 1) : process_memlimit(a, end)
          \/ process_finish(a)

MemSpec == MemInit /\ [][MemNext]_memVars
-----------------------------------------------------------------------------
(* The types; page tables and buffer keep to their sizes. *)
PageType  == [frame : Frames \cup {NoFrame}, dirty : BOOLEAN]
TableType == [page : Frames \cup {NoFrame}, map : [VPages -> PageType]]
ProcType  == [pc : {"none", "loading", "running"}, heap_end : Nat,
              program : Programs \cup {NoProc.program}, todo : Nat]
EntryType == [asid : Asids, pair : Pairs, half : [{0, 1} -> PageType]]

MemTypeOK ==
    /\ mem_free \subseteq Frames /\ mem_num_free \in 0 .. NumFrames
    /\ table \in [Asids -> TableType]
    /\ \A a \in Asids : ValidCount(table[a].map) <= TableEntries
    /\ proc \in [Asids -> ProcType] /\ \A a \in Asids : proc[a].pc = "loading" => proc[a].todo > 0
    /\ tlb \subseteq EntryType /\ IsFiniteSet(tlb) /\ Cardinality(tlb) <= TlbSize
    /\ mem_halt \in {"no", "memory", "remap", "full", "not found", "duplicate"}
    /\ gone \subseteq Frames /\ veteran \subseteq Asids /\ partial \in BOOLEAN

Live == {a \in Asids : proc[a].pc # "none"}

(* The pages of a process with page table t, that of the table included. *)
Holding(t) == {t.page} \cup {t.map[v].frame : v \in Mapped(t.map)}

(* The pages of a process are different ones, and none of them is its page  *)
(* table.                                                                   *)
PagesApart(t) ==
    \A v \in Mapped(t.map) :
       /\ t.map[v].frame # t.page
       /\ \A w \in Mapped(t.map) : t.map[v].frame = t.map[w].frame => v = w

(* Every page is free, or one page of one live process, or was a page of a  *)
(* process that finished; and pagepool_num_free_pages counts the free ones, *)
(* as pagepool_get_phys_page asserts.                                       *)
FramesOwnedOnce ==
    /\ mem_num_free = Cardinality(mem_free)
    /\ mem_free \cap gone = {}
    /\ \A f \in Frames : f \in mem_free \cup gone \/ \E a \in Live : f \in Holding(table[a])
    /\ \A a \in Asids \ Live : table[a] = NoTable
    /\ \A a \in Live :
          /\ Holding(table[a]) \subseteq Frames \ (mem_free \cup gone)
          /\ PagesApart(table[a])
          /\ \A b \in Live : Holding(table[a]) \cap Holding(table[b]) # {} => a = b

(* The memory of the program ends in the page where heap_end is. *)
EndsInFile(p) == RwPages(p) \cap (PageOf(HeapStart(p) - 1) + 1 .. StackTop) = {}

(* The heap ends below the stack.  Nothing is mapped between the two,       *)
(* unless a process_memlimit got some of its pages and failed, or a         *)
(* program's uninitialized data needs pages past the end of what its file   *)
(* holds.                                                                   *)
HeapsApart ==
    \A a \in Live :
       /\ proc[a].program \in Programs
       /\ proc[a].heap_end < StackTop * PageSize
       /\ ~partial /\ (\A p \in Programs : EndsInFile(p)) =>
             \A v \in Mapped(table[a].map) : v <= PageOf(proc[a].heap_end) \/ v = StackTop

(* The pages of its pair that an entry of the buffer has. *)
Valid(e) == {h \in {0, 1} : e.half[h] # Unmapped}

PageAt(e, h) == 2 * e.pair + h

(* An entry has a page, and belongs to a process that lives or to one that  *)
(* has finished.                                                            *)
EntriesOwned ==
    \A e \in tlb : e.asid \notin veteran =>
       /\ e.asid \in Live
       /\ Valid(e) # {}
       /\ \A h \in Valid(e) : 2 * e.pair + h \in VPages /\ e.half[h].frame # NoFrame

(* The page pool, the page tables and the buffer agree on who has which     *)
(* page (vm/pagepool.c, vm/vm.c, vm/tlb.c).                                 *)
MemInv == MemTypeOK /\ FramesOwnedOnce /\ HeapsApart /\ EntriesOwned

(* A process may use its memory from the start of its writable segment up   *)
(* to heap_end, whatever happened to its calls of process_memlimit.         *)
HeapMapped ==
    \A a \in Live :
       proc[a].program.rw .. PageOf(proc[a].heap_end) \subseteq Mapped(table[a].map)

(* The panic of vm_map on a page that is mapped already is met only after a *)
(* process_memlimit that got some of its pages and failed (the next call    *)
(* maps them again), or with a program whose uninitialized data needs pages *)
(* past the end of what its file holds (heap_end is inside of them).        *)
RemapExplained ==
    mem_halt = "remap" => partial \/ \E p \in Programs : ~EndsInFile(p)

(* The heap of a process can be used, and grown without a panic of vm_map   *)
(* except in the two cases named (process_start, process_memlimit).         *)
HeapUsable == HeapMapped /\ RemapExplained

(* Whoever ran under its identifier before, the buffer gives a process its  *)
(* own pages at their addresses or pages that a finished process left: none *)
(* of another live process, no page table and no free page.                 *)
(* (vm_destroy_pagetable leaves entries behind, and identifiers are used    *)
(* again.  What keeps the next process off other memory is that             *)
(* process_finish frees no page that they name.)                            *)
OwnOrGone ==
    \A e \in tlb : \A h \in Valid(e) :
       \/ e.half[h].frame \in gone
       \/ /\ e.asid \in Live
          /\ PageAt(e, h) \in Mapped(table[e.asid].map)
          /\ e.half[h].frame = table[e.asid].map[PageAt(e, h)].frame

(* As long as no other process has run under its identifier, an entry says  *)
(* of a page what the page table says, with one exception: process_start    *)
(* protects the read-only segment in the table after it has touched its     *)
(* pages, and an entry loaded before that lets the program write to them.   *)
FirstUseTranslates ==
    \A e \in tlb : e.asid \notin veteran => \A h \in Valid(e) :
       LET page == table[e.asid].map[PageAt(e, h)]
       IN  /\ e.half[h].frame = page.frame
           /\ e.half[h].dirty # page.dirty =>
                 /\ e.half[h].dirty
                 /\ PageAt(e, h) \in proc[e.asid].program.ro /\ proc[e.asid].pc = "running"

(* The buffer has two entries for one address, which is undefined, only in  *)
(* one case: the second page of a pair was mapped while the entry with the  *)
(* first was in the buffer, and was used before that entry was overwritten. *)
(* (Both pages are put in one entry because separate ones "would result in  *)
(* duplicate TLB matches", doc/roadmap; vm_map leaves the buffer alone.)    *)
DuplicatesExplained ==
    \A d, e \in tlb :
       d # e /\ d.asid = e.asid /\ d.pair = e.pair /\ d.asid \notin veteran =>
          \E h \in {0, 1} : {Valid(d), Valid(e)} = {{h}, {0, 1}}

(* The translation buffer, which vm/tlb.c fills, leads no process to the    *)
(* memory of another.  Under an identifier's first process it holds what    *)
(* the page table says, and once, but for what a later mapping or the late  *)
(* write protection explains.                                               *)
TlbOK == OwnOrGone /\ FirstUseTranslates /\ DuplicatesExplained
=============================================================================
