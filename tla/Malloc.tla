-------------------------------- MODULE Malloc --------------------------------
(***************************************************************************)
(* malloc, calloc, realloc and free of the userland library (tests/lib.c): a *)
(* list of free blocks in the order of their addresses, first fit, and      *)
(* system call memlimit when no block fits.  Addresses and block sizes      *)
(* count words; a block begins with one word for its size.  A program has   *)
(* one thread, so a call is one step; realloc is a malloc and then a free.  *)
(* What the blocks hold is left out.                                        *)
(***************************************************************************)
EXTENDS Integers, Sequences, FiniteSets, FiniteSetsExt

CONSTANTS
    HeapLimit,   \* the highest end of the heap that memlimit grants, in words
    Requests,    \* sizes in bytes that a program asks for
    NoBlock      \* no block is being moved

ASSUME MallocAssumption == HeapLimit \in Nat /\ Requests \subseteq Nat

VARIABLES
    free_list,   \* the free blocks, in the order of the links
    heap_end,    \* what syscall_memlimit(NULL) returns
    blocks,      \* blocks the program has, each with the bytes it asked for
    moving       \* the block that realloc has copied and is to free

mallocVars == <<free_list, heap_end, blocks, moving>>

WordSize == 4                 \* bytes of a word: sizeof(size_t)
Header   == 1
MinAlloc == 2                 \* MIN_ALLOC_SIZE: room for size and next

MallocInit == free_list = <<>> /\ heap_end = 0 /\ blocks = {} /\ moving = NoBlock
-----------------------------------------------------------------------------
(* A request in words: at least the minimum, rounded up. *)
WordsFor(bytes) == Max({MinAlloc, (bytes + WordSize - 1) \div WordSize})

(* A block that is too big is split if what is left of it is a block. *)
Splits(b, words) == b.size - words - Header >= MinAlloc + Header

Fits(b, words) == Splits(b, words) \/ b.size >= words + Header

Block(addr, size, bytes) == [addr |-> addr, size |-> size, bytes |-> bytes]

(* What a block keeps when `full' words are split off. *)
Rest(b, full) == b.size - full

(* The first block that is big enough is used: its end, or all of it. *)
malloc_from_list(bytes) ==
    /\ bytes > 0
    /\ LET words == WordsFor(bytes)
           full  == words + Header
           fit   == {i \in DOMAIN free_list : Fits(free_list[i], words)}
       IN  /\ fit # {}
           /\ LET i == Min(fit)
                  b == free_list[i]
              IN  \/ /\ Splits(b, words)
                     /\ free_list' = [free_list EXCEPT ![i].size = Rest(b, full)]
                     /\ blocks' = blocks \cup {Block(b.addr + Rest(b, full), full, bytes)}
                  \/ /\ ~Splits(b, words)
                     /\ free_list' = SubSeq(free_list, 1, i - 1)
                                       \o SubSeq(free_list, i + 1, Len(free_list))
                     /\ blocks' = blocks \cup {Block(b.addr, b.size, bytes)}
    /\ UNCHANGED heap_end

(* No block is big enough: the heap grows by the block, if memlimit lets it. *)
malloc_from_system(bytes) ==
    /\ bytes > 0
    /\ \A i \in DOMAIN free_list : ~Fits(free_list[i], WordsFor(bytes))
    /\ heap_end + WordsFor(bytes) + Header <= HeapLimit
    /\ blocks' = blocks \cup {Block(heap_end, WordsFor(bytes) + Header, bytes)}
    /\ heap_end' = heap_end + WordsFor(bytes) + Header
    /\ UNCHANGED free_list

malloc(bytes) == malloc_from_list(bytes) \/ malloc_from_system(bytes)

(* calloc asks for the product of its arguments. *)
calloc(nmemb, size) == malloc(nmemb * size)

(* As if blocks were never put together with the next one. *)
Touch_never(b, c) == FALSE

(* The block c begins where b ends: in the list the two become one. *)
Touch(b, c) == c.addr - b.addr = b.size

(* The block b grows by the block c. *)
With(b, c) == [addr |-> b.addr, size |-> b.size + c.size]

(* The place of a block in the list: before the first with a higher address. *)
Place(block) ==
    Min({i \in DOMAIN free_list : free_list[i].addr > block.addr} \cup {Len(free_list) + 1})

(* free puts the block in its place and joins it with the block before it, *)
(* and what that gives with the block after it.                             *)
free(block) ==
    /\ block \in blocks
    /\ LET pos    == Place(block)
           before == pos > 1 /\ Touch(free_list[pos - 1], block)
           joined == IF before THEN With(free_list[pos - 1], block)
                     ELSE [addr |-> block.addr, size |-> block.size]
           after  == pos <= Len(free_list) /\ Touch(joined, free_list[pos])
       IN  free_list' = SubSeq(free_list, 1, IF before THEN pos - 2 ELSE pos - 1)
                          \o <<IF after THEN With(joined, free_list[pos]) ELSE joined>>
                          \o SubSeq(free_list, IF after THEN pos + 1 ELSE pos, Len(free_list))
    /\ blocks' = blocks \ {block}
    /\ UNCHANGED heap_end

(* realloc of a block to a size above zero: the new block is allocated, the *)
(* contents are copied, and the old one is freed.  Without a new block the  *)
(* old one stays.  realloc(NULL, n) is malloc(n), realloc(p, 0) free(p).    *)
realloc_malloc(block, bytes) ==
    /\ moving = NoBlock
    /\ malloc(bytes)
    /\ moving' = block

realloc_free ==
    /\ moving # NoBlock
    /\ free(moving)
    /\ moving' = NoBlock

MallocNext ==
    \/ /\ moving = NoBlock
       /\ \/ \E bytes \in Requests : malloc(bytes)
          \/ \E nmemb \in {2}, size \in Requests : calloc(nmemb, size)
          \/ \E block \in blocks : free(block)
       /\ UNCHANGED moving
    \/ \E block \in blocks, bytes \in Requests : realloc_malloc(block, bytes)
    \/ realloc_free

MallocSpec == MallocInit /\ [][MallocNext]_mallocVars
-----------------------------------------------------------------------------
(* The types of the allocator's state. *)
MallocTypeOK ==
    /\ free_list \in Seq([addr : Nat, size : Nat]) /\ heap_end \in Nat
    /\ blocks \subseteq [addr : Nat, size : Nat, bytes : Nat]
    /\ moving \in blocks \cup {NoBlock}

FreeBlocks == {free_list[i] : i \in DOMAIN free_list}

Words(b) == b.addr .. (b.addr + b.size - 1)
Apart(b, c) == b.addr + b.size <= c.addr \/ c.addr + c.size <= b.addr

(* Every word of the heap is in exactly one block, free or not: splitting,  *)
(* joining and growing lose no memory and give none out twice.              *)
HeapPartitioned ==
    /\ UNION {Words(b) : b \in FreeBlocks \cup blocks} = 0 .. (heap_end - 1)
    /\ \A b \in blocks, c \in FreeBlocks : Apart(b, c)
    /\ \A b, c \in blocks : b # c => Apart(b, c)

(* The free list is in the order of addresses and no two of its blocks      *)
(* touch: whatever order blocks are freed in, neighbours become one.        *)
FreeListJoined ==
    \A i, j \in DOMAIN free_list : i < j =>
       free_list[i].addr + free_list[i].size < free_list[j].addr

(* A block has room for what was asked for, behind its size, and for the    *)
(* link it needs when it is freed.                                          *)
BlocksBigEnough ==
    /\ \A b \in blocks : (b.size - Header) * WordSize >= b.bytes
    /\ \A b \in FreeBlocks \cup blocks : b.size >= MinAlloc + Header

(* The allocator's invariant (tests/lib.c): the heap is divided into blocks *)
(* that are big enough, and free neighbours are one block.                  *)
MallocInv == MallocTypeOK /\ HeapPartitioned /\ FreeListJoined /\ BlocksBigEnough
=============================================================================
