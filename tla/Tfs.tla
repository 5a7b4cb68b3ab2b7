--------------------------------- MODULE Tfs ---------------------------------
(***************************************************************************)
(* The trivial filesystem: the driver (fs/tfs.c) and the tool that writes   *)
(* the same volumes on the host (util/tfstool.c), over a disk of which any  *)
(* write may fail or be the last one before the machine stops.              *)
(*                                                                          *)
(* All operations of the driver hold one lock from their beginning to their *)
(* end, and the tool is used while the volume is not mounted.  So one       *)
(* operation is one step, which says how many of its block writes, in the   *)
(* order of the code, reached the disk; fewer than all means that the       *)
(* operation returned an error there, or that the machine stopped.          *)
(* Operations that change nothing on their error paths are not enabled.     *)
(***************************************************************************)
EXTENDS Integers, Sequences, FiniteSets, SequencesExt, FiniteSetsExt

CONSTANTS
    TFS_BLOCK_SIZE,     \* bytes in a block
    TotalBlocks,        \* blocks of the disk
    TFS_MAX_FILES,      \* entries of the directory
    TFS_BLOCKS_MAX,     \* blocks of a file
    Names, NoName,      \* file names, and the empty one of a free entry
    Sizes,              \* the sizes of the files that the driver makes
    Sources,            \* the files that the tool copies, by size and byte
    Bytes,              \* what a byte may be; 0 is one
    MaxOpen,            \* bound: files held open at a time
    ForgedInodes,       \* bound: the inodes that data may spell, none naming a block twice
    ForgedBats,         \* bound: the allocation blocks that data may spell
    ForgedDirs,         \* bound: the directories that data may spell
    NoFile              \* the contents of a file that does not exist or is not known

VARIABLES
    bat,        \* the allocation block: the blocks that are marked
    dir,        \* the directory block
    content,    \* all other blocks: inodes and data
    mounted,    \* the driver has the volume
    opened,     \* files held open through the driver, by id and name
    files,      \* history: what each file should hold
    orphans,    \* history: some create stopped after it had marked its blocks
    damage      \* history: the operation that left the volume inconsistent, and its file

tfsVars == <<bat, dir, content, mounted, opened, files, orphans, damage>>

Entries == 0 .. (TFS_MAX_FILES - 1)
Intact == [how |-> "intact", name |-> NoName]

(* A block read as an inode, and a block of data. *)
Inode(size, blocks) == [inode |-> TRUE, filesize |-> size, block |-> blocks, data |-> <<>>]
Data(bytes) == [inode |-> FALSE, filesize |-> 0, block |-> <<>>, data |-> bytes]
Fill(n, v) == [i \in 1 .. n |-> v]

Named(n) == {i \in Entries : dir[i].name = n}
InodeOf(i) == content[dir[i].inode]
FreeEntries == {i \in Entries : dir[i].inode = 0}
CeilDiv(n) == (n + TFS_BLOCK_SIZE - 1) \div TFS_BLOCK_SIZE
Written(k, n) == k >= n         \* the nth write of an operation is among the first k

ASSUME TfsAssumption ==
    /\ TFS_BLOCK_SIZE \in Nat \ {0} /\ TotalBlocks \in Nat /\ TotalBlocks > 2
    /\ TFS_MAX_FILES \in Nat \ {0} /\ TFS_BLOCKS_MAX \in Nat
    /\ NoName \notin Names /\ 0 \in Bytes
    /\ Sizes \subseteq Nat /\ \E m \in Sizes : \A size \in Sizes : size <= m
    /\ Sources \subseteq Nat \X Bytes /\ MaxOpen \in Nat
    /\ \A c \in ForgedInodes :
          /\ c = Inode(c.filesize, c.block) /\ c.filesize \in Nat /\ c.block \in Seq(Nat)
          /\ CeilDiv(c.filesize) <= Len(c.block) /\ IsInjective(c.block)

(* Header, allocation block and directory are marked from the beginning. *)
TFS_ALLOCATION_BLOCK == 1
TFS_DIRECTORY_BLOCK == 2
SystemBlocks == 0 .. TFS_DIRECTORY_BLOCK
Area == 3 .. (TotalBlocks - 1)

(* tfstool_createvol: the volume as the tool makes it. *)
TfsInit ==
    /\ bat = SystemBlocks
    /\ dir = [i \in Entries |-> [inode |-> 0, name |-> NoName]]
    /\ content = [b \in Area |-> Data(Fill(TFS_BLOCK_SIZE, 0))]
    /\ mounted = FALSE /\ opened = {}
    /\ files = [n \in Names |-> NoFile]
    /\ orphans = FALSE /\ damage = Intact

----------------------------------------------------------------------------
(* Allocation. *)

FreeBelow(set, b) == {c \in 0 .. (b - 1) : c \notin set}

(* The blocks that n calls of bitmap_findnset find and mark, one after the    *)
(* other, if the disk has so many: the first free one each time.              *)
bitmap_findnset(set, n) ==
    [i \in 1 .. n |-> CHOOSE b \in 0 .. (TotalBlocks - 1) :
                         b \notin set /\ Cardinality(FreeBelow(set, b)) = i - 1]

Fits(set, n) == Cardinality(FreeBelow(set, TotalBlocks)) >= n

(* tfs_getfree. *)
tfs_getfree == (TotalBlocks - Cardinality(bat \intersect (0 .. (TotalBlocks - 1)))) * TFS_BLOCK_SIZE

----------------------------------------------------------------------------
(* The driver. *)

(* tfs_init, and the end of tfs_unmount or of the machine. *)
tfs_init ==
    /\ ~mounted
    /\ mounted' = TRUE
    /\ UNCHANGED <<bat, dir, content, opened, files, orphans, damage>>

tfs_unmount ==
    /\ mounted
    /\ mounted' = FALSE /\ opened' = {}
    /\ UNCHANGED <<bat, dir, content, files, orphans, damage>>

(* Mutant: the inode is written first, the allocation block last. *)
CreateOrder_bat_last == [bat |-> 3, dir |-> 2, inode |-> 1]

(* The order of the writes of tfs_create, before those of the zeroes. *)
CreateOrder == [bat |-> 1, dir |-> 2, inode |-> 3]

(* tfs_create(n, size), of which the first k writes reach the disk. *)
tfs_create(n, size) ==
    LET count == CeilDiv(size)
        found == bitmap_findnset(bat, count + 1)
        index == Max(FreeEntries)
        inode == found[1]
        blocks == SubSeq(found, 2, count + 1)
    IN
    /\ mounted /\ damage = Intact
    /\ count <= TFS_BLOCKS_MAX
    /\ Named(n) = {} /\ FreeEntries # {}
    /\ Fits(bat, count + 1)
    /\ \E k \in 0 .. (3 + count) :
         /\ bat' = IF Written(k, CreateOrder.bat) THEN bat \union Range(found) ELSE bat
         /\ dir' = IF Written(k, CreateOrder.dir)
                   THEN [dir EXCEPT ![index] = [inode |-> inode, name |-> n]] ELSE dir
         /\ content' = [b \in DOMAIN content |->
               IF b = inode /\ Written(k, CreateOrder.inode) THEN Inode(size, blocks)
               ELSE IF \E i \in DOMAIN blocks : b = blocks[i] /\ Written(k, 3 + i)
                    THEN Data(Fill(TFS_BLOCK_SIZE, 0)) ELSE content[b]]
         /\ files' = IF k = 3 + count THEN [files EXCEPT ![n] = Fill(size, 0)] ELSE files
         /\ orphans' = (orphans \/ k = 1)
         /\ damage' = IF k = 2 THEN [how |-> "create", name |-> n] ELSE damage
    /\ UNCHANGED <<mounted, opened>>

(* The volume without the file of entry i, after k of the two writes that     *)
(* take it away.                                                              *)
Removed(i, k) ==
    /\ bat' = IF Written(k, 1) THEN bat \ ({dir[i].inode} \union Range(InodeOf(i).block)) ELSE bat
    /\ dir' = IF Written(k, 2) THEN [dir EXCEPT ![i] = [inode |-> 0, name |-> NoName]] ELSE dir

(* A file is removed by the driver or by the tool: the allocation block is   *)
(* written first, then the directory.  After an operation that stopped half  *)
(* way the only thing done is to remove its file, again or at last.          *)
RemoveFile(n) ==
    /\ damage \in {Intact, [how |-> "remove", name |-> n], [how |-> "tool", name |-> n]}
    /\ Named(n) # {}
    /\ \E k \in 0 .. 2 :
         /\ Removed(Min(Named(n)), k)
         /\ files' = IF k = 2 THEN [files EXCEPT ![n] = NoFile] ELSE files
         /\ damage' = IF k = 2 THEN Intact ELSE IF k = 1 THEN [how |-> "remove", name |-> n] ELSE damage
    /\ UNCHANGED <<content, mounted, opened, orphans>>

tfs_remove(n) == mounted /\ RemoveFile(n)

tfs_open(n) ==
    /\ mounted /\ damage = Intact
    /\ Named(n) # {}
    /\ Cardinality(opened) < MaxOpen
    /\ opened' = opened \union {[id |-> dir[Min(Named(n))].inode, name |-> n]}
    /\ UNCHANGED <<bat, dir, content, mounted, files, orphans, damage>>

tfs_close(h) ==
    /\ opened' = opened \ {h}
    /\ UNCHANGED <<bat, dir, content, mounted, files, orphans, damage>>

(* The file of the handle has been removed. *)
Stale(h) == \A i \in Entries : dir[i] # [inode |-> h.id, name |-> h.name]

(* The test of tfs_read and tfs_write on the id of the file. *)
ValidId(id) == ~(id < 2 \/ id > TotalBlocks)

BlockOf(inode, k) == inode.block[k + 1]

(* The byte at a position of a file, in the block the position falls in. *)
ByteAt(inode, pos) ==
    content[BlockOf(inode, pos \div TFS_BLOCK_SIZE)].data[(pos % TFS_BLOCK_SIZE) + 1]

(* What tfs_write takes a block for: it reads the block as an inode,          *)
(* whatever it is.  Zeroes are an inode of no bytes.                          *)
ReadAsInode(b) ==
    IF content[b].inode THEN {content[b]}
    ELSE IF content[b].data = Fill(TFS_BLOCK_SIZE, 0) THEN {Inode(0, <<>>)}
    ELSE ForgedInodes

(* Mutant: the last block is filled to its end. *)
BlockAfter_last(old, k, offset, buf) ==
    [x \in 1 .. TFS_BLOCK_SIZE |->
        IF k * TFS_BLOCK_SIZE + x <= offset THEN old[x] ELSE Last(buf)]

(* Block k of a file after tfs_write: in the first block the bytes from the   *)
(* offset on, in the others those from the beginning, as far as the buffer    *)
(* goes; the rest is what was read from the block before.                     *)
BlockAfter(old, k, offset, buf) ==
    LET first == offset \div TFS_BLOCK_SIZE
        start == IF k = first THEN offset % TFS_BLOCK_SIZE ELSE 0
        before == IF k = first THEN 0 ELSE k * TFS_BLOCK_SIZE - offset
    IN [x \in 1 .. TFS_BLOCK_SIZE |->
            IF x > start /\ before + x - start <= Len(buf) THEN buf[before + x - start] ELSE old[x]]

(* What the file should hold after m bytes of the buffer were written. *)
Splice(bytes, offset, buf, m) ==
    [i \in 1 .. Len(bytes) |-> IF i > offset /\ i <= offset + Min({m, Len(buf)}) THEN buf[i - offset] ELSE bytes[i]]

(* Blocks of the disk that hold no file's data, and any bytes in them. *)
NotData(blocks) ==
    {b \in blocks \intersect 0 .. (TotalBlocks - 1) : b \in SystemBlocks \/ content[b].inode}

BytesIn(blocks) == [NotData(blocks) -> [1 .. TFS_BLOCK_SIZE -> Bytes]]

(* Header, allocation block and directory with some of `blocks' overwritten. *)
SystemAfter(blocks) ==
    /\ bat' \in IF TFS_ALLOCATION_BLOCK \in blocks THEN ForgedBats ELSE {bat}
    /\ dir' \in IF TFS_DIRECTORY_BLOCK \in blocks THEN ForgedDirs ELSE {dir}

(* tfs_write through handle h of len bytes v.  The blocks from the first on   *)
(* are written until a write fails, as it does past the end of the disk.      *)
(* Nothing tells whether the handle's block is still an inode, nor what the   *)
(* blocks that it names are used for.                                         *)
tfs_write(h, offset, len, v) == \E inode \in ReadAsInode(h.id) :
    LET n == Min({len, inode.filesize - offset})
        first == offset \div TFS_BLOCK_SIZE
        last == (offset + n - 1) \div TFS_BLOCK_SIZE
        To(k) == {BlockOf(inode, j) : j \in first .. (k - 1)}
    IN
    /\ mounted /\ damage = Intact
    /\ ValidId(h.id)
    /\ offset <= inode.filesize /\ n > 0
    /\ \E k \in first .. (last + 1),           \* the first block that is not written
          bytes \in BytesIn(To(last + 1)) :
         /\ To(k) \subseteq 0 .. (TotalBlocks - 1)
         /\ content' = [b \in DOMAIN content |->
               IF b \in To(k)
               THEN Data(BlockAfter(IF content[b].inode THEN bytes[b] ELSE content[b].data,
                                    CHOOSE j \in first .. (k - 1) : b = BlockOf(inode, j),
                                    offset, Fill(n, v)))
               ELSE content[b]]
         /\ SystemAfter(To(k))
         /\ files' = IF Stale(h) \/ files[h.name] = NoFile THEN files
                     ELSE [files EXCEPT ![h.name] =
                             Splice(@, offset, Fill(n, v), k * TFS_BLOCK_SIZE - offset)]
    /\ damage' = IF Stale(h) THEN [how |-> "stale", name |-> h.name] ELSE damage
    /\ UNCHANGED <<mounted, opened, orphans>>

(* The bytes tfs_read copies: the first block from the offset on, then whole  *)
(* blocks, then what is left of the length.                                   *)
tfs_read(id, offset, len) ==
    LET inode == content[id]
        n == Min({len, inode.filesize - offset})
    IN [i \in 1 .. n |-> ByteAt(inode, offset + i - 1)]

----------------------------------------------------------------------------
(* The tool. *)

(* The blocks the tool takes for a file: it goes on until a read of the       *)
(* source finds its end, which is after the last full block.                  *)
ToolBlocks(size) ==
    IF size = TFS_BLOCKS_MAX * TFS_BLOCK_SIZE THEN TFS_BLOCKS_MAX ELSE size \div TFS_BLOCK_SIZE + 1

(* tfstool_write of a file of bytes v: the data, the inode, the directory and *)
(* the allocation block are written, in this order.                           *)
tfstool_write(n, size, v) ==
    LET count == ToolBlocks(size)
        found == bitmap_findnset(bat, count + 1)
        index == Min(FreeEntries)
        inode == found[1]
        blocks == SubSeq(found, 2, count + 1)
    IN
    /\ ~mounted /\ damage = Intact
    /\ Named(n) = {} /\ FreeEntries # {}
    /\ size <= TFS_BLOCKS_MAX * TFS_BLOCK_SIZE
    /\ Fits(bat, count + 1)
    /\ \E k \in 0 .. (count + 3) :
         /\ content' = [b \in DOMAIN content |->
               IF b = inode /\ Written(k, count + 1) THEN Inode(size, blocks)
               ELSE IF \E i \in DOMAIN blocks : b = blocks[i] /\ Written(k, i)
                    THEN Data(Fill(TFS_BLOCK_SIZE, v)) ELSE content[b]]
         /\ dir' = IF Written(k, count + 2) THEN [dir EXCEPT ![index] = [inode |-> inode, name |-> n]] ELSE dir
         /\ bat' = IF Written(k, count + 3) THEN bat \union Range(found) ELSE bat
         /\ files' = IF k = count + 3 THEN [files EXCEPT ![n] = Fill(size, v)] ELSE files
         /\ damage' = IF k = count + 2 THEN [how |-> "tool", name |-> n] ELSE damage
    /\ UNCHANGED <<mounted, opened, orphans>>

tfstool_delete(n) == ~mounted /\ RemoveFile(n)

(* The bytes tfstool_read copies: block after block, of each as many as the   *)
(* size leaves.                                                               *)
tfstool_read(i) ==
    LET inode == InodeOf(i)
        n == Min({inode.filesize, Len(inode.block) * TFS_BLOCK_SIZE})
    IN [p \in 1 .. n |-> ByteAt(inode, p - 1)]

TfsNext ==
    \/ tfs_init \/ tfs_unmount
    \/ \E n \in Names : \/ \E size \in Sizes : tfs_create(n, size)
                        \/ tfs_remove(n)
                        \/ tfs_open(n)
                        \/ \E source \in Sources : tfstool_write(n, source[1], source[2])
                        \/ tfstool_delete(n)
    \/ \E h \in opened : \/ tfs_close(h)
                         \/ \E offset \in 0 .. Max(Sizes), len \in 1 .. Max(Sizes), v \in Bytes :
                              tfs_write(h, offset, len, v)

TfsSpec == TfsInit /\ [][TfsNext]_tfsVars

----------------------------------------------------------------------------
FileBlocks(i) == {dir[i].inode} \union Range(InodeOf(i).block)
Used == {i \in Entries : dir[i].inode # 0}
Sound == {i \in Used : dir[i].name # damage.name}       \* entries not left half done

(* Entries whose inode has been written. *)
Whole == IF damage.how = "create" THEN Sound ELSE Used

(* The inode of an entry is one, and not in one of its file's data blocks. *)
HasInode(i) == InodeOf(i).inode /\ dir[i].inode \notin Range(InodeOf(i).block)

(* An inode names enough blocks for the size of its file. *)
InodeOK(c) ==
    /\ c.filesize \in Nat /\ c.block \in Seq(Area)
    /\ CeilDiv(c.filesize) <= Len(c.block) /\ Len(c.block) <= TFS_BLOCKS_MAX

(* The types of the volume's blocks and of the driver's state. *)
TfsTypeOK ==
    /\ bat \subseteq 0 .. (TotalBlocks - 1) /\ SystemBlocks \subseteq bat
    /\ dir \in [Entries -> [inode : {0} \union Area, name : Names \union {NoName}]]
    /\ \A i \in Entries : dir[i].inode = 0 <=> dir[i].name = NoName
    /\ DOMAIN content = Area
    /\ \A b \in Area : IF content[b].inode THEN InodeOK(content[b])
                       ELSE content[b].data \in [1 .. TFS_BLOCK_SIZE -> Bytes]
    /\ mounted \in BOOLEAN /\ orphans \in BOOLEAN
    /\ opened \subseteq [id : Area, name : Names]
    /\ DOMAIN files = Names /\ \A n \in Names : files[n] = NoFile \/ files[n] \in Seq(Bytes)
    /\ damage \in [how : {"intact", "create", "remove", "tool", "stale"}, name : Names \union {NoName}]
    /\ damage.how = "intact" <=> damage.name = NoName

(* Wherever an operation stops: no two files share a name or a block, what a  *)
(* file uses is marked as allocated, and its inode is one, unless a create    *)
(* stopped, which leaves at worst an entry with a marked block of its own     *)
(* that is not an inode yet.  A file half removed, or half written by the     *)
(* tool, has only blocks that are not marked.                                 *)
FilesDisjoint ==
    /\ \A i, j \in Used : i # j => dir[i].name # dir[j].name
    /\ \A i \in Whole : HasInode(i)
    /\ \A i, j \in Whole : i # j => FileBlocks(i) \intersect FileBlocks(j) = {}
    /\ \A i \in Sound : FileBlocks(i) \subseteq bat
    /\ damage.how = "create" =>
         \A i \in Used \ Sound, j \in Sound : dir[i].inode \in bat \ FileBlocks(j)
    /\ damage.how \in {"remove", "tool"} =>
         \A i \in Used \ Sound : FileBlocks(i) \intersect bat = {}

(* The blocks that files use, a block of two files counted twice. *)
BlocksInUse == {use \in Used \X Area : use[2] \in FileBlocks(use[1])}

(* No space is lost: what is marked is what the files use, also after a       *)
(* removal that stopped half way has been repeated.  Only a create that       *)
(* stopped after its first write leaves blocks that nobody uses.              *)
SpaceExact ==
    /\ damage.how # "create" /\ ~orphans =>
         bat = SystemBlocks \union UNION {FileBlocks(i) : i \in Sound}
    /\ damage = Intact /\ ~orphans =>
         tfs_getfree = (TotalBlocks - 3 - Cardinality(BlocksInUse)) * TFS_BLOCK_SIZE

(* Allocation block, directory and inodes agree, wherever an operation of    *)
(* the driver or the tool stopped, until someone writes through the handle   *)
(* of a removed file.  What such a write does to other files, to inodes and  *)
(* to the system blocks is in tfs_write; nothing holds of the volume then.   *)
VolumeOK == damage.how # "stale" => TfsTypeOK /\ FilesDisjoint /\ SpaceExact

(* What was written is read back, by the driver at every offset and length    *)
(* and by the tool, whatever was created, written and removed around it,      *)
(* unless someone has written through the handle of a removed file.           *)
ReadsBack ==
    damage.how # "stale" =>
        \A i \in Sound : LET n == dir[i].name IN
            files[n] # NoFile =>
                /\ tfstool_read(i) = files[n]
                /\ \A offset \in 0 .. Len(files[n]), len \in 1 .. Len(files[n]) :
                     tfs_read(dir[i].inode, offset, len)
                         = SubSeq(files[n], offset + 1, Min({offset + len, Len(files[n])}))
=============================================================================
