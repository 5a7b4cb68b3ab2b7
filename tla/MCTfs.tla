-------------------------------- MODULE MCTfs --------------------------------
(* An instance of Tfs for TLC.  File names are interchangeable. *)
EXTENDS Tfs

(* The tool copies files of exactly one block and of as many as there can be. *)
WholeBlocks == {<<2, 1>>, <<4, 1>>}

(* Data read as an inode: it names the directory and a block of a file, the   *)
(* allocation block and another one, or a block past the end of the disk.     *)
Inodes == {Inode(4, <<4, 2>>), Inode(3, <<1, 5>>), Inode(2, <<TotalBlocks>>)}

(* Nothing is marked any more, or everything, and no file is left. *)
Bats == {{}, 0 .. (TotalBlocks - 1)}
Dirs == {[i \in Entries |-> [inode |-> 0, name |-> NoName]]}

NameSymmetry == Permutations(Names)
=============================================================================
