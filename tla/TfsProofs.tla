------------------------------- MODULE TfsProofs -------------------------------
(***************************************************************************)
(* Proofs about the trivial filesystem (Tfs): allocation block, directory    *)
(* and inodes agree wherever an operation of the driver or of the tool      *)
(* stops, and both read the bytes that were written to a file, for any size  *)
(* of the disk, of its blocks, of the directory and of the files.            *)
(***************************************************************************)
EXTENDS Tfs, FiniteSetTheorems, SequenceTheorems, WellFoundedInduction, TLAPS

-----------------------------------------------------------------------------
(* Numbers *)

(* Min is the least element of a set of natural numbers. *)
LEMMA MinIsLeast ==
    ASSUME NEW S \in SUBSET Nat, S # {}
    PROVE  Min(S) \in S /\ \A y \in S : Min(S) <= y
<1> DEFINE Smaller == OpToRel(<, Nat)
<1>1. \A x, y \in Nat : <<y, x>> \notin Smaller => x <= y
  BY DEF OpToRel
<1>2. IsWellFoundedOn(Smaller, Nat)
  BY NatLessThanWellFounded
<1> HIDE DEF Smaller
<1>3. PICK x \in S : \A y \in S : <<y, x>> \notin Smaller
  BY <1>2, WFMin
<1>4. \A y \in S : x <= y
  BY <1>1, <1>3
<1> QED BY <1>4 DEF Min

(* The smaller of two numbers. *)
LEMMA SmallerOf ==
    ASSUME NEW x \in Int, NEW y \in Int
    PROVE  Min({x, y}) = IF x <= y THEN x ELSE y
<1>1. PICK z \in Int : z = (IF x <= y THEN x ELSE y) /\ z \in {x, y} /\ z <= x /\ z <= y
  OBVIOUS
<1>2. \A u \in {x, y} : (\A w \in {x, y} : u <= w) => u = z
  BY <1>1
<1>3. \A w \in {x, y} : z <= w
  BY <1>1
<1>4. (CHOOSE u \in {x, y} : \A w \in {x, y} : u <= w) = z
  BY <1>1, <1>2, <1>3
<1> QED BY <1>1, <1>4 DEF Min

(* A set of numbers up to N has a greatest element. *)
LEMMA MaxIsGreatest ==
    ASSUME NEW N \in Nat, NEW S \in SUBSET (0 .. N), S # {}
    PROVE  Max(S) \in S
<1> DEFINE T == {N - x : x \in S}
<1>1. T \in SUBSET Nat /\ T # {}
  <2>1. \A x \in 0 .. N : N - x \in Nat
    OBVIOUS
  <2>2. PICK x \in S : TRUE
    OBVIOUS
  <2>3. N - x \in T
    OBVIOUS
  <2> QED BY <2>1, <2>3
<1>2. PICK m \in T : \A t \in T : m <= t
  BY <1>1, MinIsLeast
<1>3. PICK x \in S : m = N - x
  BY <1>2
<1>4. \A y \in S : x >= y
  <2> TAKE y \in S
  <2>1. N - y \in T
    OBVIOUS
  <2>2. N - x <= N - y
    BY <1>2, <1>3, <2>1
  <2> QED BY <2>2
<1> QED BY <1>4 DEF Max

(* Products with one factor are ordered as the other factors are. *)
LEMMA Multiples ==
    ASSUME NEW a \in Int, NEW b \in Int, NEW d \in Nat, d >= 1
    PROVE  /\ a * d \in Int /\ b * d \in Int
           /\ a <= b => a * d <= b * d
           /\ a * d < b * d => a < b
           /\ (a + b) * d = a * d + b * d
<1>2. a * d \in Int /\ b * d \in Int /\ (a + b) * d = a * d + b * d
  OBVIOUS
<1>3. ASSUME NEW x \in Int, NEW y \in Int, x <= y PROVE x * d <= y * d
  <2>1. PICK z \in Nat : y = x + z
    BY <1>3
  <2>2. y * d = x * d + z * d /\ z * d \in Nat
    BY <2>1
  <2> QED BY <2>2
<1>4. a * d < b * d => a < b
  <2>1. CASE b <= a
    BY <1>2, <1>3, <2>1
  <2> QED BY <2>1
<1> QED BY <1>2, <1>3, <1>4

(* Quotient and remainder. *)
LEMMA Division ==
    ASSUME NEW a \in Nat, NEW d \in Nat, d >= 1
    PROVE  /\ a \div d \in Nat /\ a % d \in 0 .. (d - 1)
           /\ a = (a \div d) * d + (a % d)
<1>1. a \div d \in Nat
  OBVIOUS
<1>2. a % d \in 0 .. (d - 1)
  OBVIOUS
<1>3. a = d * (a \div d) + (a % d)
  OBVIOUS
<1>4. PICK q \in Nat : q = a \div d
  BY <1>1
<1>5. d * q = q * d
  OBVIOUS
<1> QED BY <1>1, <1>2, <1>3, <1>4, <1>5

(* A quotient is less than c when what is divided is less than c times as much. *)
LEMMA QuotientBound ==
    ASSUME NEW a \in Nat, NEW d \in Nat, d >= 1, NEW c \in Int, a < c * d
    PROVE  a \div d < c
<1>1. PICK q \in Nat, r \in Nat : q = a \div d /\ a = q * d + r
  BY Division
<1>2. q * d \in Int /\ c * d \in Int
  BY Multiples
<1>3. q * d < c * d
  BY <1>1, <1>2
<1> QED BY <1>1, <1>3, Multiples

(* What is assumed of the constants, in the form the proofs use. *)
LEMMA TfsConstants ==
    /\ TFS_BLOCK_SIZE \in Nat /\ TFS_BLOCK_SIZE >= 1
    /\ TotalBlocks \in Nat /\ TotalBlocks >= 3
    /\ TFS_MAX_FILES \in Nat /\ TFS_MAX_FILES >= 1 /\ TFS_BLOCKS_MAX \in Nat
    /\ NoName \notin Names /\ 0 \in Bytes
    /\ Sizes \subseteq Nat /\ Max(Sizes) \in Nat /\ Sources \subseteq Nat \X Bytes
<1>1. PICK m \in Sizes : \A size \in Sizes : size <= m
  BY TfsAssumption
<1>2. Sizes \subseteq Nat
  BY TfsAssumption
<1>3. Max(Sizes) \in Sizes
  <2>1. \A y \in Sizes : m >= y
    BY <1>1, <1>2
  <2> QED BY <2>1 DEF Max
<1>4. /\ TFS_BLOCK_SIZE \in Nat \ {0} /\ TotalBlocks \in Nat /\ TotalBlocks > 2
      /\ TFS_MAX_FILES \in Nat \ {0} /\ TFS_BLOCKS_MAX \in Nat
  BY TfsAssumption
<1>5. NoName \notin Names /\ 0 \in Bytes /\ Sources \subseteq Nat \X Bytes
  BY TfsAssumption
<1>6. /\ TFS_BLOCK_SIZE \in Nat /\ TFS_BLOCK_SIZE >= 1
      /\ TotalBlocks \in Nat /\ TotalBlocks >= 3
      /\ TFS_MAX_FILES \in Nat /\ TFS_MAX_FILES >= 1 /\ TFS_BLOCKS_MAX \in Nat
  BY <1>4
<1>7. Max(Sizes) \in Nat
  BY <1>2, <1>3
<1> QED BY <1>2, <1>5, <1>6, <1>7

(* The blocks outside the first three. *)
LEMMA AreaBlocks ==
    /\ Area \subseteq 0 .. (TotalBlocks - 1) /\ Area \subseteq Int /\ 0 \notin Area
    /\ SystemBlocks \cap Area = {} /\ SystemBlocks \cup Area = 0 .. (TotalBlocks - 1)
    /\ IsFiniteSet(SystemBlocks) /\ Cardinality(SystemBlocks) = 3
    /\ IsFiniteSet(0 .. (TotalBlocks - 1))
<1>1. 0 \in Int /\ 2 \in Int /\ ~(0 > 2) /\ 2 - 0 + 1 = 3
  OBVIOUS
<1>2. IsFiniteSet(0 .. 2) /\ Cardinality(0 .. 2) = 3
  BY <1>1, FS_Interval
<1>3. 0 \in Int /\ TotalBlocks - 1 \in Int
  BY TfsConstants
<1>4. IsFiniteSet(0 .. (TotalBlocks - 1))
  BY <1>3, FS_Interval
<1>5. PICK t \in Nat : t = TotalBlocks /\ t >= 3
  BY TfsConstants
<1>6. \A b : b \in 3 .. (t - 1) => b \in 0 .. (t - 1) /\ b \in Int /\ b # 0 /\ b \notin 0 .. 2
  BY <1>5
<1>7. \A b : b \in 0 .. (t - 1) <=> b \in 0 .. 2 \/ b \in 3 .. (t - 1)
  BY <1>5
<1>8. (0 .. 2) \cap (3 .. (t - 1)) = {} /\ (0 .. 2) \cup (3 .. (t - 1)) = 0 .. (t - 1)
  BY <1>6, <1>7
<1> QED BY <1>2, <1>4, <1>5, <1>6, <1>8 DEF Area, SystemBlocks, TFS_DIRECTORY_BLOCK

-----------------------------------------------------------------------------
(* The k-th of a set of numbers *)

Rank(S, f) == Cardinality({g \in S : g < f})

(* Ranks are different, and smaller than the size of the set. *)
LEMMA RankGrows ==
    ASSUME NEW S, IsFiniteSet(S), S \subseteq Int
    PROVE  /\ Cardinality(S) \in Nat
           /\ \A f \in S : Rank(S, f) \in Nat /\ Rank(S, f) < Cardinality(S)
           /\ \A f, g \in S : f < g => Rank(S, f) < Rank(S, g)
           /\ \A f, g \in S : Rank(S, f) = Rank(S, g) => f = g
<1> DEFINE Below(f) == {g \in S : g < f}
<1>0. \A f : Below(f) \in SUBSET S
  OBVIOUS
<1>1. \A f : IsFiniteSet(Below(f)) /\ Cardinality(Below(f)) \in Nat
  BY <1>0, FS_Subset, FS_CardinalityType
<1>2. Cardinality(S) \in Nat
  BY FS_CardinalityType
<1>3. ASSUME NEW T, T \in SUBSET S, NEW f \in T, NEW R \in SUBSET T, f \notin R
      PROVE  Cardinality(R) < Cardinality(T)
  <2>1. IsFiniteSet(T)
    BY <1>3, FS_Subset
  <2>2. IsFiniteSet(R) /\ Cardinality(R) <= Cardinality(T) /\ (Cardinality(T) = Cardinality(R) => T = R)
    BY <2>1, FS_Subset
  <2>3. Cardinality(T) \in Nat /\ Cardinality(R) \in Nat
    BY <2>1, <2>2, FS_CardinalityType
  <2> QED BY <1>3, <2>2, <2>3
<1>4. \A f \in S : Rank(S, f) \in Nat /\ Rank(S, f) < Cardinality(S)
  <2> TAKE f \in S
  <2>1. f \notin Below(f) /\ Below(f) \in SUBSET S /\ S \in SUBSET S
    OBVIOUS
  <2>2. Cardinality(Below(f)) < Cardinality(S)
    BY <1>3, <2>1
  <2> QED BY <1>1, <2>2 DEF Rank
<1>5. \A f, g \in S : f < g => Rank(S, f) < Rank(S, g)
  <2> SUFFICES ASSUME NEW f \in S, NEW g \in S, f < g PROVE Rank(S, f) < Rank(S, g)
    OBVIOUS
  <2>1. /\ f \notin Below(f) /\ f \in Below(g)
        /\ Below(f) \in SUBSET Below(g) /\ Below(g) \in SUBSET S
    <3>1. \A x \in S : x < f => x < g
      OBVIOUS
    <3>2. ~(f < f)
      OBVIOUS
    <3> QED BY <3>1, <3>2
  <2>2. Cardinality(Below(f)) < Cardinality(Below(g))
    BY <1>3, <2>1
  <2> QED BY <2>2 DEF Rank
<1>6. \A f, g \in S : Rank(S, f) = Rank(S, g) => f = g
  <2> SUFFICES ASSUME NEW f \in S, NEW g \in S, f # g PROVE Rank(S, f) # Rank(S, g)
    OBVIOUS
  <2>1. f < g \/ g < f
    OBVIOUS
  <2>2. Rank(S, f) \in Nat /\ Rank(S, g) \in Nat
    BY <1>4
  <2> QED BY <1>5, <2>1, <2>2
<1> QED BY <1>2, <1>4, <1>5, <1>6

(* Every number below the size of the set is the rank of one element. *)
LEMMA RankOnto ==
    ASSUME NEW S, IsFiniteSet(S), S \subseteq Int, NEW k \in 1 .. Cardinality(S)
    PROVE  \E f \in S : Rank(S, f) = k - 1
<1>1. PICK n \in Nat : n = Cardinality(S)
  BY FS_CardinalityType
<1> DEFINE r == [f \in S |-> Rank(S, f) + 1]
<1>2. \A f \in S : Rank(S, f) + 1 \in 1 .. n
  <2> TAKE f \in S
  <2>1. Rank(S, f) \in Nat /\ Rank(S, f) < n
    BY <1>1, RankGrows
  <2> QED BY <2>1
<1>3. r \in Injection(S, 1 .. n)
  <2>1. r \in [S -> 1 .. n]
    BY <1>2
  <2>2. \A f, g \in S : r[f] = r[g] => f = g
    <3> SUFFICES ASSUME NEW f \in S, NEW g \in S, r[f] = r[g] PROVE f = g
      OBVIOUS
    <3>0. Rank(S, f) + 1 = Rank(S, g) + 1
      OBVIOUS
    <3>1. Rank(S, f) \in Nat /\ Rank(S, g) \in Nat /\ Rank(S, f) + 1 = Rank(S, g) + 1
      BY <3>0, RankGrows
    <3>2. Rank(S, f) = Rank(S, g)
      BY <3>1
    <3> QED BY <3>2, RankGrows
  <2>3. DOMAIN r = S
    OBVIOUS
  <2> QED BY <2>1, <2>2, <2>3 DEF Injection, IsInjective
<1>4. IsFiniteSet(1 .. n) /\ Cardinality(1 .. n) = n
  <2>1. n >= 1 /\ 1 \in Int /\ n \in Int /\ ~(1 > n) /\ n - 1 + 1 = n
    BY <1>1
  <2> QED BY <2>1, FS_Interval
<1>5. r \in Surjection(S, 1 .. n)
  BY <1>1, <1>3, <1>4, FS_Injection
<1>6. PICK f \in S : r[f] = k
  BY <1>1, <1>5 DEF Surjection
<1>7. Rank(S, f) + 1 = k /\ Rank(S, f) \in Nat
  BY <1>6, RankGrows
<1> QED BY <1>7

-----------------------------------------------------------------------------
(* Allocation *)

(* The blocks that n calls of bitmap_findnset find are different blocks that *)
(* were not marked.                                                           *)
LEMMA FindsFreeBlocks ==
    ASSUME NEW set, SystemBlocks \subseteq set, NEW n \in Nat, Fits(set, n)
    PROVE  /\ bitmap_findnset(set, n) \in [1 .. n -> Area \ set]
           /\ \A i, j \in 1 .. n :
                 bitmap_findnset(set, n)[i] = bitmap_findnset(set, n)[j] => i = j
<1> DEFINE S == FreeBelow(set, TotalBlocks)
           nth(i) == CHOOSE b \in 0 .. (TotalBlocks - 1) :
                        b \notin set /\ Cardinality(FreeBelow(set, b)) = i - 1
<1>1. S = {b \in 0 .. (TotalBlocks - 1) : b \notin set}
  BY DEF FreeBelow
<1>2. S \subseteq Int /\ S \subseteq Area \ set
  BY <1>1, AreaBlocks
<1>3. IsFiniteSet(S)
  <2>1. S \subseteq 0 .. (TotalBlocks - 1)
    BY <1>1
  <2> QED BY <2>1, AreaBlocks, FS_Subset
<1>4. PICK m \in Nat : m = Cardinality(S) /\ m >= n
  BY <1>3, FS_CardinalityType DEF Fits
<1>5. ASSUME NEW b \in 0 .. (TotalBlocks - 1) PROVE FreeBelow(set, b) = {g \in S : g < b}
  <2>1. PICK t \in Nat : t = TotalBlocks
    BY TfsConstants
  <2>2. b \in Int /\ 0 <= b /\ b < t
    BY <2>1
  <2>3. \A g : g \in 0 .. (b - 1) <=> g \in 0 .. (t - 1) /\ g < b
    BY <2>1, <2>2
  <2> QED BY <1>1, <2>1, <2>3 DEF FreeBelow
<1>6. ASSUME NEW i \in 1 .. n PROVE nth(i) \in S /\ Rank(S, nth(i)) = i - 1
  <2>1. i \in 1 .. Cardinality(S)
    BY <1>4
  <2>2. PICK f \in S : Rank(S, f) = i - 1
    BY <1>2, <1>3, <2>1, RankOnto
  <2>3. f \in 0 .. (TotalBlocks - 1) /\ f \notin set
    BY <1>1, <2>2
  <2>4. Cardinality(FreeBelow(set, f)) = i - 1
    BY <1>5, <2>2, <2>3 DEF Rank
  <2>5. /\ nth(i) \in 0 .. (TotalBlocks - 1) /\ nth(i) \notin set
        /\ Cardinality(FreeBelow(set, nth(i))) = i - 1
    BY <2>3, <2>4
  <2>6. FreeBelow(set, nth(i)) = {g \in S : g < nth(i)}
    BY <1>5, <2>5
  <2> QED BY <1>1, <2>5, <2>6 DEF Rank
<1>7. bitmap_findnset(set, n) = [i \in 1 .. n |-> nth(i)]
  BY DEF bitmap_findnset
<1> HIDE DEF nth, S
<1>8. ASSUME NEW i \in 1 .. n, NEW j \in 1 .. n, nth(i) = nth(j) PROVE i = j
  <2>1. i - 1 = j - 1
    BY <1>6, <1>8
  <2> QED BY <2>1
<1>9. \A i \in 1 .. n : nth(i) \in Area \ set
  BY <1>2, <1>6
<1> QED BY <1>7, <1>8, <1>9

(* What tfs_create and tfstool_write make of them: an inode and the blocks of *)
(* the file.                                                                  *)
Fresh(found, inode, blocks, count) ==
    /\ inode \in Area \ bat /\ blocks \in Seq(Area \ bat) /\ Len(blocks) = count
    /\ Range(found) = {inode} \cup Range(blocks)
    /\ \A i \in 1 .. count : blocks[i] # inode
    /\ \A i, j \in 1 .. count : blocks[i] = blocks[j] => i = j

LEMMA FreshFile ==
    ASSUME TfsTypeOK, NEW count \in Nat, Fits(bat, count + 1),
           NEW found, found = bitmap_findnset(bat, count + 1)
    PROVE  Fresh(found, found[1], SubSeq(found, 2, count + 1), count)
<1>1. count + 1 \in Nat /\ SystemBlocks \subseteq bat
  BY DEF TfsTypeOK
<1>2. /\ found \in [1 .. (count + 1) -> Area \ bat]
      /\ \A i, j \in 1 .. (count + 1) : found[i] = found[j] => i = j
  BY <1>1, FindsFreeBlocks
<1>3. found \in Seq(Area \ bat) /\ Len(found) = count + 1
  BY <1>2
<1>4. PICK blocks : blocks = SubSeq(found, 2, count + 1)
  OBVIOUS
<1>5. /\ blocks \in Seq(Area \ bat) /\ Len(blocks) = count
      /\ \A i \in 1 .. count : blocks[i] = found[i + 1]
  <2>1. \A i \in 2 .. (count + 1) : found[i] \in Area \ bat
    BY <1>2
  <2>2. blocks = [i \in 1 .. ((count + 1) - 2 + 1) |-> found[i + 2 - 1]]
    BY <1>3, <1>4
  <2>3. (count + 1) - 2 + 1 = count /\ \A i \in 1 .. count : i + 2 - 1 = i + 1 /\ i + 1 \in 2 .. (count + 1)
    OBVIOUS
  <2>4. blocks \in [1 .. count -> Area \ bat] /\ \A i \in 1 .. count : blocks[i] = found[i + 1]
    BY <2>1, <2>2, <2>3
  <2> QED BY <2>4
<1>6. DOMAIN found = 1 .. (count + 1) /\ DOMAIN blocks = 1 .. count
  BY <1>2, <1>5
<1>7. \A i \in 1 .. count : i + 1 \in 1 .. (count + 1) /\ i + 1 # 1
  OBVIOUS
<1>9. 1 \in 1 .. (count + 1)
  OBVIOUS
<1>10. Range(found) = {found[1]} \cup Range(blocks)
  <2>1. ASSUME NEW b \in Range(found) PROVE b \in {found[1]} \cup Range(blocks)
    <3>1. PICK i \in 1 .. (count + 1) : b = found[i]
      BY <1>6 DEF Range
    <3>2. CASE i = 1
      BY <3>1, <3>2
    <3>3. CASE i # 1
      <4>1. i - 1 \in 1 .. count /\ (i - 1) + 1 = i
        BY <3>3
      <4>2. blocks[i - 1] = b
        BY <1>5, <3>1, <4>1
      <4> QED BY <1>6, <4>1, <4>2 DEF Range
    <3> QED BY <3>2, <3>3
  <2>2. \A b \in {found[1]} \cup Range(blocks) : b \in Range(found)
    BY <1>5, <1>6, <1>7, <1>9 DEF Range
  <2> QED BY <2>1, <2>2
<1>11. \A i \in 1 .. count : blocks[i] # found[1]
  BY <1>2, <1>5, <1>7, <1>9
<1>12. \A i, j \in 1 .. count : blocks[i] = blocks[j] => i = j
  <2> SUFFICES ASSUME NEW i \in 1 .. count, NEW j \in 1 .. count, blocks[i] = blocks[j]
               PROVE  i = j
    OBVIOUS
  <2>1. i + 1 = j + 1
    BY <1>2, <1>5, <1>7
  <2> QED BY <2>1
<1> QED BY <1>2, <1>4, <1>5, <1>9, <1>10, <1>11, <1>12 DEF Fresh

-----------------------------------------------------------------------------
(* A volume on which no operation stopped half way *)

Clean ==
    /\ TfsTypeOK /\ damage = Intact
    /\ \A i, j \in Used : i # j => dir[i].name # dir[j].name
    /\ \A i \in Used : HasInode(i)
    /\ \A i, j \in Used : i # j => FileBlocks(i) \cap FileBlocks(j) = {}
    /\ \A i \in Used : FileBlocks(i) \subseteq bat
    /\ ~orphans => bat = SystemBlocks \cup UNION {FileBlocks(i) : i \in Used}

(* The entries of the directory and the blocks of a file. *)
LEMMA EntryTypes ==
    ASSUME TfsTypeOK, NEW i \in Used
    PROVE  /\ i \in Entries /\ dir[i].inode \in Area /\ dir[i].name \in Names
           /\ dir[i].name # NoName
           /\ InodeOf(i).inode => FileBlocks(i) \subseteq Area
<1>1. i \in Entries /\ dir[i].inode # 0
  BY DEF Used
<1>2. PICK e \in [inode : {0} \cup Area, name : Names \cup {NoName}] : e = dir[i]
  BY <1>1 DEF TfsTypeOK
<1>3. e.inode \in Area
  BY <1>1, <1>2
<1>4. e.name # NoName
  BY <1>1, <1>2 DEF TfsTypeOK
<1>5. e.name \in Names
  BY <1>2, <1>4
<1>6. ASSUME InodeOf(i).inode PROVE FileBlocks(i) \subseteq Area
  <2>1. PICK c : c = InodeOf(i)
    OBVIOUS
  <2>2. content[e.inode] = c /\ content[e.inode].inode
    BY <1>2, <1>6, <2>1 DEF InodeOf
  <2>3. c.block \in Seq(Area)
    BY <1>3, <2>2 DEF TfsTypeOK, InodeOK
  <2>4. Range(c.block) \subseteq Area
    <3>1. \A k \in DOMAIN c.block : c.block[k] \in Area
      BY <2>3, ElementOfSeq
    <3> QED BY <3>1 DEF Range
  <2> QED BY <1>2, <1>3, <2>1, <2>4 DEF FileBlocks
<1> QED BY <1>1, <1>2, <1>3, <1>4, <1>5, <1>6

LEMMA AllSound ==
    ASSUME TfsTypeOK, damage = Intact
    PROVE  Sound = Used /\ Whole = Used
<1>1. damage.how = "intact" /\ damage.name = NoName
  BY DEF Intact
<1>2. \A i \in Used : dir[i].name # NoName
  BY EntryTypes
<1> QED BY <1>1, <1>2 DEF Sound, Whole

LEMMA OKIsClean == VolumeOK /\ damage = Intact => Clean
<1> SUFFICES ASSUME VolumeOK, damage = Intact PROVE Clean
  OBVIOUS
<1>3. damage.how \notin {"create", "stale"}
  BY DEF Intact
<1>1. TfsTypeOK /\ FilesDisjoint /\ SpaceExact
  BY <1>3 DEF VolumeOK
<1>2. Sound = Used /\ Whole = Used
  BY <1>1, AllSound
<1>4. ~orphans => bat = SystemBlocks \cup UNION {FileBlocks(i) : i \in Used}
  BY <1>1, <1>2, <1>3 DEF SpaceExact
<1> QED BY <1>1, <1>2, <1>4 DEF FilesDisjoint, Clean

(* The blocks that are not free are the first three and those of files, each *)
(* of one file.                                                               *)
LEMMA SpaceCounted ==
    ASSUME Clean, ~orphans
    PROVE  tfs_getfree = (TotalBlocks - 3 - Cardinality(BlocksInUse)) * TFS_BLOCK_SIZE
<1> DEFINE U == UNION {FileBlocks(i) : i \in Used}
           owner(b) == CHOOSE i \in Used : b \in FileBlocks(i)
           f == [b \in U |-> <<owner(b), b>>]
<1>1. bat = SystemBlocks \cup U
  BY DEF Clean
<1>2. \A i \in Used : FileBlocks(i) \subseteq Area
  BY EntryTypes DEF Clean, HasInode
<1>3. U \subseteq Area
  BY <1>2
<1>4. IsFiniteSet(U)
  <2>1. U \subseteq 0 .. (TotalBlocks - 1)
    BY <1>3, AreaBlocks
  <2> QED BY <2>1, AreaBlocks, FS_Subset
<1>5. \A b \in U : owner(b) \in Used /\ b \in FileBlocks(owner(b))
  OBVIOUS
<1>6. \A b \in U : \A i \in Used : b \in FileBlocks(i) => owner(b) = i
  <2> SUFFICES ASSUME NEW b \in U, NEW i \in Used, b \in FileBlocks(i), owner(b) # i PROVE FALSE
    OBVIOUS
  <2>1. b \in FileBlocks(owner(b)) /\ owner(b) \in Used
    BY <1>5
  <2>2. FileBlocks(owner(b)) \cap FileBlocks(i) = {}
    BY <2>1 DEF Clean
  <2> QED BY <2>1, <2>2
<1> HIDE DEF owner
<1>7. \A b \in U : <<owner(b), b>> \in BlocksInUse
  <2> SUFFICES ASSUME NEW b \in U PROVE <<owner(b), b>> \in BlocksInUse
    OBVIOUS
  <2>1. owner(b) \in Used /\ b \in Area /\ b \in FileBlocks(owner(b))
    BY <1>3, <1>5
  <2> QED BY <2>1 DEF BlocksInUse
<1>8. f \in Surjection(U, BlocksInUse)
  <2>1. f \in [U -> BlocksInUse]
    BY <1>7
  <2>2. ASSUME NEW use \in BlocksInUse PROVE \E b \in U : f[b] = use
    <3>1. PICK i \in Used, b \in Area : use = <<i, b>> /\ b \in FileBlocks(i)
      BY DEF BlocksInUse
    <3>2. b \in U
      BY <3>1
    <3>3. owner(b) = i
      BY <1>6, <3>1, <3>2
    <3>4. f[b] = use
      BY <3>1, <3>2, <3>3
    <3> QED BY <3>2, <3>4
  <2> QED BY <2>1, <2>2 DEF Surjection
<1>9. f \in Injection(U, BlocksInUse)
  <2>1. f \in [U -> BlocksInUse]
    BY <1>7
  <2>2. \A b, c \in U : f[b] = f[c] => b = c
    OBVIOUS
  <2>3. DOMAIN f = U
    OBVIOUS
  <2> QED BY <2>1, <2>2, <2>3 DEF Injection, IsInjective
<1>10. Cardinality(BlocksInUse) = Cardinality(U)
  BY <1>4, <1>8, <1>9, FS_Surjection
<1>11. Cardinality(bat) = 3 + Cardinality(U)
  <2>1. SystemBlocks \cap U = {}
    BY <1>3, AreaBlocks
  <2>2. Cardinality(SystemBlocks \cap U) = 0
    BY <2>1, FS_EmptySet
  <2>3. Cardinality(SystemBlocks \cup U) = 3 + Cardinality(U) - 0
    BY <1>4, <2>2, AreaBlocks, FS_Union
  <2>4. Cardinality(U) \in Nat
    BY <1>4, FS_CardinalityType
  <2> QED BY <1>1, <2>3, <2>4
<1>12. bat \intersect (0 .. (TotalBlocks - 1)) = bat
  BY DEF Clean, TfsTypeOK
<1>13. PICK n \in Nat, t \in Nat : n = Cardinality(U) /\ t = TotalBlocks
  BY <1>4, FS_CardinalityType, TfsConstants
<1>14. t - (3 + n) = t - 3 - n
  OBVIOUS
<1> QED BY <1>10, <1>11, <1>12, <1>13, <1>14 DEF tfs_getfree

LEMMA CleanIsOK == Clean => VolumeOK
<1> SUFFICES ASSUME Clean PROVE VolumeOK
  OBVIOUS
<1>1. TfsTypeOK /\ damage = Intact
  BY DEF Clean
<1>2. Sound = Used /\ Whole = Used
  BY <1>1, AllSound
<1>3. damage.how = "intact"
  BY <1>1 DEF Intact
<1>4. FilesDisjoint
  BY <1>2, <1>3 DEF Clean, FilesDisjoint
<1>5. SpaceExact
  BY <1>1, <1>2, SpaceCounted DEF Clean, SpaceExact
<1> QED BY <1>1, <1>4, <1>5 DEF VolumeOK

(* The first volume. *)
LEMMA VolumeInit == TfsInit => VolumeOK
<1> SUFFICES ASSUME TfsInit PROVE Clean
  BY CleanIsOK
<1>1. Used = {}
  BY DEF TfsInit, Used
<1>2. bat \subseteq 0 .. (TotalBlocks - 1)
  BY AreaBlocks DEF TfsInit
<1>3. dir \in [Entries -> [inode : {0} \cup Area, name : Names \cup {NoName}]]
  BY DEF TfsInit
<1>4. ASSUME NEW b \in Area PROVE ~content[b].inode /\ content[b].data \in [1 .. TFS_BLOCK_SIZE -> Bytes]
  <2>1. content[b] = Data(Fill(TFS_BLOCK_SIZE, 0))
    BY DEF TfsInit
  <2> QED BY <2>1, TfsConstants DEF Data, Fill
<1>5. TfsTypeOK
  BY <1>2, <1>3, <1>4 DEF TfsInit, TfsTypeOK, Intact
<1> QED BY <1>1, <1>5 DEF Clean, TfsInit

-----------------------------------------------------------------------------
(* Steps that leave files alone *)

(* A file is the same when its entry and its inode are. *)
LEMMA SameFile ==
    ASSUME NEW i, dir'[i] = dir[i], content'[dir[i].inode] = content[dir[i].inode]
    PROVE  InodeOf(i)' = InodeOf(i) /\ FileBlocks(i)' = FileBlocks(i)
<1>1. content'[dir'[i].inode] = content[dir[i].inode]
  OBVIOUS
<1> QED BY <1>1 DEF InodeOf, FileBlocks

LEMMA SameVolume ==
    ASSUME VolumeOK, UNCHANGED <<bat, dir, content, orphans, damage>>,
           damage.how # "stale" => TfsTypeOK'
    PROVE  VolumeOK'
<1> SUFFICES ASSUME damage.how # "stale" PROVE TfsTypeOK' /\ FilesDisjoint' /\ SpaceExact'
  BY DEF VolumeOK
<1>1. Used' = Used /\ Sound' = Sound /\ Whole' = Whole /\ BlocksInUse' = BlocksInUse
  BY DEF Used, Sound, Whole, BlocksInUse, FileBlocks, InodeOf
<1>2. \A i : InodeOf(i)' = InodeOf(i) /\ FileBlocks(i)' = FileBlocks(i)
  BY SameFile
<1>3. tfs_getfree' = tfs_getfree
  BY DEF tfs_getfree
<1>4. FilesDisjoint'
  BY <1>1, <1>2 DEF VolumeOK, FilesDisjoint, HasInode
<1>5. {FileBlocks(i)' : i \in Sound} = {FileBlocks(i) : i \in Sound}
  BY <1>2
<1>6. SpaceExact'
  BY <1>1, <1>3, <1>5 DEF VolumeOK, SpaceExact, SystemBlocks, Intact
<1> QED BY <1>4, <1>6

(* What a block holds. *)
BlockOK(c) == IF c.inode THEN InodeOK(c) ELSE c.data \in [1 .. TFS_BLOCK_SIZE -> Bytes]

LEMMA DataOK ==
    ASSUME NEW bytes \in [1 .. TFS_BLOCK_SIZE -> Bytes]
    PROVE  BlockOK(Data(bytes)) /\ ~Data(bytes).inode
BY DEF BlockOK, Data

LEMMA FillOK ==
    ASSUME NEW n \in Nat, NEW v \in Bytes
    PROVE  /\ Fill(n, v) \in Seq(Bytes) /\ Fill(n, v) \in [1 .. n -> Bytes]
           /\ Len(Fill(n, v)) = n
<1>1. Fill(n, v) \in [1 .. n -> Bytes]
  BY DEF Fill
<1> QED BY <1>1

LEMMA NewInodeOK ==
    ASSUME NEW size \in Nat, NEW blocks \in Seq(Area),
           CeilDiv(size) <= Len(blocks), Len(blocks) <= TFS_BLOCKS_MAX
    PROVE  BlockOK(Inode(size, blocks)) /\ Inode(size, blocks).inode
BY DEF BlockOK, Inode, InodeOK

(* Entries and files that are not open. *)
StateOK ==
    /\ bat \subseteq 0 .. (TotalBlocks - 1) /\ SystemBlocks \subseteq bat
    /\ mounted \in BOOLEAN /\ orphans \in BOOLEAN
    /\ opened \subseteq [id : Area, name : Names]

EntriesOK ==
    /\ dir \in [Entries -> [inode : {0} \cup Area, name : Names \cup {NoName}]]
    /\ \A i \in Entries : dir[i].inode = 0 <=> dir[i].name = NoName

ContentOK == DOMAIN content = Area /\ \A b \in Area : BlockOK(content[b])

FilesOK == DOMAIN files = Names /\ \A n \in Names : files[n] = NoFile \/ files[n] \in Seq(Bytes)

DamageOK ==
    /\ damage \in [how : {"intact", "create", "remove", "tool", "stale"}, name : Names \cup {NoName}]
    /\ damage.how = "intact" <=> damage.name = NoName

LEMMA TypeParts ==
    TfsTypeOK <=> StateOK /\ EntriesOK /\ ContentOK /\ FilesOK /\ DamageOK
BY DEF TfsTypeOK, StateOK, EntriesOK, ContentOK, FilesOK, DamageOK, BlockOK

LEMMA TypePartsNext ==
    TfsTypeOK' <=> StateOK' /\ EntriesOK' /\ ContentOK' /\ FilesOK' /\ DamageOK'
BY TypeParts, PTL

(* Blocks that change are written as an inode or as data. *)
LEMMA ContentKept ==
    ASSUME ContentOK, DOMAIN content' = Area,
           \A b \in Area : content'[b] = content[b] \/ BlockOK(content'[b])
    PROVE  ContentOK'
<1>1. \A b \in Area : BlockOK(content'[b])
  BY DEF ContentOK
<1> QED BY <1>1 DEF ContentOK, BlockOK, InodeOK, CeilDiv

LEMMA FilesKept ==
    ASSUME FilesOK, NEW n \in Names, NEW bytes, bytes = NoFile \/ bytes \in Seq(Bytes),
           files' = files \/ files' = [files EXCEPT ![n] = bytes]
    PROVE  FilesOK'
<1>1. CASE files' = files
  BY <1>1 DEF FilesOK
<1>2. CASE files' = [files EXCEPT ![n] = bytes]
  <2>1. DOMAIN files' = Names
    BY <1>2 DEF FilesOK
  <2>2. \A m \in Names : files'[m] = IF m = n THEN bytes ELSE files[m]
    BY <1>2 DEF FilesOK
  <2> QED BY <2>1, <2>2 DEF FilesOK
<1> QED BY <1>1, <1>2

(* An entry is written. *)
LEMMA EntryWritten ==
    ASSUME EntriesOK, NEW i \in Entries,
           NEW e \in [inode : {0} \cup Area, name : Names \cup {NoName}],
           e.inode = 0 <=> e.name = NoName,
           dir' = [dir EXCEPT ![i] = e]
    PROVE  /\ EntriesOK'
           /\ dir'[i] = e /\ \A j \in Entries : j # i => dir'[j] = dir[j]
<1>1. dir' \in [Entries -> [inode : {0} \cup Area, name : Names \cup {NoName}]]
  BY DEF EntriesOK
<1>2. \A j \in Entries : dir'[j] = IF j = i THEN e ELSE dir[j]
  BY DEF EntriesOK
<1> QED BY <1>1, <1>2 DEF EntriesOK

LEMMA DamageKinds ==
    ASSUME NEW n \in Names, NEW how \in {"create", "remove", "tool", "stale"},
           damage' = [how |-> how, name |-> n]
    PROVE  DamageOK' /\ damage'.how = how /\ damage'.name = n
<1>1. n # NoName /\ how # "intact"
  BY TfsConstants
<1> QED BY <1>1 DEF DamageOK

LEMMA IntactOK ==
    ASSUME damage' = Intact
    PROVE  DamageOK'
BY DEF DamageOK, Intact

-----------------------------------------------------------------------------
(* How far the making of a file gets *)

(* A file gets an entry, and the blocks of other files stay as they are. *)
Enters(index, inode, n) ==
    /\ index \in FreeEntries /\ inode \in Area \ bat
    /\ n \in Names /\ Named(n) = {}
    /\ dir' = [dir EXCEPT ![index] = [inode |-> inode, name |-> n]]
    /\ \A b \in bat \cap Area : content'[b] = content[b]

LEMMA OthersStay ==
    ASSUME Clean, NEW i \in Used, dir'[i] = dir[i], \A b \in bat \cap Area : content'[b] = content[b]
    PROVE  InodeOf(i)' = InodeOf(i) /\ FileBlocks(i)' = FileBlocks(i)
<1>1. dir[i].inode \in bat \cap Area
  <2>1. dir[i].inode \in FileBlocks(i)
    BY DEF FileBlocks
  <2>2. dir[i].inode \in Area
    BY EntryTypes DEF Clean
  <2> QED BY <2>1, <2>2 DEF Clean
<1>2. content'[dir[i].inode] = content[dir[i].inode]
  BY <1>1
<1> QED BY <1>2, SameFile

LEMMA NewEntry ==
    ASSUME Clean, NEW index, NEW inode, NEW n, Enters(index, inode, n)
    PROVE  /\ EntriesOK' /\ index \notin Used /\ Used' = Used \cup {index}
           /\ dir'[index].inode = inode /\ dir'[index].name = n
           /\ \A i \in Used : /\ dir'[i] = dir[i] /\ dir[i].name # n
                              /\ InodeOf(i)' = InodeOf(i) /\ FileBlocks(i)' = FileBlocks(i)
<1>1. /\ index \in Entries /\ index \notin Used /\ n \in Names /\ n # NoName
      /\ inode \in Area /\ inode # 0 /\ Named(n) = {}
  BY TfsConstants, AreaBlocks DEF Enters, FreeEntries, Used
<1>2. PICK e : e = [inode |-> inode, name |-> n]
  OBVIOUS
<1>3. /\ e \in [inode : {0} \cup Area, name : Names \cup {NoName}]
      /\ e.inode = inode /\ e.name = n
  BY <1>1, <1>2
<1>4. dir' = [dir EXCEPT ![index] = e]
  BY <1>2 DEF Enters
<1>5. EntriesOK
  BY TypeParts DEF Clean
<1>6. EntriesOK' /\ dir'[index] = e /\ \A j \in Entries : j # index => dir'[j] = dir[j]
  BY <1>1, <1>3, <1>4, <1>5, EntryWritten
<1>7. ASSUME NEW i \in Used
      PROVE  /\ dir'[i] = dir[i] /\ dir[i].name # n
             /\ InodeOf(i)' = InodeOf(i) /\ FileBlocks(i)' = FileBlocks(i)
  <2>1. i \in Entries /\ i # index
    BY <1>1 DEF Used
  <2>2. dir'[i] = dir[i]
    BY <1>6, <2>1
  <2>3. dir[i].name # n
    BY <1>1, <2>1 DEF Named
  <2> QED BY <2>2, <2>3, OthersStay DEF Enters
<1>8. Used' = Used \cup {index}
  <2>1. \A i \in Entries : i # index => dir'[i].inode = dir[i].inode
    BY <1>6
  <2>2. dir'[index].inode # 0
    BY <1>1, <1>3, <1>6
  <2> QED BY <1>1, <2>1, <2>2 DEF Used
<1> QED BY <1>1, <1>3, <1>6, <1>7, <1>8

(* The operation stopped before the directory was written: at worst blocks   *)
(* are marked that nobody uses.                                               *)
LEMMA StoppedBeforeEntry ==
    ASSUME Clean, TfsTypeOK', dir' = dir, damage' = damage,
           bat \subseteq bat', \A b \in bat \cap Area : content'[b] = content[b],
           orphans' = FALSE => bat' = bat /\ ~orphans
    PROVE  VolumeOK'
<1>1. Used' = Used
  BY DEF Used
<1>2. \A i \in Used : /\ dir'[i] = dir[i] /\ InodeOf(i)' = InodeOf(i)
                      /\ FileBlocks(i)' = FileBlocks(i)
  BY OthersStay
<1>3. damage' = Intact
  BY DEF Clean
<1>4. \A i \in Used' : FileBlocks(i)' \subseteq bat'
  BY <1>1, <1>2 DEF Clean
<1>5. ~orphans' => bat' = SystemBlocks \cup UNION {FileBlocks(i)' : i \in Used'}
  <2> SUFFICES ASSUME ~orphans' PROVE bat' = SystemBlocks \cup UNION {FileBlocks(i)' : i \in Used'}
    OBVIOUS
  <2>1. orphans' = FALSE
    BY DEF TfsTypeOK
  <2>2. bat' = SystemBlocks \cup UNION {FileBlocks(i) : i \in Used}
    BY <2>1 DEF Clean
  <2>3. {FileBlocks(i)' : i \in Used'} = {FileBlocks(i) : i \in Used}
    BY <1>1, <1>2
  <2> QED BY <2>2, <2>3
<1>6. Clean'
  BY <1>1, <1>2, <1>3, <1>4, <1>5 DEF Clean, HasInode, Intact, SystemBlocks
<1>7. Clean' => VolumeOK'
  BY CleanIsOK, PTL
<1> QED BY <1>6, <1>7

(* tfs_create stopped between the directory and the inode. *)
LEMMA StoppedBeforeInode ==
    ASSUME Clean, TfsTypeOK', NEW index, NEW inode, NEW n, Enters(index, inode, n),
           bat \subseteq bat', inode \in bat', damage' = [how |-> "create", name |-> n]
    PROVE  VolumeOK'
<1>1. /\ index \notin Used /\ Used' = Used \cup {index}
      /\ dir'[index].inode = inode /\ dir'[index].name = n
      /\ \A i \in Used : /\ dir'[i] = dir[i] /\ dir[i].name # n
                         /\ InodeOf(i)' = InodeOf(i) /\ FileBlocks(i)' = FileBlocks(i)
  BY NewEntry
<1>2. damage'.how = "create" /\ damage'.name = n /\ damage'.how # "intact"
  OBVIOUS
<1>3. Sound' = Used
  BY <1>1, <1>2 DEF Sound
<1>4. Whole' = Used
  BY <1>2, <1>3 DEF Whole
<1>5. \A i, j \in Used' : i # j => dir'[i].name # dir'[j].name
  BY <1>1 DEF Clean
<1>6. \A i \in Whole' : HasInode(i)'
  BY <1>1, <1>4 DEF Clean, HasInode
<1>7. \A i, j \in Whole' : i # j => FileBlocks(i)' \cap FileBlocks(j)' = {}
  BY <1>1, <1>4 DEF Clean
<1>8. \A i \in Sound' : FileBlocks(i)' \subseteq bat'
  BY <1>1, <1>3 DEF Clean
<1>9. \A i \in Used' \ Sound', j \in Sound' : dir'[i].inode \in bat' \ FileBlocks(j)'
  <2> SUFFICES ASSUME NEW j \in Used PROVE inode \in bat' \ FileBlocks(j)
    BY <1>1, <1>3
  <2>1. inode \notin bat
    BY DEF Enters
  <2> QED BY <2>1 DEF Clean
<1>10. FilesDisjoint'
  BY <1>2, <1>5, <1>6, <1>7, <1>8, <1>9 DEF FilesDisjoint
<1>11. SpaceExact'
  BY <1>2 DEF SpaceExact, Intact
<1> QED BY <1>10, <1>11 DEF VolumeOK

(* The blocks of the file that is made. *)
LEMMA FileMade ==
    ASSUME Clean, NEW index, NEW inode, NEW n, Enters(index, inode, n),
           NEW found, NEW blocks, NEW count, Fresh(found, inode, blocks, count),
           NEW size, content'[inode] = Inode(size, blocks)
    PROVE  /\ HasInode(index)' /\ FileBlocks(index)' = Range(found)
           /\ Range(found) \cap bat = {}
<1>1. dir'[index].inode = inode
  BY NewEntry
<1>2. InodeOf(index)' = Inode(size, blocks)
  BY <1>1 DEF InodeOf
<1>3. Inode(size, blocks).block = blocks /\ Inode(size, blocks).inode
  BY DEF Inode
<1>4. FileBlocks(index)' = {inode} \cup Range(blocks)
  BY <1>1, <1>2, <1>3 DEF FileBlocks
<1>5. Range(blocks) \cap bat = {}
  <2>1. blocks \in Seq(Area \ bat)
    BY DEF Fresh
  <2>2. \A k \in DOMAIN blocks : blocks[k] \in Area \ bat
    BY <2>1, ElementOfSeq
  <2> QED BY <2>2 DEF Range
<1>6. inode \notin bat /\ Range(found) = {inode} \cup Range(blocks)
  BY DEF Fresh
<1>7. inode \notin Range(blocks)
  <2>1. blocks \in Seq(Area \ bat) /\ Len(blocks) = count /\ \A i \in 1 .. count : blocks[i] # inode
    BY DEF Fresh
  <2>2. DOMAIN blocks = 1 .. count
    BY <2>1
  <2> QED BY <2>1, <2>2 DEF Range
<1>8. HasInode(index)'
  BY <1>1, <1>2, <1>3, <1>7 DEF HasInode
<1> QED BY <1>4, <1>5, <1>6, <1>8

(* tfstool_write stopped before the allocation block. *)
LEMMA StoppedBeforeMarks ==
    ASSUME Clean, TfsTypeOK', NEW index, NEW inode, NEW n, Enters(index, inode, n),
           NEW found, NEW blocks, NEW count, Fresh(found, inode, blocks, count),
           NEW size, content'[inode] = Inode(size, blocks),
           bat' = bat, orphans' = orphans, damage' = [how |-> "tool", name |-> n]
    PROVE  VolumeOK'
<1>1. /\ index \notin Used /\ Used' = Used \cup {index}
      /\ dir'[index].inode = inode /\ dir'[index].name = n
      /\ \A i \in Used : /\ dir'[i] = dir[i] /\ dir[i].name # n
                         /\ InodeOf(i)' = InodeOf(i) /\ FileBlocks(i)' = FileBlocks(i)
  BY NewEntry
<1>2. HasInode(index)' /\ FileBlocks(index)' = Range(found) /\ Range(found) \cap bat = {}
  BY FileMade
<1>3. damage'.how = "tool" /\ damage'.name = n /\ damage'.how # "intact"
  OBVIOUS
<1>4. Sound' = Used
  BY <1>1, <1>3 DEF Sound
<1>5. Whole' = Used \cup {index}
  BY <1>1, <1>3 DEF Whole
<1>6. \A i, j \in Used' : i # j => dir'[i].name # dir'[j].name
  BY <1>1 DEF Clean
<1>7. \A i \in Whole' : HasInode(i)'
  BY <1>1, <1>2, <1>5 DEF Clean, HasInode
<1>8. \A i \in Used : FileBlocks(i) \subseteq bat
  BY DEF Clean
<1>9. \A i, j \in Whole' : i # j => FileBlocks(i)' \cap FileBlocks(j)' = {}
  <2>1. \A i \in Used : FileBlocks(i)' \cap FileBlocks(index)' = {}
    BY <1>1, <1>2, <1>8
  <2>2. \A i, j \in Used : i # j => FileBlocks(i)' \cap FileBlocks(j)' = {}
    BY <1>1 DEF Clean
  <2> QED BY <1>5, <2>1, <2>2
<1>10. \A i \in Sound' : FileBlocks(i)' \subseteq bat'
  BY <1>1, <1>4, <1>8
<1>11. \A i \in Used' \ Sound' : FileBlocks(i)' \cap bat' = {}
  BY <1>1, <1>2, <1>4
<1>12. FilesDisjoint'
  BY <1>3, <1>6, <1>7, <1>9, <1>10, <1>11 DEF FilesDisjoint
<1>13. SpaceExact'
  <2>1. {FileBlocks(i)' : i \in Sound'} = {FileBlocks(i) : i \in Used}
    BY <1>1, <1>4
  <2>2. ~orphans' => bat' = SystemBlocks \cup UNION {FileBlocks(i)' : i \in Sound'}
    BY <2>1 DEF Clean
  <2>3. damage' # Intact
    BY <1>3 DEF Intact
  <2> QED BY <2>2, <2>3 DEF SpaceExact, SystemBlocks, Intact
<1> QED BY <1>12, <1>13 DEF VolumeOK

(* The file is there, with inode, entry and marks. *)
LEMMA FileComplete ==
    ASSUME Clean, TfsTypeOK', NEW index, NEW inode, NEW n, Enters(index, inode, n),
           NEW found, NEW blocks, NEW count, Fresh(found, inode, blocks, count),
           NEW size, content'[inode] = Inode(size, blocks),
           bat' = bat \cup Range(found), orphans' = orphans, damage' = damage
    PROVE  VolumeOK'
<1>1. /\ index \notin Used /\ Used' = Used \cup {index}
      /\ dir'[index].inode = inode /\ dir'[index].name = n
      /\ \A i \in Used : /\ dir'[i] = dir[i] /\ dir[i].name # n
                         /\ InodeOf(i)' = InodeOf(i) /\ FileBlocks(i)' = FileBlocks(i)
  BY NewEntry
<1>2. HasInode(index)' /\ FileBlocks(index)' = Range(found) /\ Range(found) \cap bat = {}
  BY FileMade
<1>3. damage' = Intact
  BY DEF Clean
<1>4. \A i, j \in Used' : i # j => dir'[i].name # dir'[j].name
  BY <1>1 DEF Clean
<1>5. \A i \in Used' : HasInode(i)'
  BY <1>1, <1>2 DEF Clean, HasInode
<1>6. \A i \in Used : FileBlocks(i) \subseteq bat
  BY DEF Clean
<1>7. \A i, j \in Used' : i # j => FileBlocks(i)' \cap FileBlocks(j)' = {}
  <2>1. \A i \in Used : FileBlocks(i)' \cap FileBlocks(index)' = {}
    BY <1>1, <1>2, <1>6
  <2>2. \A i, j \in Used : i # j => FileBlocks(i)' \cap FileBlocks(j)' = {}
    BY <1>1 DEF Clean
  <2> QED BY <1>1, <2>1, <2>2
<1>8. \A i \in Used' : FileBlocks(i)' \subseteq bat'
  BY <1>1, <1>2, <1>6
<1>9. ~orphans' => bat' = SystemBlocks \cup UNION {FileBlocks(i)' : i \in Used'}
  <2>1. ~orphans => bat = SystemBlocks \cup UNION {FileBlocks(i) : i \in Used}
    BY DEF Clean
  <2>2. {FileBlocks(i)' : i \in Used'} = {FileBlocks(i) : i \in Used} \cup {Range(found)}
    BY <1>1, <1>2
  <2>3. UNION ({FileBlocks(i) : i \in Used} \cup {Range(found)})
          = (UNION {FileBlocks(i) : i \in Used}) \cup Range(found)
    OBVIOUS
  <2> QED BY <2>1, <2>2, <2>3
<1>10. Clean'
  BY <1>3, <1>4, <1>5, <1>7, <1>8, <1>9 DEF Clean, Intact, SystemBlocks
<1>11. Clean' => VolumeOK'
  BY CleanIsOK, PTL
<1> QED BY <1>10, <1>11

-----------------------------------------------------------------------------
(* tfs_create and tfstool_write *)

(* The blocks of a file are enough for its size. *)
LEMMA BlocksNeeded ==
    ASSUME NEW size \in Nat
    PROVE  CeilDiv(size) \in Nat
<1>1. PICK d \in Nat : d = TFS_BLOCK_SIZE /\ d >= 1
  BY TfsConstants
<1>2. size + d - 1 \in Nat
  BY <1>1
<1>3. (size + d - 1) \div d \in Nat
  BY <1>1, <1>2, Division
<1> QED BY <1>1, <1>3 DEF CeilDiv

LEMMA ToolBlocksNeeded ==
    ASSUME NEW size \in Nat, size <= TFS_BLOCKS_MAX * TFS_BLOCK_SIZE
    PROVE  /\ ToolBlocks(size) \in Nat /\ CeilDiv(size) <= ToolBlocks(size)
           /\ ToolBlocks(size) <= TFS_BLOCKS_MAX
<1>1. PICK d \in Nat, m \in Nat : d = TFS_BLOCK_SIZE /\ d >= 1 /\ m = TFS_BLOCKS_MAX
  BY TfsConstants
<1>2. PICK a \in Nat : a = size + d - 1 /\ CeilDiv(size) = a \div d
  BY <1>1 DEF CeilDiv
<1>3. a \div d \in Nat
  BY <1>1, Division
<1>4. PICK top \in Int : top = m * d
  OBVIOUS
<1>5. CASE size = top
  <2>1. (m + 1) * d = top + d
    BY <1>4
  <2>2. a < (m + 1) * d
    BY <1>1, <1>2, <1>5, <2>1
  <2>3. a \div d < m + 1
    BY <1>1, <2>2, QuotientBound
  <2>4. ToolBlocks(size) = m
    BY <1>1, <1>4, <1>5 DEF ToolBlocks
  <2> QED BY <1>1, <1>2, <1>3, <2>3, <2>4
<1>6. CASE size # top
  <2>1. PICK q \in Nat, r \in Nat : q = size \div d /\ r < d /\ size = q * d + r
    BY <1>1, Division
  <2>2. size < m * d
    BY <1>1, <1>4, <1>6
  <2>3. q < m
    BY <1>1, <2>1, <2>2, QuotientBound
  <2>4. (q + 2) * d = q * d + 2 * d /\ q * d \in Nat
    BY <1>1
  <2>5. a < (q + 2) * d
    BY <1>1, <1>2, <2>1, <2>4
  <2>6. a \div d < q + 2
    BY <1>1, <2>5, QuotientBound
  <2>7. ToolBlocks(size) = q + 1
    BY <1>1, <1>4, <1>6, <2>1 DEF ToolBlocks
  <2> QED BY <1>1, <1>2, <1>3, <2>3, <2>6, <2>7
<1> QED BY <1>5, <1>6

(* Operations on the file of an entry leave what is in use alone. *)
LEMMA EntryFree ==
    ASSUME FreeEntries # {}
    PROVE  Max(FreeEntries) \in FreeEntries /\ Min(FreeEntries) \in FreeEntries
<1>1. TFS_MAX_FILES - 1 \in Nat
  BY TfsConstants
<1>2. FreeEntries \in SUBSET (0 .. (TFS_MAX_FILES - 1))
  BY DEF FreeEntries, Entries
<1>3. FreeEntries \in SUBSET Nat
  BY <1>1, <1>2
<1> QED BY <1>1, <1>2, <1>3, MaxIsGreatest, MinIsLeast

(* Only the blocks of the new file are written. *)
LEMMA FreshWritten ==
    ASSUME ContentOK, SystemBlocks \subseteq bat,
           NEW found, NEW inode, NEW blocks, NEW count, Fresh(found, inode, blocks, count),
           NEW node, BlockOK(node), NEW fill, BlockOK(fill),
           DOMAIN content' = Area,
           \A b \in Area : \/ content'[b] = content[b]
                           \/ b = inode /\ content'[b] = node
                           \/ b \in Range(blocks) /\ content'[b] = fill
    PROVE  ContentOK' /\ \A b \in bat \cap Area : content'[b] = content[b]
<1>1. ContentOK'
  BY ContentKept
<1>2. inode \notin bat
  BY DEF Fresh
<1>3. Range(blocks) \cap bat = {}
  <2>1. blocks \in Seq(Area \ bat)
    BY DEF Fresh
  <2>2. \A k \in DOMAIN blocks : blocks[k] \in Area \ bat
    BY <2>1, ElementOfSeq
  <2> QED BY <2>2 DEF Range
<1> QED BY <1>1, <1>2, <1>3

(* What the two of them do: the blocks that were in use stay, and a file that *)
(* is made to its end has an entry, an inode and blocks with its bytes.       *)
MakesFile(n, size, v) ==
    \E found, index, inode, blocks, count :
        /\ Clean /\ Fresh(found, inode, blocks, count) /\ count \in Nat
        /\ CeilDiv(size) <= count /\ count <= TFS_BLOCKS_MAX
        /\ \A b \in bat \cap Area : content'[b] = content[b]
        /\ \/ dir' = dir /\ files' = files /\ damage' = damage
           \/ Enters(index, inode, n) /\ files' = files
           \/ /\ Enters(index, inode, n) /\ files' = [files EXCEPT ![n] = Fill(size, v)]
              /\ content'[inode] = Inode(size, blocks)
              /\ \A i \in 1 .. count : content'[blocks[i]] = Data(Fill(TFS_BLOCK_SIZE, v))

(* tfs_create, wherever it stops. *)
LEMMA CreateStep ==
    ASSUME VolumeOK, NEW n \in Names, NEW size \in Sizes, tfs_create(n, size)
    PROVE  VolumeOK' /\ MakesFile(n, size, 0)
<1>1. PICK count : count = CeilDiv(size)
  OBVIOUS
<1>2. PICK found : found = bitmap_findnset(bat, count + 1)
  OBVIOUS
<1>3. PICK index, inode, blocks :
         /\ index = Max(FreeEntries) /\ inode = found[1] /\ blocks = SubSeq(found, 2, count + 1)
  OBVIOUS
<1>4. PICK entry, node, zeroes :
         /\ entry = [inode |-> inode, name |-> n] /\ node = Inode(size, blocks)
         /\ zeroes = Data(Fill(TFS_BLOCK_SIZE, 0))
  OBVIOUS
<1>5. /\ damage = Intact /\ count <= TFS_BLOCKS_MAX /\ Named(n) = {} /\ FreeEntries # {}
      /\ Fits(bat, count + 1) /\ mounted' = mounted /\ opened' = opened
  BY <1>1 DEF tfs_create
<1>6. PICK k \in 0 .. (3 + count) :
         /\ bat' = IF Written(k, CreateOrder.bat) THEN bat \union Range(found) ELSE bat
         /\ dir' = IF Written(k, CreateOrder.dir) THEN [dir EXCEPT ![index] = entry] ELSE dir
         /\ content' = [b \in DOMAIN content |->
               IF b = inode /\ Written(k, CreateOrder.inode) THEN node
               ELSE IF \E i \in DOMAIN blocks : b = blocks[i] /\ Written(k, 3 + i)
                    THEN zeroes ELSE content[b]]
         /\ files' = IF k = 3 + count THEN [files EXCEPT ![n] = Fill(size, 0)] ELSE files
         /\ orphans' = (orphans \/ k = 1)
         /\ damage' = IF k = 2 THEN [how |-> "create", name |-> n] ELSE damage
  BY <1>1, <1>2, <1>3, <1>4 DEF tfs_create
<1>7. /\ Clean /\ StateOK /\ ContentOK /\ FilesOK /\ EntriesOK /\ DamageOK
      /\ TfsTypeOK /\ SystemBlocks \subseteq bat
  BY <1>5, OKIsClean, TypeParts DEF Clean, TfsTypeOK
<1>8. size \in Nat /\ count \in Nat
  BY <1>1, TfsConstants, BlocksNeeded
<1>9. Fresh(found, inode, blocks, count)
  BY <1>2, <1>3, <1>5, <1>7, <1>8, FreshFile
<1>10. blocks \in Seq(Area) /\ Len(blocks) = count
  BY <1>9 DEF Fresh
<1>11. BlockOK(node) /\ BlockOK(zeroes)
  <2>1. CeilDiv(size) <= Len(blocks) /\ Len(blocks) <= TFS_BLOCKS_MAX
    BY <1>1, <1>5, <1>8, <1>10
  <2>2. BlockOK(node)
    BY <1>4, <1>8, <1>10, <2>1, NewInodeOK
  <2>3. BlockOK(zeroes)
    BY <1>4, TfsConstants, FillOK, DataOK
  <2> QED BY <2>2, <2>3
<1>12. DOMAIN content' = Area
  BY <1>6, <1>7 DEF ContentOK
<1>13. \A b \in Area : \/ content'[b] = content[b]
                       \/ b = inode /\ content'[b] = node
                       \/ b \in Range(blocks) /\ content'[b] = zeroes
  <2> SUFFICES ASSUME NEW b \in Area
               PROVE  \/ content'[b] = content[b]
                      \/ b = inode /\ content'[b] = node
                      \/ b \in Range(blocks) /\ content'[b] = zeroes
    OBVIOUS
  <2>1. content'[b] = IF b = inode /\ Written(k, CreateOrder.inode) THEN node
                      ELSE IF \E i \in DOMAIN blocks : b = blocks[i] /\ Written(k, 3 + i)
                           THEN zeroes ELSE content[b]
    BY <1>6, <1>7 DEF ContentOK
  <2>2. (\E i \in DOMAIN blocks : b = blocks[i] /\ Written(k, 3 + i)) => b \in Range(blocks)
    BY DEF Range
  <2> QED BY <2>1, <2>2
<1>14. ContentOK' /\ \A b \in bat \cap Area : content'[b] = content[b]
  BY <1>7, <1>9, <1>11, <1>12, <1>13, FreshWritten
<1>15. FilesOK'
  <2>1. Fill(size, 0) \in Seq(Bytes)
    BY <1>8, TfsConstants, FillOK
  <2>2. files' = files \/ files' = [files EXCEPT ![n] = Fill(size, 0)]
    BY <1>6
  <2> QED BY <1>7, <2>1, <2>2, FilesKept
<1>16. Range(found) \subseteq Area \ bat
  <2>1. blocks \in Seq(Area \ bat) /\ inode \in Area \ bat /\ Range(found) = {inode} \cup Range(blocks)
    BY <1>9 DEF Fresh
  <2>2. \A i \in DOMAIN blocks : blocks[i] \in Area \ bat
    BY <2>1, ElementOfSeq
  <2> QED BY <2>1, <2>2 DEF Range
<1>17. StateOK'
  <2>1. bat \subseteq bat' /\ bat' \subseteq bat \cup Range(found)
    BY <1>6
  <2>2. bat' \subseteq 0 .. (TotalBlocks - 1) /\ SystemBlocks \subseteq bat'
    BY <1>7, <1>16, <2>1, AreaBlocks DEF StateOK
  <2>3. orphans' \in BOOLEAN
    BY <1>6
  <2> QED BY <1>5, <1>7, <2>2, <2>3 DEF StateOK, SystemBlocks
<1>18. CreateOrder.bat = 1 /\ CreateOrder.dir = 2 /\ CreateOrder.inode = 3
  BY DEF CreateOrder
<1>19. k \in Nat
  BY <1>8
<1>20. index \in FreeEntries /\ inode \in Area \ bat
  BY <1>3, <1>5, <1>9, EntryFree DEF Fresh
<1>21. CASE k < 2
  <2>1. dir' = dir /\ damage' = damage
    BY <1>6, <1>18, <1>19, <1>21 DEF Written
  <2>2. EntriesOK' /\ DamageOK'
    BY <1>7, <2>1 DEF EntriesOK, DamageOK
  <2>3. TfsTypeOK'
    BY <1>14, <1>15, <1>17, <2>2, TypePartsNext
  <2>4. bat \subseteq bat'
    BY <1>6
  <2>5. orphans' = FALSE => bat' = bat /\ ~orphans
    <3>1. k # 1 => bat' = bat
      BY <1>6, <1>18, <1>19, <1>21 DEF Written
    <3> QED BY <1>6, <3>1
  <2>6. VolumeOK'
    BY <1>7, <1>14, <2>1, <2>3, <2>4, <2>5, StoppedBeforeEntry
  <2>7. files' = files
    BY <1>6, <1>8, <1>19, <1>21
  <2>8. CeilDiv(size) <= count
    BY <1>1, <1>8
  <2> QED BY <1>5, <1>7, <1>8, <1>9, <1>14, <2>1, <2>6, <2>7, <2>8 DEF MakesFile
<1>22. CASE k >= 2
  <2>1. bat' = bat \cup Range(found) /\ dir' = [dir EXCEPT ![index] = entry]
    BY <1>6, <1>18, <1>19, <1>22 DEF Written
  <2>2. Enters(index, inode, n)
    BY <1>4, <1>5, <1>14, <1>20, <2>1 DEF Enters
  <2>3. EntriesOK'
    BY <1>7, <2>2, NewEntry
  <2>4. CASE k = 2
    <3>1. damage' = [how |-> "create", name |-> n]
      BY <1>6, <2>4
    <3>2. TfsTypeOK'
      BY <1>14, <1>15, <1>17, <2>3, <3>1, DamageKinds, TypePartsNext
    <3>3. inode \in bat' /\ bat \subseteq bat'
      BY <1>9, <2>1 DEF Fresh
    <3>4. VolumeOK'
      BY <1>7, <2>2, <3>1, <3>2, <3>3, StoppedBeforeInode
    <3>5. files' = files
      BY <1>6, <1>8, <1>19, <2>4
    <3>6. CeilDiv(size) <= count
      BY <1>1, <1>8
    <3> QED BY <1>5, <1>7, <1>8, <1>9, <1>14, <2>2, <3>4, <3>5, <3>6 DEF MakesFile
  <2>5. CASE k # 2
    <3>1. damage' = damage /\ orphans' = orphans
      BY <1>6, <1>7, <1>22, <2>5 DEF StateOK
    <3>2. DamageOK'
      BY <1>7, <3>1 DEF DamageOK
    <3>3. TfsTypeOK'
      BY <1>14, <1>15, <1>17, <2>3, <3>2, TypePartsNext
    <3>4. content'[inode] = Inode(size, blocks)
      <4>1. Written(k, CreateOrder.inode)
        BY <1>18, <1>19, <1>22, <2>5 DEF Written
      <4>2. inode \in DOMAIN content
        BY <1>7, <1>20 DEF ContentOK
      <4> QED BY <1>4, <1>6, <4>1, <4>2
    <3>5. VolumeOK'
      BY <1>7, <1>9, <2>1, <2>2, <3>1, <3>3, <3>4, FileComplete
    <3>6. CeilDiv(size) <= count
      BY <1>1, <1>8
    <3>7. CASE k # 3 + count
      <4>1. files' = files
        BY <1>6, <3>7
      <4> QED BY <1>5, <1>7, <1>8, <1>9, <1>14, <2>2, <3>5, <3>6, <4>1 DEF MakesFile
    <3>8. CASE k = 3 + count
      <4>1. files' = [files EXCEPT ![n] = Fill(size, 0)]
        BY <1>6, <3>8
      <4>2. ASSUME NEW i \in 1 .. count PROVE content'[blocks[i]] = Data(Fill(TFS_BLOCK_SIZE, 0))
        <5>1. i \in DOMAIN blocks /\ blocks[i] \in Area
          BY <1>10, ElementOfSeq
        <5>2. blocks[i] # inode
          BY <1>9 DEF Fresh
        <5>3. Written(k, 3 + i)
          BY <1>8, <3>8 DEF Written
        <5>4. blocks[i] \in DOMAIN content
          BY <1>7, <5>1 DEF ContentOK
        <5> QED BY <1>4, <1>6, <5>1, <5>2, <5>3, <5>4
      <4> QED BY <1>5, <1>7, <1>8, <1>9, <1>14, <2>2, <3>4, <3>5, <3>6, <4>1, <4>2 DEF MakesFile
    <3> QED BY <3>7, <3>8
  <2> QED BY <2>4, <2>5
<1> QED BY <1>19, <1>21, <1>22

(* The tool's tfstool_write, wherever it stops. *)
LEMMA ToolWriteStep ==
    ASSUME VolumeOK, NEW n \in Names, NEW size \in Nat, NEW v \in Bytes, tfstool_write(n, size, v)
    PROVE  VolumeOK' /\ MakesFile(n, size, v)
<1>1. PICK count : count = ToolBlocks(size)
  OBVIOUS
<1>2. PICK found : found = bitmap_findnset(bat, count + 1)
  OBVIOUS
<1>3. PICK index, inode, blocks :
         /\ index = Min(FreeEntries) /\ inode = found[1] /\ blocks = SubSeq(found, 2, count + 1)
  OBVIOUS
<1>4. PICK entry, node, part :
         /\ entry = [inode |-> inode, name |-> n] /\ node = Inode(size, blocks)
         /\ part = Data(Fill(TFS_BLOCK_SIZE, v))
  OBVIOUS
<1>5. /\ damage = Intact /\ size <= TFS_BLOCKS_MAX * TFS_BLOCK_SIZE
      /\ Named(n) = {} /\ FreeEntries # {}
      /\ Fits(bat, count + 1) /\ mounted' = mounted /\ opened' = opened /\ orphans' = orphans
  BY <1>1 DEF tfstool_write
<1>6. PICK k \in 0 .. (count + 3) :
         /\ content' = [b \in DOMAIN content |->
               IF b = inode /\ Written(k, count + 1) THEN node
               ELSE IF \E i \in DOMAIN blocks : b = blocks[i] /\ Written(k, i)
                    THEN part ELSE content[b]]
         /\ dir' = IF Written(k, count + 2) THEN [dir EXCEPT ![index] = entry] ELSE dir
         /\ bat' = IF Written(k, count + 3) THEN bat \union Range(found) ELSE bat
         /\ files' = IF k = count + 3 THEN [files EXCEPT ![n] = Fill(size, v)] ELSE files
         /\ damage' = IF k = count + 2 THEN [how |-> "tool", name |-> n] ELSE damage
  BY <1>1, <1>2, <1>3, <1>4 DEF tfstool_write
<1>7. /\ Clean /\ StateOK /\ ContentOK /\ FilesOK /\ EntriesOK /\ DamageOK
      /\ TfsTypeOK /\ SystemBlocks \subseteq bat
  BY <1>5, OKIsClean, TypeParts DEF Clean, TfsTypeOK
<1>8. count \in Nat /\ CeilDiv(size) <= count /\ count <= TFS_BLOCKS_MAX
  BY <1>1, <1>5, ToolBlocksNeeded
<1>9. Fresh(found, inode, blocks, count)
  BY <1>2, <1>3, <1>5, <1>7, <1>8, FreshFile
<1>10. blocks \in Seq(Area) /\ Len(blocks) = count
  BY <1>9 DEF Fresh
<1>11. BlockOK(node) /\ BlockOK(part)
  <2>1. BlockOK(node)
    BY <1>4, <1>8, <1>10, NewInodeOK
  <2>2. BlockOK(part)
    BY <1>4, TfsConstants, FillOK, DataOK
  <2> QED BY <2>1, <2>2
<1>12. DOMAIN content' = Area
  BY <1>6, <1>7 DEF ContentOK
<1>13. \A b \in Area : \/ content'[b] = content[b]
                       \/ b = inode /\ content'[b] = node
                       \/ b \in Range(blocks) /\ content'[b] = part
  <2> SUFFICES ASSUME NEW b \in Area
               PROVE  \/ content'[b] = content[b]
                      \/ b = inode /\ content'[b] = node
                      \/ b \in Range(blocks) /\ content'[b] = part
    OBVIOUS
  <2>1. content'[b] = IF b = inode /\ Written(k, count + 1) THEN node
                      ELSE IF \E i \in DOMAIN blocks : b = blocks[i] /\ Written(k, i)
                           THEN part ELSE content[b]
    BY <1>6, <1>7 DEF ContentOK
  <2>2. (\E i \in DOMAIN blocks : b = blocks[i] /\ Written(k, i)) => b \in Range(blocks)
    BY DEF Range
  <2> QED BY <2>1, <2>2
<1>14. ContentOK' /\ \A b \in bat \cap Area : content'[b] = content[b]
  BY <1>7, <1>9, <1>11, <1>12, <1>13, FreshWritten
<1>15. FilesOK'
  <2>1. Fill(size, v) \in Seq(Bytes)
    BY FillOK
  <2>2. files' = files \/ files' = [files EXCEPT ![n] = Fill(size, v)]
    BY <1>6
  <2> QED BY <1>7, <2>1, <2>2, FilesKept
<1>16. Range(found) \subseteq Area \ bat
  <2>1. blocks \in Seq(Area \ bat) /\ inode \in Area \ bat /\ Range(found) = {inode} \cup Range(blocks)
    BY <1>9 DEF Fresh
  <2>2. \A i \in DOMAIN blocks : blocks[i] \in Area \ bat
    BY <2>1, ElementOfSeq
  <2> QED BY <2>1, <2>2 DEF Range
<1>17. StateOK'
  <2>1. bat \subseteq bat' /\ bat' \subseteq bat \cup Range(found)
    BY <1>6
  <2>2. bat' \subseteq 0 .. (TotalBlocks - 1) /\ SystemBlocks \subseteq bat'
    BY <1>7, <1>16, <2>1, AreaBlocks DEF StateOK
  <2> QED BY <1>5, <1>7, <2>2 DEF StateOK, SystemBlocks
<1>18. k \in Nat /\ k <= count + 3
  BY <1>8
<1>19. index \in FreeEntries /\ inode \in Area \ bat
  BY <1>3, <1>5, <1>9, EntryFree DEF Fresh
<1>20. CASE k < count + 2
  <2>1. dir' = dir /\ damage' = damage /\ bat' = bat
    BY <1>6, <1>8, <1>18, <1>20 DEF Written
  <2>2. EntriesOK' /\ DamageOK'
    BY <1>7, <2>1 DEF EntriesOK, DamageOK
  <2>3. TfsTypeOK'
    BY <1>14, <1>15, <1>17, <2>2, TypePartsNext
  <2>4. orphans' = FALSE => bat' = bat /\ ~orphans
    BY <1>5, <2>1
  <2>5. bat \subseteq bat'
    BY <2>1
  <2>6. VolumeOK'
    BY <1>7, <1>14, <2>1, <2>3, <2>4, <2>5, StoppedBeforeEntry
  <2>7. files' = files
    BY <1>6, <1>8, <1>18, <1>20
  <2> QED BY <1>7, <1>8, <1>9, <1>14, <2>1, <2>6, <2>7 DEF MakesFile
<1>21. CASE k >= count + 2
  <2>1. dir' = [dir EXCEPT ![index] = entry]
    BY <1>6, <1>8, <1>18, <1>21 DEF Written
  <2>2. Enters(index, inode, n)
    BY <1>4, <1>5, <1>14, <1>19, <2>1 DEF Enters
  <2>3. EntriesOK'
    BY <1>7, <2>2, NewEntry
  <2>4. content'[inode] = Inode(size, blocks)
    <3>1. Written(k, count + 1)
      BY <1>8, <1>18, <1>21 DEF Written
    <3>2. inode \in DOMAIN content
      BY <1>7, <1>19 DEF ContentOK
    <3> QED BY <1>4, <1>6, <3>1, <3>2
  <2>5. CASE k = count + 2
    <3>1. damage' = [how |-> "tool", name |-> n] /\ bat' = bat
      BY <1>6, <1>8, <2>5 DEF Written
    <3>2. TfsTypeOK'
      BY <1>14, <1>15, <1>17, <2>3, <3>1, DamageKinds, TypePartsNext
    <3>3. VolumeOK'
      BY <1>5, <1>7, <1>9, <2>2, <2>4, <3>1, <3>2, StoppedBeforeMarks
    <3>4. files' = files
      BY <1>6, <1>8, <2>5
    <3> QED BY <1>7, <1>8, <1>9, <1>14, <2>2, <3>3, <3>4 DEF MakesFile
  <2>6. CASE k = count + 3
    <3>1. damage' = damage /\ bat' = bat \cup Range(found)
      BY <1>6, <1>8, <2>6 DEF Written
    <3>2. DamageOK'
      BY <1>7, <3>1 DEF DamageOK
    <3>3. TfsTypeOK'
      BY <1>14, <1>15, <1>17, <2>3, <3>2, TypePartsNext
    <3>4. VolumeOK'
      BY <1>5, <1>7, <1>9, <2>2, <2>4, <3>1, <3>3, FileComplete
    <3>5. files' = [files EXCEPT ![n] = Fill(size, v)]
      BY <1>6, <2>6
    <3>6. ASSUME NEW i \in 1 .. count PROVE content'[blocks[i]] = Data(Fill(TFS_BLOCK_SIZE, v))
      <4>1. i \in DOMAIN blocks /\ blocks[i] \in Area
        BY <1>10, ElementOfSeq
      <4>2. blocks[i] # inode
        BY <1>9 DEF Fresh
      <4>3. Written(k, i)
        BY <1>8, <2>6 DEF Written
      <4>4. blocks[i] \in DOMAIN content
        BY <1>7, <4>1 DEF ContentOK
      <4> QED BY <1>4, <1>6, <4>1, <4>2, <4>3, <4>4
    <3> QED BY <1>7, <1>8, <1>9, <1>14, <2>2, <2>4, <3>4, <3>5, <3>6 DEF MakesFile
  <2> QED BY <1>8, <1>18, <1>21, <2>5, <2>6
<1> QED BY <1>8, <1>18, <1>20, <1>21

-----------------------------------------------------------------------------
(* Removing a file *)

LEMMA NamedFound ==
    ASSUME TfsTypeOK, NEW n \in Names, Named(n) # {}
    PROVE  /\ Min(Named(n)) \in Used /\ dir[Min(Named(n))].name = n
           /\ dir[Min(Named(n))].inode \in Area
<1>1. TFS_MAX_FILES - 1 \in Nat
  BY TfsConstants
<1>2. Named(n) \in SUBSET Nat
  BY <1>1 DEF Named, Entries
<1>3. PICK i : i = Min(Named(n)) /\ i \in Named(n)
  BY <1>2, MinIsLeast
<1>4. i \in Entries /\ dir[i].name = n
  BY <1>3 DEF Named
<1>5. dir[i].name # NoName
  BY <1>4, TfsConstants
<1>6. dir[i].inode # 0
  BY <1>4, <1>5 DEF TfsTypeOK
<1>7. i \in Used
  BY <1>4, <1>6 DEF Used
<1> QED BY <1>3, <1>4, <1>7, EntryTypes

(* What holds of the file that is removed, and of the others. *)
Leaving(i) ==
    /\ i \in Used /\ Used \ {i} \subseteq Sound /\ Sound \subseteq Used
    /\ Whole = Used
    /\ \A j \in Used \ {i} : dir[j].name # dir[i].name
    /\ \A j, k \in Used : j # k => dir[j].name # dir[k].name
    /\ \A j \in Used : HasInode(j) /\ FileBlocks(j) \subseteq Area
    /\ \A j, k \in Used : j # k => FileBlocks(j) \cap FileBlocks(k) = {}
    /\ \A j \in Used \ {i} : FileBlocks(j) \subseteq bat
    /\ i \in Sound => FileBlocks(i) \subseteq bat
    /\ i \notin Sound => FileBlocks(i) \cap bat = {}
    /\ ~orphans => bat = SystemBlocks \cup UNION {FileBlocks(j) : j \in Sound}

LEMMA FileLeaving ==
    ASSUME VolumeOK, NEW n \in Names,
           damage \in {Intact, [how |-> "remove", name |-> n], [how |-> "tool", name |-> n]},
           NEW i \in Used, dir[i].name = n
    PROVE  Leaving(i)
<1>0. TfsTypeOK /\ FilesDisjoint /\ SpaceExact
  BY DEF VolumeOK, Intact
<1>1. \A j, k \in Used : j # k => dir[j].name # dir[k].name
  BY <1>0 DEF FilesDisjoint
<1>2. damage.how \notin {"create", "stale"}
  BY DEF Intact
<1>3. Whole = Used
  BY <1>2 DEF Whole
<1>4. Sound \subseteq Used
  BY DEF Sound
<1>5. Used \ {i} \subseteq Sound
  <2>1. CASE damage = Intact
    BY <1>0, <2>1, AllSound
  <2>2. CASE damage # Intact
    <3>1. damage.name = n
      BY <2>2
    <3> QED BY <1>1, <3>1 DEF Sound
  <2> QED BY <2>1, <2>2
<1>6. \A j \in Used : HasInode(j) /\ FileBlocks(j) \subseteq Area
  BY <1>0, <1>3, EntryTypes DEF FilesDisjoint, HasInode
<1>7. \A j, k \in Used : j # k => FileBlocks(j) \cap FileBlocks(k) = {}
  BY <1>0, <1>3 DEF FilesDisjoint
<1>8. \A j \in Sound : FileBlocks(j) \subseteq bat
  BY <1>0 DEF FilesDisjoint
<1>9. i \notin Sound => FileBlocks(i) \cap bat = {}
  <2> SUFFICES ASSUME i \notin Sound PROVE FileBlocks(i) \cap bat = {}
    OBVIOUS
  <2>1. damage # Intact
    BY <1>0, AllSound
  <2>2. damage.how \in {"remove", "tool"}
    BY <2>1
  <2> QED BY <1>0, <2>2 DEF FilesDisjoint
<1>10. ~orphans => bat = SystemBlocks \cup UNION {FileBlocks(j) : j \in Sound}
  BY <1>0, <1>2 DEF SpaceExact
<1> QED BY <1>1, <1>3, <1>4, <1>5, <1>6, <1>7, <1>8, <1>9, <1>10 DEF Leaving

(* Without the blocks of the file, the marks are those of the other files. *)
LEMMA MarksWithout ==
    ASSUME TfsTypeOK, NEW i, Leaving(i)
    PROVE  /\ \A j \in Used \ {i} : FileBlocks(j) \subseteq bat \ FileBlocks(i)
           /\ SystemBlocks \subseteq bat \ FileBlocks(i)
           /\ ~orphans => bat \ FileBlocks(i)
                            = SystemBlocks \cup UNION {FileBlocks(j) : j \in Used \ {i}}
<1>1. i \in Used /\ FileBlocks(i) \subseteq Area
  BY DEF Leaving
<1>2. \A j \in Used \ {i} : FileBlocks(j) \cap FileBlocks(i) = {} /\ FileBlocks(j) \subseteq bat
  BY <1>1 DEF Leaving
<1>3. SystemBlocks \cap FileBlocks(i) = {} /\ SystemBlocks \subseteq bat
  BY <1>1, AreaBlocks DEF TfsTypeOK
<1>4. ASSUME ~orphans
      PROVE  bat \ FileBlocks(i) = SystemBlocks \cup UNION {FileBlocks(j) : j \in Used \ {i}}
  <2>1. bat = SystemBlocks \cup UNION {FileBlocks(j) : j \in Sound}
    BY <1>4 DEF Leaving
  <2>2. Used \ {i} \subseteq Sound /\ Sound \subseteq Used
    BY DEF Leaving
  <2>3. ASSUME NEW b \in bat \ FileBlocks(i)
        PROVE  b \in SystemBlocks \cup UNION {FileBlocks(j) : j \in Used \ {i}}
    <3>1. b \in SystemBlocks \/ \E j \in Sound : b \in FileBlocks(j)
      BY <2>1
    <3>2. ASSUME NEW j \in Sound, b \in FileBlocks(j) PROVE j \in Used \ {i}
      BY <2>2, <2>3, <3>2
    <3> QED BY <3>1, <3>2
  <2>4. ASSUME NEW b \in SystemBlocks \cup UNION {FileBlocks(j) : j \in Used \ {i}}
        PROVE  b \in bat \ FileBlocks(i)
    BY <1>2, <1>3
  <2> QED BY <2>3, <2>4
<1> QED BY <1>2, <1>3, <1>4

LEMMA RemoveStep ==
    ASSUME VolumeOK, NEW n \in Names, RemoveFile(n)
    PROVE  VolumeOK'
<1>1. PICK i : i = Min(Named(n))
  OBVIOUS
<1>2. /\ damage \in {Intact, [how |-> "remove", name |-> n], [how |-> "tool", name |-> n]}
      /\ Named(n) # {} /\ content' = content /\ mounted' = mounted
      /\ opened' = opened /\ orphans' = orphans
  BY DEF RemoveFile
<1>3. PICK k \in 0 .. 2 :
         /\ Removed(i, k)
         /\ files' = IF k = 2 THEN [files EXCEPT ![n] = NoFile] ELSE files
         /\ damage' = IF k = 2 THEN Intact ELSE IF k = 1 THEN [how |-> "remove", name |-> n] ELSE damage
  BY <1>1 DEF RemoveFile
<1>4. PICK empty : empty = [inode |-> 0, name |-> NoName]
  OBVIOUS
<1>5. /\ bat' = IF k >= 1 THEN bat \ FileBlocks(i) ELSE bat
      /\ dir' = IF k >= 2 THEN [dir EXCEPT ![i] = empty] ELSE dir
  BY <1>3, <1>4 DEF Removed, Written, FileBlocks
<1>6. TfsTypeOK /\ StateOK /\ ContentOK /\ FilesOK /\ EntriesOK /\ DamageOK
  BY <1>2, TypeParts DEF VolumeOK, Intact
<1>7. i \in Used /\ dir[i].name = n
  BY <1>1, <1>2, <1>6, NamedFound
<1>8. Leaving(i)
  BY <1>2, <1>7, FileLeaving
<1>9. /\ \A j \in Used \ {i} : FileBlocks(j) \subseteq bat \ FileBlocks(i)
      /\ SystemBlocks \subseteq bat \ FileBlocks(i)
      /\ ~orphans => bat \ FileBlocks(i)
                       = SystemBlocks \cup UNION {FileBlocks(j) : j \in Used \ {i}}
  BY <1>6, <1>8, MarksWithout
<1>10. ContentOK'
  BY <1>2, <1>6 DEF ContentOK, BlockOK, InodeOK, CeilDiv
<1>11. FilesOK'
  BY <1>3, <1>6, FilesKept
<1>12. StateOK'
  <2>1. bat' \subseteq bat /\ SystemBlocks \subseteq bat'
    BY <1>5, <1>6, <1>9 DEF StateOK
  <2> QED BY <1>2, <1>6, <2>1 DEF StateOK, SystemBlocks
<1>13. CASE k = 0
  <2>1. bat' = bat /\ dir' = dir /\ damage' = damage
    BY <1>3, <1>5, <1>13
  <2>2. EntriesOK' /\ DamageOK'
    BY <1>6, <2>1 DEF EntriesOK, DamageOK
  <2>3. TfsTypeOK'
    BY <1>10, <1>11, <1>12, <2>2, TypePartsNext
  <2> QED BY <1>2, <2>1, <2>3, SameVolume
<1>14. CASE k = 1
  <2>1. bat' = bat \ FileBlocks(i) /\ dir' = dir /\ damage' = [how |-> "remove", name |-> n]
    BY <1>3, <1>5, <1>14
  <2>2. DamageOK' /\ damage'.how = "remove" /\ damage'.name = n
    BY <2>1, DamageKinds
  <2>3. EntriesOK'
    BY <1>6, <2>1 DEF EntriesOK
  <2>4. TfsTypeOK'
    BY <1>10, <1>11, <1>12, <2>2, <2>3, TypePartsNext
  <2>5. Used' = Used /\ \A j : InodeOf(j)' = InodeOf(j) /\ FileBlocks(j)' = FileBlocks(j)
    BY <1>2, <2>1 DEF Used, InodeOf, FileBlocks
  <2>6. Sound' = Used \ {i}
    <3>1. \A j \in Used : dir[j].name # n <=> j # i
      BY <1>7, <1>8 DEF Leaving
    <3> QED BY <2>1, <2>2, <2>5, <3>1 DEF Sound
  <2>7. Whole' = Used
    BY <2>2, <2>5 DEF Whole
  <2>8. \A j, m \in Used' : j # m => dir'[j].name # dir'[m].name
    BY <1>8, <2>1, <2>5 DEF Leaving
  <2>9. \A j \in Whole' : HasInode(j)'
    BY <1>8, <2>1, <2>5, <2>7 DEF Leaving, HasInode
  <2>10. \A j, m \in Whole' : j # m => FileBlocks(j)' \cap FileBlocks(m)' = {}
    BY <1>8, <2>5, <2>7 DEF Leaving
  <2>11. \A j \in Sound' : FileBlocks(j)' \subseteq bat'
    BY <1>9, <2>1, <2>5, <2>6
  <2>12. \A j \in Used' \ Sound' : FileBlocks(j)' \cap bat' = {}
    BY <2>1, <2>5, <2>6
  <2>13. FilesDisjoint'
    BY <2>2, <2>8, <2>9, <2>10, <2>11, <2>12 DEF FilesDisjoint
  <2>14. SpaceExact'
    <3>1. {FileBlocks(j)' : j \in Sound'} = {FileBlocks(j) : j \in Used \ {i}}
      BY <2>5, <2>6
    <3>2. ~orphans' => bat' = SystemBlocks \cup UNION {FileBlocks(j)' : j \in Sound'}
      BY <1>2, <1>9, <2>1, <3>1
    <3>3. damage' # Intact
      BY <2>2 DEF Intact
    <3> QED BY <3>2, <3>3 DEF SpaceExact, SystemBlocks, Intact
  <2> QED BY <2>4, <2>13, <2>14 DEF VolumeOK
<1>15. CASE k = 2
  <2>1. bat' = bat \ FileBlocks(i) /\ dir' = [dir EXCEPT ![i] = empty] /\ damage' = Intact
    BY <1>3, <1>5, <1>15
  <2>2. /\ empty \in [inode : {0} \cup Area, name : Names \cup {NoName}]
        /\ empty.inode = 0 /\ empty.name = NoName /\ i \in Entries
    BY <1>4, <1>7 DEF Used
  <2>3. EntriesOK' /\ dir'[i] = empty /\ \A j \in Entries : j # i => dir'[j] = dir[j]
    BY <1>6, <2>1, <2>2, EntryWritten
  <2>4. TfsTypeOK'
    BY <1>10, <1>11, <1>12, <2>1, <2>3, IntactOK, TypePartsNext
  <2>5. Used' = Used \ {i}
    <3>1. \A j \in Entries : j # i => dir'[j].inode = dir[j].inode
      BY <2>3
    <3>2. dir'[i].inode = 0
      BY <2>2, <2>3
    <3> QED BY <2>2, <3>1, <3>2 DEF Used
  <2>6. \A j \in Used' : /\ dir'[j] = dir[j] /\ InodeOf(j)' = InodeOf(j)
                         /\ FileBlocks(j)' = FileBlocks(j)
    <3> SUFFICES ASSUME NEW j \in Used \ {i}
                 PROVE  /\ dir'[j] = dir[j] /\ InodeOf(j)' = InodeOf(j)
                        /\ FileBlocks(j)' = FileBlocks(j)
      BY <2>5
    <3>1. dir'[j] = dir[j]
      BY <2>3 DEF Used
    <3>2. content'[dir[j].inode] = content[dir[j].inode]
      BY <1>2
    <3> QED BY <3>1, <3>2, SameFile
  <2>7. \A j, m \in Used' : j # m => dir'[j].name # dir'[m].name
    BY <1>8, <2>5, <2>6 DEF Leaving
  <2>8. \A j \in Used' : HasInode(j)'
    BY <1>8, <2>5, <2>6 DEF Leaving, HasInode
  <2>9. \A j, m \in Used' : j # m => FileBlocks(j)' \cap FileBlocks(m)' = {}
    BY <1>8, <2>5, <2>6 DEF Leaving
  <2>10. \A j \in Used' : FileBlocks(j)' \subseteq bat'
    BY <1>9, <2>1, <2>5, <2>6
  <2>11. ~orphans' => bat' = SystemBlocks \cup UNION {FileBlocks(j)' : j \in Used'}
    <3>1. {FileBlocks(j)' : j \in Used'} = {FileBlocks(j) : j \in Used \ {i}}
      BY <2>5, <2>6
    <3> QED BY <1>2, <1>9, <2>1, <3>1
  <2>12. Clean'
    BY <2>1, <2>4, <2>7, <2>8, <2>9, <2>10, <2>11 DEF Clean, Intact, SystemBlocks
  <2>13. Clean' => VolumeOK'
    BY CleanIsOK, PTL
  <2> QED BY <2>12, <2>13
<1> QED BY <1>13, <1>14, <1>15

-----------------------------------------------------------------------------
(* Opening and writing files *)

LEMMA OpenStep ==
    ASSUME VolumeOK, NEW n \in Names, tfs_open(n)
    PROVE  VolumeOK'
<1>1. TfsTypeOK /\ StateOK /\ ContentOK /\ FilesOK /\ EntriesOK /\ DamageOK
  BY TypeParts DEF VolumeOK, tfs_open, Intact
<1>2. PICK id : id = dir[Min(Named(n))].inode
  OBVIOUS
<1>3. id \in Area /\ opened' = opened \union {[id |-> id, name |-> n]}
  BY <1>1, <1>2, NamedFound DEF tfs_open
<1>4. opened' \subseteq [id : Area, name : Names]
  BY <1>1, <1>3 DEF StateOK
<1>5. UNCHANGED <<bat, dir, content, mounted, files, orphans, damage>>
  BY DEF tfs_open
<1>6. TfsTypeOK'
  BY <1>1, <1>4, <1>5 DEF TfsTypeOK, InodeOK, CeilDiv
<1> QED BY <1>5, <1>6, SameVolume

(* Steps that change who has files open and no block. *)
LEMMA ClosingStep ==
    ASSUME VolumeOK, opened' \subseteq opened, mounted' \in BOOLEAN \/ mounted' = mounted,
           UNCHANGED <<bat, dir, content, files, orphans, damage>>
    PROVE  VolumeOK'
<1>1. ASSUME damage.how # "stale" PROVE TfsTypeOK'
  <2>1. TfsTypeOK
    BY <1>1 DEF VolumeOK
  <2>2. opened' \subseteq [id : Area, name : Names] /\ mounted' \in BOOLEAN
    BY <2>1 DEF TfsTypeOK
  <2> QED BY <2>1, <2>2 DEF TfsTypeOK, InodeOK, CeilDiv
<1> QED BY <1>1, SameVolume

(* A block after tfs_write. *)
LEMMA BlockAfterOK ==
    ASSUME NEW old \in [1 .. TFS_BLOCK_SIZE -> Bytes], NEW k \in Nat, NEW offset \in Nat,
           NEW buf \in Seq(Bytes), offset \div TFS_BLOCK_SIZE <= k
    PROVE  BlockAfter(old, k, offset, buf) \in [1 .. TFS_BLOCK_SIZE -> Bytes]
<1>1. PICK d \in Nat : d = TFS_BLOCK_SIZE /\ d >= 1
  BY TfsConstants
<1>2. PICK q \in Nat, r \in Nat : q = offset \div d /\ r = offset % d /\ r < d /\ offset = q * d + r
  <2>1. /\ offset \div d \in Nat /\ offset % d \in 0 .. (d - 1)
        /\ offset = (offset \div d) * d + (offset % d)
    BY <1>1, Division
  <2>2. offset % d \in Nat /\ offset % d < d
    BY <1>1, <2>1
  <2> QED BY <2>1, <2>2
<1>3. old \in [1 .. d -> Bytes]
  BY <1>1
<1>4. PICK start \in Nat : start = IF k = q THEN r ELSE 0
  OBVIOUS
<1>5. PICK before \in Nat : before = IF k = q THEN 0 ELSE k * d - offset
  <2>1. CASE k = q
    BY <2>1
  <2>2. CASE k # q
    <3>1. q + 1 <= k
      BY <1>1, <1>2, <2>2
    <3>2. (q + 1) * d <= k * d /\ (q + 1) * d = q * d + d /\ k * d \in Int /\ q * d \in Int
      BY <1>1, <3>1, Multiples
    <3>3. k * d - offset \in Nat
      BY <1>1, <1>2, <3>2
    <3> QED BY <2>2, <3>3
  <2> QED BY <2>1, <2>2
<1>6. BlockAfter(old, k, offset, buf) =
         [x \in 1 .. d |-> IF x > start /\ before + x - start <= Len(buf)
                           THEN buf[before + x - start] ELSE old[x]]
  BY <1>1, <1>2, <1>4, <1>5 DEF BlockAfter
<1>7. ASSUME NEW x \in 1 .. d, x > start, before + x - start <= Len(buf)
      PROVE  buf[before + x - start] \in Bytes
  <2>1. Len(buf) \in Nat
    OBVIOUS
  <2>2. before + x - start \in 1 .. Len(buf)
    BY <1>1, <1>7, <2>1
  <2> QED BY <2>2, ElementOfSeq
<1> QED BY <1>1, <1>3, <1>6, <1>7

(* The bytes a file should hold after a write. *)
LEMMA SpliceOK ==
    ASSUME NEW bytes \in Seq(Bytes), NEW offset \in Nat, NEW buf \in Seq(Bytes), NEW m \in Int
    PROVE  Splice(bytes, offset, buf, m) \in Seq(Bytes)
<1>1. PICK len \in Nat, n \in Nat : len = Len(bytes) /\ n = Len(buf)
  BY LenProperties
<1>2. PICK p \in Int : p = Min({m, n}) /\ p <= n
  BY SmallerOf
<1>3. Splice(bytes, offset, buf, m) =
         [i \in 1 .. len |-> IF i > offset /\ i <= offset + p THEN buf[i - offset] ELSE bytes[i]]
  BY <1>1, <1>2 DEF Splice
<1>4. ASSUME NEW i \in 1 .. len, i > offset, i <= offset + p PROVE buf[i - offset] \in Bytes
  <2>1. i - offset \in 1 .. n
    BY <1>2, <1>4
  <2> QED BY <1>1, <2>1, ElementOfSeq
<1>5. \A i \in 1 .. len : bytes[i] \in Bytes
  BY <1>1, ElementOfSeq
<1>6. Splice(bytes, offset, buf, m) \in [1 .. len -> Bytes]
  BY <1>3, <1>4, <1>5
<1> QED BY <1>6

(* The blocks of a file reach to its end. *)
LEMMA CeilEnough ==
    ASSUME NEW size \in Nat
    PROVE  size <= CeilDiv(size) * TFS_BLOCK_SIZE
<1>1. PICK d \in Nat : d = TFS_BLOCK_SIZE /\ d >= 1
  BY TfsConstants
<1>2. PICK a \in Nat : a = size + d - 1
  BY <1>1
<1>3. PICK q \in Nat, r \in Nat : q = a \div d /\ r < d /\ a = q * d + r
  BY <1>1, Division
<1>4. CeilDiv(size) = q
  BY <1>1, <1>2, <1>3 DEF CeilDiv
<1>5. q * d \in Int /\ size <= q * d
  BY <1>1, <1>2, <1>3
<1> QED BY <1>1, <1>4, <1>5

LEMMA PositionFound ==
    ASSUME NEW size \in Nat, NEW m \in Nat, CeilDiv(size) <= m, NEW pos \in Nat, pos < size
    PROVE  /\ pos \div TFS_BLOCK_SIZE \in Nat /\ pos \div TFS_BLOCK_SIZE + 1 \in 1 .. m
           /\ (pos % TFS_BLOCK_SIZE) + 1 \in 1 .. TFS_BLOCK_SIZE
<1>1. PICK d \in Nat : d = TFS_BLOCK_SIZE /\ d >= 1
  BY TfsConstants
<1>2. PICK c \in Nat : c = CeilDiv(size)
  BY BlocksNeeded
<1>3. PICK q \in Nat, r \in Nat : q = pos \div d /\ r = pos % d /\ r < d
  <2>1. pos \div d \in Nat /\ pos % d \in 0 .. (d - 1)
    BY <1>1, Division
  <2>2. pos % d \in Nat /\ pos % d < d
    BY <1>1, <2>1
  <2> QED BY <2>1, <2>2
<1>4. size <= c * d
  BY <1>1, <1>2, CeilEnough
<1>5. pos < c * d
  <2>1. c * d \in Int
    BY <1>1
  <2> QED BY <1>4, <2>1
<1>6. q < c
  BY <1>1, <1>3, <1>5, QuotientBound
<1>7. q + 1 \in 1 .. m /\ r + 1 \in 1 .. d
  BY <1>1, <1>2, <1>3, <1>6
<1> QED BY <1>1, <1>3, <1>7

(* The blocks up to the last one of a write are the file's. *)
LEMMA BlocksUpTo ==
    ASSUME NEW inode, InodeOK(inode), NEW offset \in Nat, NEW n \in Nat, n > 0,
           offset + n <= inode.filesize,
           NEW k \in Nat, k <= (offset + n - 1) \div TFS_BLOCK_SIZE + 1,
           NEW j \in Nat, j < k
    PROVE  /\ j + 1 \in 1 .. Len(inode.block) /\ BlockOf(inode, j) \in Range(inode.block)
           /\ BlockOf(inode, j) \in Area
<1>1. PICK size \in Nat, m \in Nat : size = inode.filesize /\ m = Len(inode.block)
  BY DEF InodeOK
<1>2. CeilDiv(size) <= m /\ offset + n <= size
  BY <1>1 DEF InodeOK
<1>3. PICK end \in Nat : end = offset + n - 1 /\ end < size
  BY <1>2
<1>4. PICK last \in Nat : last = end \div TFS_BLOCK_SIZE /\ last + 1 \in 1 .. m
  BY <1>2, <1>3, PositionFound
<1>5. k <= last + 1
  BY <1>3, <1>4
<1>6. j + 1 \in 1 .. m
  BY <1>4, <1>5
<1>7. inode.block \in Seq(Area)
  BY DEF InodeOK
<1>8. inode.block[j + 1] \in Area
  BY <1>1, <1>6, <1>7, ElementOfSeq
<1>9. DOMAIN inode.block = 1 .. m
  BY <1>1, <1>7
<1> QED BY <1>1, <1>6, <1>8, <1>9 DEF BlockOf, Range

(* What tfs_write does through the handle h of a file that is there: the      *)
(* blocks from the offset up to block k, all of them the file's, take the     *)
(* bytes of the buffer, and no other block changes.                           *)
BlocksWritten(h, inode, offset, n, buf, k) ==
    /\ Clean /\ h.name \in Names
    /\ \E i \in Used : dir[i].inode = h.id /\ dir[i].name = h.name
    /\ inode = content[h.id] /\ InodeOK(inode)
    /\ n \in Nat /\ n > 0 /\ offset + n <= inode.filesize
    /\ buf \in Seq(Bytes) /\ Len(buf) = n
    /\ k \in Nat /\ offset \div TFS_BLOCK_SIZE <= k
    /\ k <= (offset + n - 1) \div TFS_BLOCK_SIZE + 1
    /\ DOMAIN content' = Area
    /\ \A b \in Area :
         \/ /\ content'[b] = content[b]
            /\ \A j \in Nat : offset \div TFS_BLOCK_SIZE <= j /\ j < k => b # BlockOf(inode, j)
         \/ \E j \in Nat, old \in [1 .. TFS_BLOCK_SIZE -> Bytes] :
               /\ offset \div TFS_BLOCK_SIZE <= j /\ j < k /\ b = BlockOf(inode, j)
               /\ ~content[b].inode => old = content[b].data
               /\ content'[b] = Data(BlockAfter(old, j, offset, buf))
    /\ files' = IF files[h.name] = NoFile THEN files
                ELSE [files EXCEPT ![h.name] =
                        Splice(files[h.name], offset, buf, k * TFS_BLOCK_SIZE - offset)]
    /\ UNCHANGED <<bat, dir, mounted, opened, orphans, damage>>

(* The inode of an entry. *)
LEMMA UsedInodeOK ==
    ASSUME TfsTypeOK, NEW i \in Used, InodeOf(i).inode
    PROVE  InodeOK(InodeOf(i)) /\ Range(InodeOf(i).block) \subseteq FileBlocks(i)
<1>1. dir[i].inode \in Area
  BY EntryTypes
<1>2. InodeOK(InodeOf(i))
  BY <1>1 DEF TfsTypeOK, InodeOf
<1> QED BY <1>2 DEF FileBlocks

(* The file of a handle that is not stale. *)
LEMMA FileOfHandle ==
    ASSUME Clean, NEW h \in opened, ~Stale(h)
    PROVE  /\ h.name \in Names /\ h.id \in Area
           /\ \E i \in Used : dir[i].inode = h.id /\ dir[i].name = h.name
           /\ content[h.id].inode /\ InodeOK(content[h.id])
<1>1. TfsTypeOK /\ StateOK
  BY TypeParts DEF Clean
<1>2. h \in [id : Area, name : Names]
  BY <1>1 DEF StateOK
<1>3. h.id \in Area /\ h.name \in Names
  BY <1>2
<1>4. PICK i \in Entries : dir[i] = [inode |-> h.id, name |-> h.name]
  BY DEF Stale
<1>5. dir[i].inode = h.id /\ dir[i].name = h.name
  BY <1>4
<1>6. i \in Used
  BY <1>3, <1>5, AreaBlocks DEF Used
<1>7. InodeOf(i).inode /\ InodeOf(i) = content[h.id]
  BY <1>5, <1>6 DEF Clean, HasInode, InodeOf
<1>8. InodeOK(content[h.id])
  BY <1>1, <1>6, <1>7, UsedInodeOK
<1> QED BY <1>3, <1>5, <1>6, <1>7, <1>8

LEMMA WriteDone ==
    ASSUME VolumeOK, NEW h \in opened, NEW offset \in Nat, NEW len \in Nat, NEW v \in Bytes,
           tfs_write(h, offset, len, v), ~Stale(h)
    PROVE  \E inode, n, buf, k : BlocksWritten(h, inode, offset, n, buf, k)
<1>1. damage = Intact /\ UNCHANGED <<mounted, opened, orphans, damage>>
  BY DEF tfs_write
<1>2. /\ Clean /\ TfsTypeOK /\ ContentOK
  BY <1>1, OKIsClean, TypeParts DEF Clean
<1>3. PICK inode \in ReadAsInode(h.id) :
        LET n == Min({len, inode.filesize - offset})
            first == offset \div TFS_BLOCK_SIZE
            last == (offset + n - 1) \div TFS_BLOCK_SIZE
            To(k) == {BlockOf(inode, j) : j \in first .. (k - 1)}
        IN
        /\ n > 0
        /\ \E k \in first .. (last + 1), bytes \in BytesIn(To(last + 1)) :
             /\ content' = [b \in DOMAIN content |->
                   IF b \in To(k)
                   THEN Data(BlockAfter(IF content[b].inode THEN bytes[b] ELSE content[b].data,
                                        CHOOSE j \in first .. (k - 1) : b = BlockOf(inode, j),
                                        offset, Fill(n, v)))
                   ELSE content[b]]
             /\ SystemAfter(To(k))
             /\ files' = IF Stale(h) \/ files[h.name] = NoFile THEN files
                         ELSE [files EXCEPT ![h.name] =
                                 Splice(@, offset, Fill(n, v), k * TFS_BLOCK_SIZE - offset)]
  BY DEF tfs_write
<1>4. /\ h.name \in Names /\ content[h.id].inode /\ InodeOK(content[h.id])
      /\ \E i \in Used : dir[i].inode = h.id /\ dir[i].name = h.name
  BY <1>2, FileOfHandle
<1>5. inode = content[h.id] /\ InodeOK(inode)
  BY <1>3, <1>4 DEF ReadAsInode
<1> DEFINE n == Min({len, inode.filesize - offset})
           first == offset \div TFS_BLOCK_SIZE
           last == (offset + n - 1) \div TFS_BLOCK_SIZE
           buf == Fill(n, v)
           To(m) == {BlockOf(inode, j) : j \in first .. (m - 1)}
<1>6. /\ n = Min({len, inode.filesize - offset}) /\ buf = Fill(n, v)
      /\ first = offset \div TFS_BLOCK_SIZE /\ last = (offset + n - 1) \div TFS_BLOCK_SIZE
      /\ \A m : To(m) = {BlockOf(inode, j) : j \in first .. (m - 1)}
  OBVIOUS
<1>7. /\ n > 0
      /\ \E k \in first .. (last + 1), bytes \in BytesIn(To(last + 1)) :
           /\ content' = [b \in DOMAIN content |->
                 IF b \in To(k)
                 THEN Data(BlockAfter(IF content[b].inode THEN bytes[b] ELSE content[b].data,
                                      CHOOSE j \in first .. (k - 1) : b = BlockOf(inode, j),
                                      offset, buf))
                 ELSE content[b]]
           /\ SystemAfter(To(k))
           /\ files' = IF Stale(h) \/ files[h.name] = NoFile THEN files
                       ELSE [files EXCEPT ![h.name] =
                               Splice(@, offset, buf, k * TFS_BLOCK_SIZE - offset)]
  BY <1>3
<1> HIDE DEF n, first, last, buf, To
<1>8. PICK k \in first .. (last + 1), bytes \in BytesIn(To(last + 1)) :
         /\ content' = [b \in DOMAIN content |->
               IF b \in To(k)
               THEN Data(BlockAfter(IF content[b].inode THEN bytes[b] ELSE content[b].data,
                                    CHOOSE j \in first .. (k - 1) : b = BlockOf(inode, j),
                                    offset, buf))
               ELSE content[b]]
         /\ SystemAfter(To(k))
         /\ files' = IF files[h.name] = NoFile THEN files
                     ELSE [files EXCEPT ![h.name] =
                             Splice(files[h.name], offset, buf, k * TFS_BLOCK_SIZE - offset)]
  BY <1>7
<1>9. n \in Nat /\ offset + n <= inode.filesize
  <2>1. inode.filesize \in Nat
    BY <1>5 DEF InodeOK
  <2>2. PICK size \in Nat, rest \in Int : size = inode.filesize /\ rest = size - offset
    BY <2>1
  <2>3. n = IF len <= rest THEN len ELSE rest
    BY <1>6, <2>2, SmallerOf
  <2>4. n \in Nat /\ n <= rest
    BY <1>7, <2>2, <2>3
  <2> QED BY <2>2, <2>4
<1>10. first \in Nat /\ last \in Nat
  <2>1. offset + n - 1 \in Nat
    BY <1>7, <1>9
  <2> QED BY <1>6, <2>1, TfsConstants, Division
<1>11. k \in Nat /\ first <= k /\ k <= last + 1
  BY <1>10
<1>12. buf \in Seq(Bytes) /\ Len(buf) = n
  BY <1>6, <1>9, FillOK
<1>13. ASSUME NEW j \in first .. (k - 1)
       PROVE  j \in Nat /\ first <= j /\ j < k /\ BlockOf(inode, j) \in Area
  <2>1. j \in Nat /\ first <= j /\ j < k
    BY <1>10, <1>11
  <2>2. k <= (offset + n - 1) \div TFS_BLOCK_SIZE + 1
    BY <1>6, <1>11
  <2> QED BY <1>5, <1>7, <1>9, <1>11, <2>1, <2>2, BlocksUpTo
<1>14. bat' = bat /\ dir' = dir
  <2>1. To(k) \subseteq Area
    BY <1>6, <1>13
  <2>2. TFS_ALLOCATION_BLOCK \notin Area /\ TFS_DIRECTORY_BLOCK \notin Area
    BY TfsConstants DEF TFS_ALLOCATION_BLOCK, TFS_DIRECTORY_BLOCK, Area
  <2>3. TFS_ALLOCATION_BLOCK \notin To(k) /\ TFS_DIRECTORY_BLOCK \notin To(k)
    BY <2>1, <2>2
  <2> QED BY <1>8, <2>3 DEF SystemAfter
<1>15. ASSUME NEW b \in Area
       PROVE  \/ /\ content'[b] = content[b]
                 /\ \A j \in Nat : first <= j /\ j < k => b # BlockOf(inode, j)
              \/ \E j \in Nat, old \in [1 .. TFS_BLOCK_SIZE -> Bytes] :
                    /\ first <= j /\ j < k /\ b = BlockOf(inode, j)
                    /\ ~content[b].inode => old = content[b].data
                    /\ content'[b] = Data(BlockAfter(old, j, offset, buf))
  <2>1. b \in DOMAIN content
    BY <1>2 DEF ContentOK
  <2>2. CASE b \notin To(k)
    <3>1. content'[b] = content[b]
      BY <1>8, <2>1, <2>2
    <3>2. \A j \in Nat : first <= j /\ j < k => j \in first .. (k - 1)
      BY <1>10, <1>11
    <3>3. \A j \in first .. (k - 1) : b # BlockOf(inode, j)
      BY <1>6, <2>2
    <3> QED BY <3>1, <3>2, <3>3
  <2>3. CASE b \in To(k)
    <3>1. PICK j : j = CHOOSE i \in first .. (k - 1) : b = BlockOf(inode, i)
      OBVIOUS
    <3>2. \E i \in first .. (k - 1) : b = BlockOf(inode, i)
      BY <1>6, <2>3
    <3>3. j \in first .. (k - 1) /\ b = BlockOf(inode, j)
      BY <3>1, <3>2
    <3>4. j \in Nat /\ first <= j /\ j < k
      BY <1>13, <3>3
    <3>5. PICK old : old = IF content[b].inode THEN bytes[b] ELSE content[b].data
      OBVIOUS
    <3>6. content'[b] = Data(BlockAfter(old, j, offset, buf))
      BY <1>8, <2>1, <2>3, <3>1, <3>5
    <3>7. old \in [1 .. TFS_BLOCK_SIZE -> Bytes]
      <4>1. CASE ~content[b].inode
        BY <1>2, <3>5, <4>1 DEF ContentOK, BlockOK
      <4>2. CASE content[b].inode
        <5>1. j \in first .. ((last + 1) - 1)
          BY <1>10, <1>11, <3>4
        <5>2. b \in To(last + 1)
          BY <1>6, <3>3, <5>1
        <5>3. b \in 0 .. (TotalBlocks - 1)
          BY AreaBlocks
        <5>4. b \in NotData(To(last + 1))
          BY <4>2, <5>2, <5>3 DEF NotData
        <5>5. bytes[b] \in [1 .. TFS_BLOCK_SIZE -> Bytes]
          BY <5>4 DEF BytesIn
        <5> QED BY <3>5, <4>2, <5>5
      <4> QED BY <4>1, <4>2
    <3>8. ~content[b].inode => old = content[b].data
      BY <3>5
    <3> QED BY <3>3, <3>4, <3>6, <3>7, <3>8
  <2> QED BY <2>2, <2>3
<1>16. DOMAIN content' = Area
  BY <1>2, <1>8 DEF ContentOK
<1>17. /\ offset \div TFS_BLOCK_SIZE <= k /\ k <= (offset + n - 1) \div TFS_BLOCK_SIZE + 1
       /\ \A b \in Area :
            \/ /\ content'[b] = content[b]
               /\ \A j \in Nat : offset \div TFS_BLOCK_SIZE <= j /\ j < k => b # BlockOf(inode, j)
            \/ \E j \in Nat, old \in [1 .. TFS_BLOCK_SIZE -> Bytes] :
                  /\ offset \div TFS_BLOCK_SIZE <= j /\ j < k /\ b = BlockOf(inode, j)
                  /\ ~content[b].inode => old = content[b].data
                  /\ content'[b] = Data(BlockAfter(old, j, offset, buf))
  BY <1>6, <1>11, <1>15
<1>18. BlocksWritten(h, inode, offset, n, buf, k)
  BY <1>1, <1>2, <1>4, <1>5, <1>7, <1>8, <1>9, <1>11, <1>12, <1>14, <1>16, <1>17 DEF BlocksWritten
<1> QED BY <1>18

(* The blocks that a write changes are the file's. *)
LEMMA WritesOwnBlocks ==
    ASSUME NEW h, NEW inode, NEW offset \in Nat, NEW n, NEW buf, NEW k,
           BlocksWritten(h, inode, offset, n, buf, k),
           NEW j \in Nat, j < k
    PROVE  j + 1 \in 1 .. Len(inode.block) /\ BlockOf(inode, j) \in Range(inode.block)
<1>1. /\ InodeOK(inode) /\ n \in Nat /\ n > 0 /\ offset + n <= inode.filesize
      /\ k \in Nat /\ k <= (offset + n - 1) \div TFS_BLOCK_SIZE + 1
  BY DEF BlocksWritten
<1> QED BY <1>1, BlocksUpTo

(* A write changes no file's inode, so files keep their blocks. *)
LEMMA WriteKeepsFiles ==
    ASSUME NEW h, NEW inode, NEW offset \in Nat, NEW n, NEW buf, NEW k,
           BlocksWritten(h, inode, offset, n, buf, k)
    PROVE  /\ ContentOK' /\ Used' = Used
           /\ \A i \in Used : /\ dir'[i] = dir[i] /\ InodeOf(i)' = InodeOf(i)
                              /\ FileBlocks(i)' = FileBlocks(i)
<1>1. Clean /\ ContentOK /\ DOMAIN content' = Area /\ dir' = dir /\ buf \in Seq(Bytes)
  BY TypeParts DEF BlocksWritten, Clean
<1>2. ASSUME NEW b \in Area, content'[b] # content[b]
      PROVE  BlockOK(content'[b]) /\ b \in Range(inode.block)
  <2>1. PICK j \in Nat, old \in [1 .. TFS_BLOCK_SIZE -> Bytes] :
           /\ offset \div TFS_BLOCK_SIZE <= j /\ j < k /\ b = BlockOf(inode, j)
           /\ content'[b] = Data(BlockAfter(old, j, offset, buf))
    BY <1>2 DEF BlocksWritten
  <2>2. BlockAfter(old, j, offset, buf) \in [1 .. TFS_BLOCK_SIZE -> Bytes]
    BY <1>1, <2>1, BlockAfterOK
  <2>3. BlockOK(content'[b])
    BY <2>1, <2>2, DataOK
  <2> QED BY <2>1, <2>3, WritesOwnBlocks
<1>3. ContentOK'
  BY <1>1, <1>2, ContentKept
<1>4. Used' = Used
  BY <1>1 DEF Used
<1>5. PICK f \in Used : dir[f].inode = h.id
  BY DEF BlocksWritten
<1>6. inode = InodeOf(f)
  BY <1>5 DEF BlocksWritten, InodeOf
<1>7. ASSUME NEW i \in Used
      PROVE  dir'[i] = dir[i] /\ InodeOf(i)' = InodeOf(i) /\ FileBlocks(i)' = FileBlocks(i)
  <2>1. dir[i].inode \in Area
    BY <1>1, EntryTypes DEF Clean
  <2>2. dir[i].inode \notin Range(inode.block)
    <3>1. CASE i = f
      BY <1>1, <1>6, <3>1 DEF Clean, HasInode
    <3>2. CASE i # f
      <4>1. FileBlocks(i) \cap FileBlocks(f) = {}
        BY <1>1, <3>2 DEF Clean
      <4>2. dir[i].inode \in FileBlocks(i) /\ Range(inode.block) \subseteq FileBlocks(f)
        BY <1>6 DEF FileBlocks
      <4> QED BY <4>1, <4>2
    <3> QED BY <3>1, <3>2
  <2>3. content'[dir[i].inode] = content[dir[i].inode]
    BY <1>2, <2>1, <2>2
  <2>4. dir'[i] = dir[i]
    BY <1>1
  <2> QED BY <2>3, <2>4, SameFile
<1> QED BY <1>3, <1>4, <1>7

LEMMA WriteStep ==
    ASSUME NEW h, NEW inode, NEW offset \in Nat, NEW n, NEW buf, NEW k,
           BlocksWritten(h, inode, offset, n, buf, k)
    PROVE  VolumeOK'
<1>1. /\ Clean /\ h.name \in Names /\ buf \in Seq(Bytes) /\ k \in Nat
      /\ UNCHANGED <<bat, dir, mounted, opened, orphans, damage>>
      /\ files' = IF files[h.name] = NoFile THEN files
                  ELSE [files EXCEPT ![h.name] =
                          Splice(files[h.name], offset, buf, k * TFS_BLOCK_SIZE - offset)]
  BY DEF BlocksWritten
<1>2. /\ TfsTypeOK /\ StateOK /\ ContentOK /\ FilesOK /\ EntriesOK /\ DamageOK
      /\ damage' = Intact
  BY <1>1, TypeParts DEF Clean
<1>3. ContentOK'
  BY WriteKeepsFiles
<1>4. FilesOK'
  <2>1. PICK bytes : bytes = IF files[h.name] = NoFile THEN NoFile
                             ELSE Splice(files[h.name], offset, buf, k * TFS_BLOCK_SIZE - offset)
    OBVIOUS
  <2>2. k * TFS_BLOCK_SIZE - offset \in Int
    BY <1>1, TfsConstants
  <2>3. bytes = NoFile \/ bytes \in Seq(Bytes)
    <3>1. files[h.name] # NoFile => files[h.name] \in Seq(Bytes)
      BY <1>1, <1>2 DEF FilesOK
    <3> QED BY <1>1, <2>1, <2>2, <3>1, SpliceOK
  <2>4. files' = files \/ files' = [files EXCEPT ![h.name] = bytes]
    BY <1>1, <2>1
  <2> QED BY <1>1, <1>2, <2>3, <2>4, FilesKept
<1>5. StateOK' /\ EntriesOK'
  BY <1>1, <1>2 DEF StateOK, EntriesOK, SystemBlocks
<1>6. TfsTypeOK'
  BY <1>2, <1>3, <1>4, <1>5, IntactOK, TypePartsNext
<1>7. /\ Used' = Used
      /\ \A i \in Used : /\ dir'[i] = dir[i] /\ InodeOf(i)' = InodeOf(i)
                         /\ FileBlocks(i)' = FileBlocks(i)
  BY WriteKeepsFiles
<1>8. \A i, j \in Used' : i # j => dir'[i].name # dir'[j].name
  BY <1>1, <1>7 DEF Clean
<1>9. \A i \in Used' : HasInode(i)'
  BY <1>1, <1>7 DEF Clean, HasInode
<1>10. \A i, j \in Used' : i # j => FileBlocks(i)' \cap FileBlocks(j)' = {}
  BY <1>1, <1>7 DEF Clean
<1>11. \A i \in Used' : FileBlocks(i)' \subseteq bat'
  BY <1>1, <1>7 DEF Clean
<1>12. ~orphans' => bat' = SystemBlocks \cup UNION {FileBlocks(i)' : i \in Used'}
  <2>1. {FileBlocks(i)' : i \in Used'} = {FileBlocks(i) : i \in Used}
    BY <1>7
  <2> QED BY <1>1, <2>1 DEF Clean
<1>13. Clean'
  BY <1>2, <1>6, <1>8, <1>9, <1>10, <1>11, <1>12 DEF Clean, Intact, SystemBlocks
<1>14. Clean' => VolumeOK'
  BY CleanIsOK, PTL
<1> QED BY <1>13, <1>14

(* After a write through the handle of a removed file nothing is claimed. *)
LEMMA StaleWrite ==
    ASSUME NEW h, NEW offset, NEW len, NEW v, tfs_write(h, offset, len, v), Stale(h)
    PROVE  damage'.how = "stale" /\ VolumeOK'
<1>1. damage' = [how |-> "stale", name |-> h.name]
  BY DEF tfs_write
<1> QED BY <1>1 DEF VolumeOK

-----------------------------------------------------------------------------
(* The volume *)

(* No step of the driver or the tool, complete or stopped half way, makes the *)
(* parts of the volume disagree.                                              *)
LEMMA VolumeStep ==
    VolumeOK /\ [TfsNext]_tfsVars => VolumeOK'
<1> SUFFICES ASSUME VolumeOK, [TfsNext]_tfsVars PROVE VolumeOK'
  OBVIOUS
<1>1. CASE tfs_init
  BY <1>1, ClosingStep DEF tfs_init
<1>2. CASE tfs_unmount
  BY <1>2, ClosingStep DEF tfs_unmount
<1>3. ASSUME NEW n \in Names, NEW size \in Sizes, tfs_create(n, size) PROVE VolumeOK'
  BY <1>3, CreateStep
<1>4. ASSUME NEW n \in Names, tfs_remove(n) \/ tfstool_delete(n) PROVE VolumeOK'
  BY <1>4, RemoveStep DEF tfs_remove, tfstool_delete
<1>5. ASSUME NEW n \in Names, tfs_open(n) PROVE VolumeOK'
  BY <1>5, OpenStep
<1>6. ASSUME NEW n \in Names, NEW source \in Sources, tfstool_write(n, source[1], source[2])
      PROVE  VolumeOK'
  <2>1. source[1] \in Nat /\ source[2] \in Bytes
    <3>1. source \in Nat \X Bytes
      BY TfsConstants
    <3> QED BY <3>1
  <2> QED BY <1>6, <2>1, ToolWriteStep
<1>7. ASSUME NEW h \in opened, tfs_close(h) PROVE VolumeOK'
  <2>1. opened' \subseteq opened /\ mounted' = mounted
        /\ UNCHANGED <<bat, dir, content, files, orphans, damage>>
    BY <1>7 DEF tfs_close
  <2> QED BY <2>1, ClosingStep
<1>8. ASSUME NEW h \in opened, NEW offset \in 0 .. Max(Sizes), NEW len \in 1 .. Max(Sizes),
             NEW v \in Bytes, tfs_write(h, offset, len, v)
      PROVE  VolumeOK'
  <2>1. offset \in Nat /\ len \in Nat
    BY TfsConstants
  <2> QED BY <1>8, <2>1, WriteDone, WriteStep, StaleWrite
<1>9. CASE UNCHANGED tfsVars
  BY <1>9, ClosingStep DEF tfsVars
<1> QED BY <1>1, <1>2, <1>3, <1>4, <1>5, <1>6, <1>7, <1>8, <1>9 DEF TfsNext

(* Wherever an operation of tfs.c or of the tool stops, no two files share a *)
(* block, what files use is marked, what is marked is used unless a create   *)
(* stopped, and tfs_getfree counts what is left, until tfs_write is called   *)
(* with the handle of a removed file.                                         *)
THEOREM VolumeInvariant == TfsSpec => []VolumeOK
<1>1. VolumeOK /\ [TfsNext]_tfsVars => VolumeOK'
  BY VolumeStep
<1> QED BY <1>1, VolumeInit, PTL DEF TfsSpec

-----------------------------------------------------------------------------
(* What files hold *)

(* The inode of a file leads to its bytes, each in a place of its own. *)
Holds(inode, bytes) ==
    /\ inode.filesize = Len(bytes)
    /\ \A j, k \in 1 .. Len(inode.block) : inode.block[j] = inode.block[k] => j = k
    /\ \A pos \in 0 .. (Len(bytes) - 1) :
         /\ ~content[BlockOf(inode, pos \div TFS_BLOCK_SIZE)].inode
         /\ ByteAt(inode, pos) = bytes[pos + 1]

Reads(i) == files[dir[i].name] # NoFile => Holds(InodeOf(i), files[dir[i].name])

FilesKnown ==
    damage.how # "stale" =>
        /\ \A n \in Names : Named(n) = {} => files[n] = NoFile
        /\ \A i \in Sound : Reads(i)

(* The block of a position is one of the file's. *)
LEMMA BlockOfPosition ==
    ASSUME NEW inode, InodeOK(inode), NEW pos \in Nat, pos < inode.filesize
    PROVE  BlockOf(inode, pos \div TFS_BLOCK_SIZE) \in Range(inode.block)
<1>1. PICK size \in Nat, m \in Nat : size = inode.filesize /\ m = Len(inode.block)
  BY DEF InodeOK
<1>2. CeilDiv(size) <= m
  BY <1>1 DEF InodeOK
<1>3. pos \div TFS_BLOCK_SIZE + 1 \in 1 .. m
  BY <1>1, <1>2, PositionFound
<1>4. DOMAIN inode.block = 1 .. m
  BY <1>1 DEF InodeOK
<1> QED BY <1>3, <1>4 DEF BlockOf, Range

(* A file whose blocks and bytes stay holds what it held. *)
LEMMA HoldsStill ==
    ASSUME NEW inode, InodeOK(inode), NEW bytes, Holds(inode, bytes),
           \A b \in Range(inode.block) : content'[b] = content[b]
    PROVE  Holds(inode, bytes)'
<1>1. PICK size \in Nat : size = inode.filesize /\ size = Len(bytes)
  BY DEF InodeOK, Holds
<1>2. ASSUME NEW pos \in 0 .. (Len(bytes) - 1)
      PROVE  /\ ~content'[BlockOf(inode, pos \div TFS_BLOCK_SIZE)].inode
             /\ ByteAt(inode, pos)' = bytes[pos + 1]
  <2>1. pos \in Nat /\ pos < inode.filesize
    BY <1>1
  <2>2. BlockOf(inode, pos \div TFS_BLOCK_SIZE) \in Range(inode.block)
    BY <2>1, BlockOfPosition
  <2>3. ByteAt(inode, pos)' = ByteAt(inode, pos)
    BY <2>2 DEF ByteAt, BlockOf
  <2> QED BY <2>2, <2>3 DEF Holds
<1> QED BY <1>2 DEF Holds, BlockOf

LEMMA ReadsStill ==
    ASSUME TfsTypeOK, NEW i \in Used, InodeOf(i).inode, Reads(i),
           dir'[i] = dir[i], files'[dir[i].name] = files[dir[i].name],
           InodeOf(i)' = InodeOf(i),
           \A b \in Range(InodeOf(i).block) : content'[b] = content[b]
    PROVE  Reads(i)'
<1>1. PICK inode, bytes : inode = InodeOf(i) /\ bytes = files[dir[i].name]
  OBVIOUS
<1>2. InodeOf(i)' = inode /\ files'[dir'[i].name] = bytes
  BY <1>1
<1>3. InodeOK(inode)
  BY <1>1, UsedInodeOK
<1>4. bytes # NoFile => Holds(inode, bytes)
  BY <1>1 DEF Reads
<1>5. bytes # NoFile => Holds(inode, bytes)'
  BY <1>1, <1>3, <1>4, HoldsStill
<1>6. ASSUME bytes # NoFile PROVE Holds(InodeOf(i), files[dir[i].name])'
  BY <1>2, <1>5, <1>6 DEF Holds, ByteAt, BlockOf
<1> QED BY <1>2, <1>6 DEF Reads

(* While nothing but names of files and marks changes, files read as before. *)
LEMMA KnownStill ==
    ASSUME VolumeOK, FilesKnown, UNCHANGED <<dir, content, files, damage>>
    PROVE  FilesKnown'
<1>1. Sound' = Sound /\ \A n : Named(n)' = Named(n)
  BY DEF Sound, Used, Named
<1>2. \A i : Reads(i)' <=> Reads(i)
  BY DEF Reads, Holds, ByteAt, InodeOf, BlockOf
<1> QED BY <1>1, <1>2 DEF FilesKnown

LEMMA KnownInit == TfsInit => FilesKnown
<1> SUFFICES ASSUME TfsInit PROVE FilesKnown
  OBVIOUS
<1>1. \A n \in Names : files[n] = NoFile
  BY DEF TfsInit
<1>2. Sound = {}
  BY DEF TfsInit, Sound, Used
<1> QED BY <1>1, <1>2 DEF FilesKnown

(* The bytes of a file that was just made. *)
LEMMA MadeHolds ==
    ASSUME NEW size \in Nat, NEW v \in Bytes, NEW count \in Nat, CeilDiv(size) <= count,
           NEW found, NEW inode, NEW blocks, Fresh(found, inode, blocks, count),
           \A i \in 1 .. count : content'[blocks[i]] = Data(Fill(TFS_BLOCK_SIZE, v))
    PROVE  Holds(Inode(size, blocks), Fill(size, v))'
<1>1. PICK c, bytes : c = Inode(size, blocks) /\ bytes = Fill(size, v)
  OBVIOUS
<1>2. c.filesize = size /\ c.block = blocks
  BY <1>1 DEF Inode
<1>3. Len(bytes) = size /\ bytes \in [1 .. size -> Bytes] /\ \A i \in 1 .. size : bytes[i] = v
  BY <1>1, FillOK DEF Fill
<1>4. Len(blocks) = count /\ \A j, k \in 1 .. count : blocks[j] = blocks[k] => j = k
  BY DEF Fresh
<1>5. ASSUME NEW pos \in 0 .. (size - 1)
      PROVE  /\ ~content'[BlockOf(c, pos \div TFS_BLOCK_SIZE)].inode
             /\ ByteAt(c, pos)' = bytes[pos + 1]
  <2>1. pos \in Nat /\ pos < size /\ pos + 1 \in 1 .. size
    OBVIOUS
  <2>2. PICK j, x : j = pos \div TFS_BLOCK_SIZE + 1 /\ x = (pos % TFS_BLOCK_SIZE) + 1
    OBVIOUS
  <2>3. j \in 1 .. count /\ x \in 1 .. TFS_BLOCK_SIZE
    BY <2>1, <2>2, PositionFound
  <2>4. ~content'[blocks[j]].inode /\ content'[blocks[j]].data = Fill(TFS_BLOCK_SIZE, v)
    BY <2>3 DEF Data
  <2>5. content'[blocks[j]].data[x] = v
    BY <2>3, <2>4 DEF Fill
  <2>6. ByteAt(c, pos)' = content'[blocks[j]].data[x]
    BY <1>2, <2>2 DEF ByteAt, BlockOf
  <2>7. BlockOf(c, pos \div TFS_BLOCK_SIZE) = blocks[j]
    BY <1>2, <2>2 DEF BlockOf
  <2> QED BY <1>3, <2>1, <2>4, <2>5, <2>6, <2>7
<1>6. Holds(c, bytes)'
  BY <1>2, <1>3, <1>4, <1>5 DEF Holds, BlockOf
<1> QED BY <1>1, <1>6

LEMMA UsedByName ==
    ASSUME TfsTypeOK, NEW n \in Names
    PROVE  Named(n) = {i \in Used : dir[i].name = n}
<1>1. ASSUME NEW i \in Entries, dir[i].name = n PROVE i \in Used
  <2>1. dir[i].name # NoName
    BY <1>1, TfsConstants
  <2> QED BY <2>1 DEF TfsTypeOK, Used
<1> QED BY <1>1 DEF Named, Used

(* A step that makes a file, or a part of it. *)
LEMMA MakesKnown ==
    ASSUME VolumeOK', FilesKnown, NEW n \in Names, NEW size \in Nat, NEW v \in Bytes,
           MakesFile(n, size, v)
    PROVE  FilesKnown'
<1>1. PICK found, index, inode, blocks, count :
         /\ Clean /\ Fresh(found, inode, blocks, count) /\ count \in Nat
         /\ CeilDiv(size) <= count
         /\ \A b \in bat \cap Area : content'[b] = content[b]
         /\ \/ dir' = dir /\ files' = files /\ damage' = damage
            \/ Enters(index, inode, n) /\ files' = files
            \/ /\ Enters(index, inode, n) /\ files' = [files EXCEPT ![n] = Fill(size, v)]
               /\ content'[inode] = Inode(size, blocks)
               /\ \A i \in 1 .. count : content'[blocks[i]] = Data(Fill(TFS_BLOCK_SIZE, v))
  BY DEF MakesFile
<1>2. /\ TfsTypeOK /\ damage = Intact /\ Sound = Used /\ FilesOK
  BY <1>1, AllSound, TypeParts DEF Clean
<1>3. \A i \in Used : Reads(i)
  BY <1>2 DEF FilesKnown, Intact
<1>4. ASSUME NEW i \in Used, dir'[i] = dir[i], files'[dir[i].name] = files[dir[i].name]
      PROVE  Reads(i)'
  <2>1. InodeOf(i)' = InodeOf(i)
    BY <1>1, <1>4, OthersStay
  <2>2. InodeOf(i).inode /\ FileBlocks(i) \subseteq bat
    BY <1>1 DEF Clean, HasInode
  <2>3. FileBlocks(i) \subseteq bat \cap Area
    BY <1>2, <2>2, EntryTypes
  <2>4. Range(InodeOf(i).block) \subseteq FileBlocks(i)
    BY <1>2, <2>2, UsedInodeOK
  <2>5. \A b \in Range(InodeOf(i).block) : content'[b] = content[b]
    BY <1>1, <2>3, <2>4
  <2> QED BY <1>2, <1>3, <1>4, <2>1, <2>2, <2>5, ReadsStill
<1>5. CASE dir' = dir /\ files' = files /\ damage' = damage
  <2>1. Sound' = Sound /\ \A m : Named(m)' = Named(m)
    BY <1>5 DEF Sound, Used, Named
  <2>2. \A i \in Sound' : Reads(i)'
    BY <1>2, <1>4, <1>5, <2>1
  <2> QED BY <1>2, <1>5, <2>1, <2>2 DEF FilesKnown, Intact
<1>6. CASE Enters(index, inode, n)
  <2>1. /\ index \notin Used /\ Used' = Used \cup {index}
        /\ dir'[index].inode = inode /\ dir'[index].name = n
        /\ \A i \in Used : dir'[i] = dir[i] /\ dir[i].name # n
    BY <1>1, <1>6, NewEntry
  <2>2. \A m \in Names : m # n => files'[m] = files[m]
    BY <1>1, <1>2 DEF FilesOK
  <2>3. ASSUME NEW m \in Names, Named(m)' = {} PROVE files'[m] = NoFile
    <3>1. Named(m) = {i \in Used : dir[i].name = m}
      BY <1>2, UsedByName
    <3>2. index \in Entries /\ Used \subseteq Entries
      BY <1>6 DEF Enters, FreeEntries, Used
    <3>3. m # n
      BY <2>1, <2>3, <3>2 DEF Named
    <3>4. \A i \in Used : dir[i].name # m
      BY <2>1, <2>3, <3>2 DEF Named
    <3>5. Named(m) = {}
      BY <3>1, <3>4
    <3> QED BY <1>2, <2>2, <3>3, <3>5 DEF FilesKnown, Intact
  <2>4. ASSUME NEW i \in Used PROVE Reads(i)'
    <3>1. dir[i].name \in Names /\ dir[i].name # n /\ dir'[i] = dir[i]
      BY <1>2, <2>1, EntryTypes
    <3> QED BY <1>4, <2>2, <3>1
  <2>5. Reads(index)'
    <3>1. CASE files' = files
      <4>1. files[n] = NoFile
        BY <1>2, <1>6 DEF Enters, FilesKnown, Intact
      <4> QED BY <2>1, <3>1, <4>1 DEF Reads
    <3>2. CASE /\ files' = [files EXCEPT ![n] = Fill(size, v)]
               /\ content'[inode] = Inode(size, blocks)
               /\ \A i \in 1 .. count : content'[blocks[i]] = Data(Fill(TFS_BLOCK_SIZE, v))
      <4>1. files'[n] = Fill(size, v)
        BY <1>2, <3>2 DEF FilesOK
      <4>2. InodeOf(index)' = Inode(size, blocks)
        BY <2>1, <3>2 DEF InodeOf
      <4>3. PICK c, bytes : c = Inode(size, blocks) /\ bytes = Fill(size, v)
        OBVIOUS
      <4>4. Holds(c, bytes)'
        BY <1>1, <3>2, <4>3, MadeHolds
      <4>5. InodeOf(index)' = c /\ files'[dir'[index].name] = bytes
        BY <2>1, <4>1, <4>2, <4>3
      <4>6. Holds(InodeOf(index), files[dir[index].name])'
        BY <4>4, <4>5 DEF Holds, ByteAt, BlockOf
      <4> QED BY <4>6 DEF Reads
    <3> QED BY <1>1, <3>1, <3>2, <2>1 DEF Reads
  <2>6. \A i \in Sound' : Reads(i)'
    <3>1. Sound' \subseteq Used'
      BY DEF Sound
    <3> QED BY <2>1, <2>4, <2>5, <3>1
  <2> QED BY <2>3, <2>6 DEF FilesKnown
<1> QED BY <1>1, <1>5, <1>6

LEMMA RemoveKnown ==
    ASSUME VolumeOK, FilesKnown, NEW n \in Names, RemoveFile(n)
    PROVE  FilesKnown'
<1>1. PICK i : i = Min(Named(n))
  OBVIOUS
<1>2. /\ damage \in {Intact, [how |-> "remove", name |-> n], [how |-> "tool", name |-> n]}
      /\ Named(n) # {} /\ content' = content
  BY DEF RemoveFile
<1>3. PICK k \in 0 .. 2 :
         /\ Removed(i, k)
         /\ files' = IF k = 2 THEN [files EXCEPT ![n] = NoFile] ELSE files
         /\ damage' = IF k = 2 THEN Intact ELSE IF k = 1 THEN [how |-> "remove", name |-> n] ELSE damage
  BY <1>1 DEF RemoveFile
<1>4. PICK empty : empty = [inode |-> 0, name |-> NoName]
  OBVIOUS
<1>5. dir' = IF k >= 2 THEN [dir EXCEPT ![i] = empty] ELSE dir
  BY <1>3, <1>4 DEF Removed, Written
<1>6. TfsTypeOK /\ FilesOK /\ EntriesOK
  BY <1>2, TypeParts DEF VolumeOK, Intact
<1>7. i \in Used /\ dir[i].name = n
  BY <1>1, <1>2, <1>6, NamedFound
<1>8. Leaving(i)
  BY <1>2, <1>7, FileLeaving
<1>9. damage.how # "stale" /\ damage'.how # "stale"
  BY <1>2, <1>3 DEF Intact
<1>10. \A j \in Sound : Reads(j)
  BY <1>9 DEF FilesKnown
<1>11. ASSUME NEW j \in Sound, dir'[j] = dir[j], files'[dir[j].name] = files[dir[j].name]
       PROVE  Reads(j)'
  <2>1. j \in Used /\ InodeOf(j).inode
    BY <1>8 DEF Leaving, HasInode
  <2>2. InodeOf(j)' = InodeOf(j)
    BY <1>2, <1>11 DEF InodeOf
  <2>3. \A b \in Range(InodeOf(j).block) : content'[b] = content[b]
    BY <1>2
  <2> QED BY <1>6, <1>10, <1>11, <2>1, <2>2, <2>3, ReadsStill
<1>12. CASE k < 2
  <2>1. dir' = dir /\ files' = files
    BY <1>3, <1>5, <1>12
  <2>2. Used' = Used /\ \A m : Named(m)' = Named(m)
    BY <2>1 DEF Used, Named
  <2>3. Sound' \subseteq Sound
    <3>1. CASE k = 0
      <4>1. damage' = damage
        BY <1>3, <3>1
      <4> QED BY <2>1, <2>2, <4>1 DEF Sound
    <3>2. CASE k = 1
      <4>1. damage'.name = n
        BY <1>3, <3>2
      <4>2. Sound' \subseteq Used \ {i}
        BY <1>7, <2>1, <2>2, <4>1 DEF Sound
      <4> QED BY <1>8, <4>2 DEF Leaving
    <3> QED BY <1>12, <3>1, <3>2
  <2>4. \A j \in Sound' : Reads(j)'
    BY <1>11, <2>1, <2>3
  <2> QED BY <1>9, <2>1, <2>2, <2>4 DEF FilesKnown
<1>13. CASE k = 2
  <2>1. dir' = [dir EXCEPT ![i] = empty] /\ files' = [files EXCEPT ![n] = NoFile]
    BY <1>3, <1>5, <1>13
  <2>2. /\ empty \in [inode : {0} \cup Area, name : Names \cup {NoName}]
        /\ empty.inode = 0 /\ empty.name = NoName /\ i \in Entries
    BY <1>4, <1>7 DEF Used
  <2>3. dir'[i] = empty /\ \A j \in Entries : j # i => dir'[j] = dir[j]
    BY <1>6, <2>1, <2>2, EntryWritten
  <2>4. files'[n] = NoFile /\ \A m \in Names : m # n => files'[m] = files[m]
    BY <1>6, <2>1 DEF FilesOK
  <2>5. Used' \subseteq Used \ {i}
    <3>1. \A j \in Entries : j # i => dir'[j].inode = dir[j].inode
      BY <2>3
    <3> QED BY <2>2, <2>3, <3>1 DEF Used
  <2>6. ASSUME NEW m \in Names, Named(m)' = {} PROVE files'[m] = NoFile
    <3>1. CASE m = n
      BY <2>4, <3>1
    <3>2. CASE m # n
      <4>1. Named(m) \subseteq Named(m)'
        BY <1>7, <2>3, <3>2 DEF Named
      <4>2. files[m] = NoFile
        BY <1>9, <2>6, <4>1 DEF FilesKnown
      <4> QED BY <2>4, <3>2, <4>2
    <3> QED BY <3>1, <3>2
  <2>7. ASSUME NEW j \in Used \ {i} PROVE Reads(j)'
    <3>1. j \in Sound /\ j \in Entries /\ dir[j].name # n
      BY <1>7, <1>8 DEF Leaving, Used
    <3>2. dir'[j] = dir[j] /\ dir[j].name \in Names
      BY <1>6, <2>3, <3>1, EntryTypes
    <3> QED BY <1>11, <2>4, <3>1, <3>2
  <2>8. Sound' \subseteq Used'
    BY DEF Sound
  <2>9. \A j \in Sound' : Reads(j)'
    BY <2>5, <2>7, <2>8
  <2> QED BY <2>6, <2>9 DEF FilesKnown
<1> QED BY <1>12, <1>13

(* Bytes of a buffer that is written at an offset: a position of the file has *)
(* the byte of the buffer exactly when it is in what was written.             *)
LEMMA SpliceAt ==
    ASSUME NEW bytes \in Seq(Bytes), NEW offset \in Nat, NEW buf \in Seq(Bytes), NEW m \in Int,
           NEW pos \in 0 .. (Len(bytes) - 1)
    PROVE  /\ Len(Splice(bytes, offset, buf, m)) = Len(bytes)
           /\ Splice(bytes, offset, buf, m)[pos + 1] =
                IF pos >= offset /\ pos < offset + m /\ pos < offset + Len(buf)
                THEN buf[pos + 1 - offset] ELSE bytes[pos + 1]
<1>1. PICK len \in Nat, n \in Nat : len = Len(bytes) /\ n = Len(buf)
  BY LenProperties
<1>2. PICK p \in Int : p = Min({m, n}) /\ p = IF m <= n THEN m ELSE n
  BY SmallerOf
<1>3. Splice(bytes, offset, buf, m) =
         [i \in 1 .. len |-> IF i > offset /\ i <= offset + p THEN buf[i - offset] ELSE bytes[i]]
  BY <1>1, <1>2 DEF Splice
<1>4. Splice(bytes, offset, buf, m) \in Seq(Bytes)
  BY SpliceOK
<1>5. Len(Splice(bytes, offset, buf, m)) = len
  BY <1>3, <1>4
<1>6. pos + 1 \in 1 .. len
  BY <1>1
<1>7. Splice(bytes, offset, buf, m)[pos + 1] =
         IF pos + 1 > offset /\ pos + 1 <= offset + p THEN buf[pos + 1 - offset] ELSE bytes[pos + 1]
  BY <1>3, <1>6
<1>8. pos + 1 > offset /\ pos + 1 <= offset + p <=> pos >= offset /\ pos < offset + m /\ pos < offset + n
  BY <1>1, <1>2, <1>6
<1> QED BY <1>1, <1>5, <1>7, <1>8

(* A byte of a block that was written. *)
LEMMA BlockAfterAt ==
    ASSUME NEW old, NEW offset \in Nat, NEW buf \in Seq(Bytes), NEW pos \in Nat,
           offset \div TFS_BLOCK_SIZE <= pos \div TFS_BLOCK_SIZE
    PROVE  BlockAfter(old, pos \div TFS_BLOCK_SIZE, offset, buf)[(pos % TFS_BLOCK_SIZE) + 1] =
             IF pos >= offset /\ pos < offset + Len(buf)
             THEN buf[pos + 1 - offset] ELSE old[(pos % TFS_BLOCK_SIZE) + 1]
<1>1. PICK d \in Nat : d = TFS_BLOCK_SIZE /\ d >= 1
  BY TfsConstants
<1>2. PICK q \in Nat, r \in Nat : q = offset \div d /\ r = offset % d /\ r < d /\ offset = q * d + r
  <2>1. /\ offset \div d \in Nat /\ offset % d \in 0 .. (d - 1)
        /\ offset = (offset \div d) * d + (offset % d)
    BY <1>1, Division
  <2>2. offset % d \in Nat /\ offset % d < d
    BY <1>1, <2>1
  <2> QED BY <2>1, <2>2
<1>3. PICK k \in Nat, x \in Nat : k = pos \div d /\ x = pos % d /\ x < d /\ pos = k * d + x
  <2>1. /\ pos \div d \in Nat /\ pos % d \in 0 .. (d - 1)
        /\ pos = (pos \div d) * d + (pos % d)
    BY <1>1, Division
  <2>2. pos % d \in Nat /\ pos % d < d
    BY <1>1, <2>1
  <2> QED BY <2>1, <2>2
<1>5. PICK start \in Nat : start = IF k = q THEN r ELSE 0
  OBVIOUS
<1>6. PICK kd \in Int, qd \in Int : kd = k * d /\ qd = q * d
  OBVIOUS
<1>7. q <= k /\ (k # q => kd >= qd + d)
  <2>1. q <= k
    BY <1>1, <1>2, <1>3
  <2>2. ASSUME k # q PROVE kd >= qd + d
    <3>1. q + 1 <= k
      BY <2>1, <2>2
    <3>2. (q + 1) * d <= k * d /\ (q + 1) * d = q * d + d
      BY <1>1, <3>1, Multiples
    <3> QED BY <1>6, <3>2
  <2> QED BY <2>1, <2>2
<1>8. PICK before \in Int : before = IF k = q THEN 0 ELSE kd - offset
  <2>1. kd - offset \in Int /\ 0 \in Int
    OBVIOUS
  <2>2. CASE k = q
    BY <2>1, <2>2
  <2>3. CASE k # q
    BY <2>1, <2>3
  <2> QED BY <2>2, <2>3
<1>9. PICK len \in Nat : len = Len(buf)
  BY LenProperties
<1>10. BlockAfter(old, k, offset, buf) =
          [y \in 1 .. d |-> IF y > start /\ before + y - start <= len
                            THEN buf[before + y - start] ELSE old[y]]
  BY <1>1, <1>2, <1>5, <1>6, <1>8, <1>9 DEF BlockAfter
<1>11. x + 1 \in 1 .. d
  BY <1>3
<1>12. BlockAfter(old, k, offset, buf)[x + 1] =
          IF x + 1 > start /\ before + (x + 1) - start <= len
          THEN buf[before + (x + 1) - start] ELSE old[x + 1]
  BY <1>10, <1>11
<1>13. pos = kd + x /\ offset = qd + r
  BY <1>2, <1>3, <1>6
<1>14. CASE k = q
  <2>1. start = r /\ before = 0 /\ kd = qd
    BY <1>5, <1>6, <1>8, <1>14
  <2>2. before + (x + 1) - start = pos + 1 - offset
    BY <1>13, <2>1
  <2>3. x + 1 > start /\ before + (x + 1) - start <= len <=> pos >= offset /\ pos < offset + len
    BY <1>13, <2>1
  <2> QED BY <1>1, <1>3, <1>9, <1>12, <2>2, <2>3
<1>15. CASE k # q
  <2>1. start = 0 /\ before = kd - offset /\ kd >= qd + d
    BY <1>5, <1>7, <1>8, <1>15
  <2>2. before + (x + 1) - start = pos + 1 - offset
    BY <1>13, <2>1
  <2>3. pos >= offset
    BY <1>2, <1>13, <2>1
  <2>4. x + 1 > start /\ before + (x + 1) - start <= len <=> pos >= offset /\ pos < offset + len
    BY <1>13, <2>1, <2>3
  <2> QED BY <1>1, <1>3, <1>9, <1>12, <2>2, <2>4
<1> QED BY <1>14, <1>15

(* A position is before a block when its own block is. *)
LEMMA BlockOrder ==
    ASSUME NEW pos \in Nat, NEW c \in Nat
    PROVE  pos \div TFS_BLOCK_SIZE < c <=> pos < c * TFS_BLOCK_SIZE
<1>1. PICK d \in Nat : d = TFS_BLOCK_SIZE /\ d >= 1
  BY TfsConstants
<1>2. PICK q \in Nat, r \in Nat : q = pos \div d /\ r < d /\ pos = q * d + r
  <2>1. /\ pos \div d \in Nat /\ pos % d \in 0 .. (d - 1)
        /\ pos = (pos \div d) * d + (pos % d)
    BY <1>1, Division
  <2>2. pos % d \in Nat /\ pos % d < d
    BY <1>1, <2>1
  <2> QED BY <2>1, <2>2
<1>3. ASSUME q < c PROVE pos < c * d
  <2>1. q + 1 <= c
    BY <1>3
  <2>2. (q + 1) * d <= c * d /\ (q + 1) * d = q * d + d /\ q * d \in Int /\ c * d \in Int
    BY <1>1, <2>1, Multiples
  <2> QED BY <1>2, <2>2
<1>4. ASSUME pos < c * d PROVE q < c
  BY <1>1, <1>2, <1>4, QuotientBound
<1> QED BY <1>1, <1>2, <1>3, <1>4

(* After a write the file holds what it should. *)
LEMMA WrittenHolds ==
    ASSUME NEW h, NEW inode, NEW offset \in Nat, NEW n, NEW buf, NEW k,
           BlocksWritten(h, inode, offset, n, buf, k),
           NEW bytes \in Seq(Bytes), Holds(inode, bytes)
    PROVE  Holds(inode, Splice(bytes, offset, buf, k * TFS_BLOCK_SIZE - offset))'
<1>1. /\ InodeOK(inode) /\ n \in Nat /\ buf \in Seq(Bytes) /\ Len(buf) = n /\ k \in Nat
      /\ offset \div TFS_BLOCK_SIZE <= k
  BY DEF BlocksWritten
<1>2. PICK m \in Int, first \in Nat : m = k * TFS_BLOCK_SIZE - offset /\ first = offset \div TFS_BLOCK_SIZE
  <2>1. TFS_BLOCK_SIZE \in Nat /\ TFS_BLOCK_SIZE >= 1
    BY TfsConstants
  <2>2. k * TFS_BLOCK_SIZE - offset \in Int
    BY <1>1, <2>1
  <2>3. offset \div TFS_BLOCK_SIZE \in Nat
    BY <2>1, Division
  <2> QED BY <2>2, <2>3
<1>3. offset + m = k * TFS_BLOCK_SIZE /\ k * TFS_BLOCK_SIZE \in Int
  BY <1>1, <1>2, TfsConstants
<1>4. PICK len \in Nat : len = Len(bytes)
  BY LenProperties
<1>n. PICK new : new = Splice(bytes, offset, buf, m)
  OBVIOUS
<1>5. inode.filesize = len
  BY <1>4, <1>n DEF Holds
<1>6. new \in Seq(Bytes)
  BY <1>1, <1>4, <1>n, SpliceOK
<1>7. Len(new) = len
  <2>1. PICK p \in Int : p = Min({m, Len(buf)})
    BY <1>1, SmallerOf
  <2>2. new \in Seq(Bytes) /\ DOMAIN new = 1 .. len
    BY <1>4, <1>n, <1>6 DEF Splice
  <2> QED BY <2>2
<1>8. ASSUME NEW pos \in 0 .. (len - 1)
      PROVE  /\ ~content'[BlockOf(inode, pos \div TFS_BLOCK_SIZE)].inode
             /\ ByteAt(inode, pos)' = new[pos + 1]
  <2>1. pos \in Nat /\ pos < inode.filesize /\ pos \in 0 .. (Len(bytes) - 1)
    BY <1>4, <1>n, <1>5
  <2>2. PICK b \in Nat : b = pos \div TFS_BLOCK_SIZE
    BY <2>1, TfsConstants, Division
  <2>x. PICK x : x = (pos % TFS_BLOCK_SIZE) + 1
    OBVIOUS
  <2>3. PICK B : B = BlockOf(inode, b)
    OBVIOUS
  <2>4. B \in Area /\ b + 1 \in 1 .. Len(inode.block)
    <3>1. CeilDiv(inode.filesize) <= Len(inode.block) /\ inode.filesize \in Nat /\ inode.block \in Seq(Area)
      BY <1>1 DEF InodeOK
    <3>2. b + 1 \in 1 .. Len(inode.block)
      BY <2>1, <2>2, <2>x, <3>1, PositionFound
    <3> QED BY <2>3, <3>1, <3>2, ElementOfSeq DEF BlockOf
  <2>5. ~content[B].inode /\ content[B].data[x] = bytes[pos + 1]
    BY <2>1, <2>2, <2>x, <2>3 DEF Holds, ByteAt
  <2>6. new[pos + 1] = IF pos >= offset /\ pos < offset + m /\ pos < offset + n
                       THEN buf[pos + 1 - offset] ELSE bytes[pos + 1]
    <3>1. pos \in 0 .. (Len(bytes) - 1) /\ buf \in Seq(Bytes)
      BY <1>1, <2>1
    <3>2. Splice(bytes, offset, buf, m)[pos + 1] =
             IF pos >= offset /\ pos < offset + m /\ pos < offset + Len(buf)
             THEN buf[pos + 1 - offset] ELSE bytes[pos + 1]
      BY <3>1, SpliceAt
    <3>3. Len(buf) = n /\ new = Splice(bytes, offset, buf, m)
      BY <1>1, <1>4, <1>n
    <3> QED BY <3>2, <3>3
  <2>7. ByteAt(inode, pos)' = content'[B].data[x]
    BY <2>2, <2>x, <2>3 DEF ByteAt, BlockOf
  <2>8. CASE first <= b /\ b < k
    <3>1. \E j \in Nat, old \in [1 .. TFS_BLOCK_SIZE -> Bytes] :
             /\ first <= j /\ j < k /\ B = BlockOf(inode, j)
             /\ ~content[B].inode => old = content[B].data
             /\ content'[B] = Data(BlockAfter(old, j, offset, buf))
      BY <1>2, <2>3, <2>4, <2>8 DEF BlocksWritten
    <3>2. PICK j \in Nat, old \in [1 .. TFS_BLOCK_SIZE -> Bytes] :
             /\ first <= j /\ j < k /\ B = BlockOf(inode, j) /\ old = content[B].data
             /\ content'[B] = Data(BlockAfter(old, j, offset, buf))
      BY <2>5, <3>1
    <3>3. j + 1 \in 1 .. Len(inode.block)
      BY <3>2, WritesOwnBlocks
    <3>4. j + 1 = b + 1
      BY <2>3, <2>4, <3>2, <3>3 DEF Holds, BlockOf
    <3>5. j = b
      BY <3>4
    <3>6. ~content'[B].inode /\ content'[B].data[x] = BlockAfter(old, b, offset, buf)[x]
      BY <3>2, <3>5 DEF Data
    <3>7. BlockAfter(old, b, offset, buf)[x] =
             IF pos >= offset /\ pos < offset + n THEN buf[pos + 1 - offset] ELSE old[x]
      <4>1. pos \in Nat /\ buf \in Seq(Bytes) /\ Len(buf) = n
        BY <1>1, <2>1
      <4>2. offset \div TFS_BLOCK_SIZE <= pos \div TFS_BLOCK_SIZE
        BY <1>2, <2>2, <2>x, <2>8
      <4>3. BlockAfter(old, pos \div TFS_BLOCK_SIZE, offset, buf)[(pos % TFS_BLOCK_SIZE) + 1] =
              IF pos >= offset /\ pos < offset + Len(buf)
              THEN buf[pos + 1 - offset] ELSE old[(pos % TFS_BLOCK_SIZE) + 1]
        BY <4>1, <4>2, BlockAfterAt
      <4>4. BlockAfter(old, b, offset, buf)[x] =
              IF pos >= offset /\ pos < offset + Len(buf) THEN buf[pos + 1 - offset] ELSE old[x]
        BY <2>2, <2>x, <4>3, Zenon
      <4> QED BY <4>1, <4>4, Zenon
    <3>8. pos < offset + m
      BY <1>1, <1>3, <2>1, <2>2, <2>x, <2>8, BlockOrder
    <3> QED BY <2>2, <2>3, <2>5, <2>6, <2>7, <3>2, <3>6, <3>7, <3>8
  <2>9. CASE ~(first <= b /\ b < k)
    <3>1. content'[B] = content[B]
      <4>1. ASSUME content'[B] # content[B] PROVE FALSE
        <5>1. \E j \in Nat : first <= j /\ j < k /\ B = BlockOf(inode, j)
          BY <1>2, <2>4, <4>1 DEF BlocksWritten
        <5>2. PICK j \in Nat : first <= j /\ j < k /\ B = BlockOf(inode, j)
          BY <5>1
        <5>3. j + 1 \in 1 .. Len(inode.block)
          BY <5>2, WritesOwnBlocks
        <5>4. j + 1 = b + 1
          BY <2>3, <2>4, <5>2, <5>3 DEF Holds, BlockOf
        <5>5. j = b
          BY <5>4
        <5> QED BY <2>9, <5>2, <5>5
      <4> QED BY <4>1
    <3>2. ~(pos >= offset /\ pos < offset + m)
      <4>1. CASE b < first
        <5>1. pos < first * TFS_BLOCK_SIZE
          BY <2>1, <2>2, <2>x, <4>1, BlockOrder
        <5>2. ~(offset < first * TFS_BLOCK_SIZE)
          BY <1>2, BlockOrder
        <5>3. first * TFS_BLOCK_SIZE \in Int
          BY TfsConstants
        <5> QED BY <2>1, <5>1, <5>2, <5>3
      <4>2. CASE b >= first
        <5>1. ~(b < k)
          BY <2>9, <4>2
        <5>2. ~(pos < k * TFS_BLOCK_SIZE)
          BY <1>1, <2>1, <2>2, <2>x, <5>1, BlockOrder
        <5> QED BY <1>3, <5>2
      <4> QED BY <4>1, <4>2
    <3> QED BY <2>2, <2>3, <2>5, <2>6, <2>7, <3>1, <3>2
  <2> QED BY <2>8, <2>9
<1>9. \A j, i \in 1 .. Len(inode.block) : inode.block[j] = inode.block[i] => j = i
  BY DEF Holds
<1>10. Holds(inode, new)'
  BY <1>5, <1>7, <1>8, <1>9 DEF Holds, BlockOf
<1>11. new = Splice(bytes, offset, buf, k * TFS_BLOCK_SIZE - offset)
  BY <1>2, <1>4, <1>n
<1> QED BY <1>10, <1>11

LEMMA WriteKnown ==
    ASSUME FilesKnown, NEW h, NEW inode, NEW offset \in Nat, NEW n, NEW buf, NEW k,
           BlocksWritten(h, inode, offset, n, buf, k)
    PROVE  FilesKnown'
<1>1. /\ Clean /\ h.name \in Names /\ inode = content[h.id] /\ dir' = dir /\ damage' = damage
      /\ files' = IF files[h.name] = NoFile THEN files
                  ELSE [files EXCEPT ![h.name] =
                          Splice(files[h.name], offset, buf, k * TFS_BLOCK_SIZE - offset)]
  BY DEF BlocksWritten
<1>2. TfsTypeOK /\ damage = Intact /\ Sound = Used /\ FilesOK
  BY <1>1, AllSound, TypeParts DEF Clean
<1>3. \A m : Named(m)' = Named(m)
  BY <1>1 DEF Named
<1>4. PICK i \in Used : dir[i].inode = h.id /\ dir[i].name = h.name
  BY DEF BlocksWritten
<1>5. dir[i].inode = h.id /\ dir[i].name = h.name
  BY <1>4
<1>6. i \in Used /\ InodeOf(i) = inode
  BY <1>1, <1>5 DEF InodeOf
<1>7. Used' = Used /\ \A j \in Used : dir'[j] = dir[j] /\ InodeOf(j)' = InodeOf(j)
  BY WriteKeepsFiles
<1>8. \A j \in Used : Reads(j)
  BY <1>2 DEF FilesKnown, Intact
<1>9. ASSUME NEW j \in Used, j # i PROVE Reads(j)'
  <2>1. /\ InodeOf(j).inode /\ FileBlocks(j) \cap FileBlocks(i) = {} /\ dir[j].name # h.name
        /\ InodeOf(i).inode
    BY <1>1, <1>5, <1>6, <1>9 DEF Clean, HasInode
  <2>2. /\ Range(InodeOf(j).block) \subseteq FileBlocks(j)
        /\ Range(inode.block) \subseteq FileBlocks(i) /\ InodeOK(InodeOf(j))
    BY <1>2, <1>6, <2>1, UsedInodeOK
  <2>3. ASSUME NEW b \in Range(InodeOf(j).block) PROVE content'[b] = content[b]
    <3>1. b \in Area /\ b \notin Range(inode.block)
      <4>1. FileBlocks(j) \subseteq Area
        BY <1>2, <2>1, EntryTypes
      <4> QED BY <2>1, <2>2, <4>1
    <3>2. ASSUME NEW l \in Nat, l < k, b = BlockOf(inode, l) PROVE FALSE
      BY <3>1, <3>2, WritesOwnBlocks
    <3> QED BY <3>1, <3>2 DEF BlocksWritten
  <2>4. files'[dir[j].name] = files[dir[j].name]
    <3>1. dir[j].name \in Names
      BY <1>2, EntryTypes
    <3> QED BY <1>1, <1>2, <2>1, <3>1 DEF FilesOK
  <2>5. dir'[j] = dir[j] /\ InodeOf(j)' = InodeOf(j) /\ Reads(j)
    BY <1>7, <1>8
  <2> QED BY <1>2, <2>1, <2>3, <2>4, <2>5, ReadsStill
<1>10. Reads(i)'
  <2>1. dir'[i].name = h.name /\ InodeOf(i)' = inode
    BY <1>5, <1>6, <1>7
  <2>2. CASE files[h.name] = NoFile
    BY <1>1, <2>1, <2>2 DEF Reads
  <2>3. CASE files[h.name] # NoFile
    <3>1. PICK bytes, new : /\ bytes = files[h.name]
                            /\ new = Splice(bytes, offset, buf, k * TFS_BLOCK_SIZE - offset)
      OBVIOUS
    <3>2. bytes \in Seq(Bytes)
      BY <1>1, <1>2, <2>3, <3>1 DEF FilesOK
    <3>3. Holds(inode, bytes)
      BY <1>5, <1>6, <1>8, <2>3, <3>1 DEF Reads
    <3>4. Holds(inode, new)'
      BY <3>1, <3>2, <3>3, WrittenHolds
    <3>5. files'[h.name] = new
      BY <1>1, <1>2, <1>5, <2>3, <3>1 DEF FilesOK
    <3>6. files'[dir'[i].name] = new
      BY <2>1, <3>5
    <3>7. Holds(InodeOf(i), files[dir[i].name])'
      BY <2>1, <3>4, <3>6 DEF Holds, ByteAt, BlockOf
    <3> QED BY <3>7 DEF Reads
  <2> QED BY <2>2, <2>3
<1>11. Sound' \subseteq Used
  BY <1>7 DEF Sound
<1>12. \A m \in Names : m # h.name => files'[m] = files[m]
  BY <1>1, <1>2 DEF FilesOK
<1>13. Named(h.name) # {}
  BY <1>5, <1>6 DEF Named, Used
<1>14. \A m \in Names : Named(m)' = {} => files'[m] = NoFile
  BY <1>2, <1>3, <1>12, <1>13 DEF FilesKnown, Intact
<1> QED BY <1>9, <1>10, <1>11, <1>14 DEF FilesKnown

(* Files that hold what was written are read back, by the driver and by the  *)
(* tool.                                                                      *)
LEMMA KnownReadsBack ==
    VolumeOK /\ FilesKnown => ReadsBack
<1> SUFFICES ASSUME VolumeOK, FilesKnown, damage.how # "stale",
                    NEW i \in Sound, files[dir[i].name] # NoFile
             PROVE  LET n == dir[i].name IN
                    /\ tfstool_read(i) = files[n]
                    /\ \A offset \in 0 .. Len(files[n]), len \in 1 .. Len(files[n]) :
                         tfs_read(dir[i].inode, offset, len)
                             = SubSeq(files[n], offset + 1, Min({offset + len, Len(files[n])}))
  BY DEF ReadsBack
<1>1. TfsTypeOK /\ FilesOK
  BY TypeParts DEF VolumeOK
<1>2. i \in Used
  BY DEF Sound
<1>3. PICK inode, bytes : inode = InodeOf(i) /\ bytes = files[dir[i].name]
  OBVIOUS
<1>4. dir[i].name \in Names /\ dir[i].inode \in Area
  BY <1>1, <1>2, EntryTypes
<1>5. bytes \in Seq(Bytes)
  BY <1>1, <1>3, <1>4 DEF FilesOK
<1>6. Holds(inode, bytes)
  BY <1>3 DEF FilesKnown, Reads
<1>7. PICK size \in Nat : size = Len(bytes) /\ inode.filesize = size
  BY <1>5, <1>6, LenProperties DEF Holds
<1>8. \A pos \in 0 .. (size - 1) : ByteAt(inode, pos) = bytes[pos + 1]
  BY <1>6, <1>7 DEF Holds
<1>9. tfstool_read(i) = bytes
  <2>1. inode.inode
    <3>1. i \in Whole
      BY <1>2 DEF Whole
    <3> QED BY <1>3, <3>1 DEF VolumeOK, FilesDisjoint, HasInode
  <2>2. InodeOK(inode)
    BY <1>1, <1>2, <1>3, <2>1, UsedInodeOK
  <2>3. PICK m \in Nat, c \in Nat : m = Len(inode.block) /\ c = CeilDiv(size) /\ c <= m
    <3>1. Len(inode.block) \in Nat
      BY <2>2 DEF InodeOK
    <3> QED BY <1>7, <2>2, <3>1, BlocksNeeded DEF InodeOK
  <2>4. PICK room \in Nat : room = m * TFS_BLOCK_SIZE
    BY TfsConstants
  <2>5. size <= room
    <3>1. size <= c * TFS_BLOCK_SIZE
      BY <2>3, CeilEnough
    <3>2. c * TFS_BLOCK_SIZE <= m * TFS_BLOCK_SIZE /\ c * TFS_BLOCK_SIZE \in Int
      BY <2>3, TfsConstants, Multiples
    <3> QED BY <2>4, <3>1, <3>2
  <2>6. Min({size, room}) = size
    BY <2>5, SmallerOf
  <2>7. tfstool_read(i) = [p \in 1 .. size |-> ByteAt(inode, p - 1)]
    BY <1>3, <1>7, <2>3, <2>4, <2>6 DEF tfstool_read
  <2>8. \A p \in 1 .. size : ByteAt(inode, p - 1) = bytes[p]
    <3> TAKE p \in 1 .. size
    <3>1. p - 1 \in 0 .. (size - 1) /\ (p - 1) + 1 = p
      OBVIOUS
    <3> QED BY <1>8, <3>1
  <2>9. bytes = [p \in 1 .. size |-> bytes[p]]
    BY <1>5, <1>7
  <2> QED BY <2>7, <2>8, <2>9
<1>10. ASSUME NEW offset \in 0 .. size, NEW len \in 1 .. size
       PROVE  tfs_read(dir[i].inode, offset, len)
                = SubSeq(bytes, offset + 1, Min({offset + len, size}))
  <2>1. PICK rest \in Nat, n \in Nat : rest = size - offset /\ n = IF len <= rest THEN len ELSE rest
    OBVIOUS
  <2>2. Min({len, inode.filesize - offset}) = n
    BY <1>7, <2>1, SmallerOf
  <2>3. tfs_read(dir[i].inode, offset, len) = [p \in 1 .. n |-> ByteAt(inode, offset + p - 1)]
    BY <1>3, <2>2 DEF tfs_read, InodeOf
  <2>4. PICK end \in Nat : end = Min({offset + len, size}) /\ end = offset + n
    <3>1. Min({offset + len, size}) = IF offset + len <= size THEN offset + len ELSE size
      BY SmallerOf
    <3> QED BY <2>1, <3>1
  <2>5. SubSeq(bytes, offset + 1, end) = [p \in 1 .. n |-> bytes[offset + p]]
    <3>1. SubSeq(bytes, offset + 1, end) = [p \in 1 .. (end - (offset + 1) + 1) |-> bytes[p + (offset + 1) - 1]]
      BY <1>5
    <3>2. end - (offset + 1) + 1 = n /\ \A p \in 1 .. n : p + (offset + 1) - 1 = offset + p
      BY <2>4
    <3> QED BY <3>1, <3>2
  <2>6. \A p \in 1 .. n : ByteAt(inode, offset + p - 1) = bytes[offset + p]
    <3> TAKE p \in 1 .. n
    <3>1. offset + p - 1 \in 0 .. (size - 1) /\ (offset + p - 1) + 1 = offset + p
      BY <2>1
    <3> QED BY <1>8, <3>1
  <2> QED BY <2>3, <2>4, <2>5, <2>6
<1> QED BY <1>3, <1>7, <1>9, <1>10


(* No step of the driver or of the tool loses the bytes of a file. *)
LEMMA KnownStep ==
    VolumeOK /\ FilesKnown /\ [TfsNext]_tfsVars => FilesKnown'
<1> SUFFICES ASSUME VolumeOK, FilesKnown, [TfsNext]_tfsVars PROVE FilesKnown'
  OBVIOUS
<1>1. CASE tfs_init
  <2>1. UNCHANGED <<dir, content, files, damage>>
    BY <1>1 DEF tfs_init
  <2> QED BY <2>1, KnownStill
<1>2. CASE tfs_unmount
  <2>1. UNCHANGED <<dir, content, files, damage>>
    BY <1>2 DEF tfs_unmount
  <2> QED BY <2>1, KnownStill
<1>3. ASSUME NEW n \in Names, NEW size \in Sizes, tfs_create(n, size) PROVE FilesKnown'
  <2>1. size \in Nat /\ 0 \in Bytes
    BY TfsConstants
  <2>2. VolumeOK' /\ MakesFile(n, size, 0)
    BY <1>3, CreateStep
  <2> QED BY <2>1, <2>2, MakesKnown
<1>4. ASSUME NEW n \in Names, tfs_remove(n) \/ tfstool_delete(n) PROVE FilesKnown'
  BY <1>4, RemoveKnown DEF tfs_remove, tfstool_delete
<1>5. ASSUME NEW n \in Names, tfs_open(n) PROVE FilesKnown'
  <2>1. UNCHANGED <<dir, content, files, damage>>
    BY <1>5 DEF tfs_open
  <2> QED BY <2>1, KnownStill
<1>6. ASSUME NEW n \in Names, NEW source \in Sources, tfstool_write(n, source[1], source[2])
      PROVE  FilesKnown'
  <2>1. source[1] \in Nat /\ source[2] \in Bytes
    <3>1. source \in Nat \X Bytes
      BY TfsConstants
    <3> QED BY <3>1
  <2>2. VolumeOK' /\ MakesFile(n, source[1], source[2])
    BY <1>6, <2>1, ToolWriteStep
  <2> QED BY <2>1, <2>2, MakesKnown
<1>7. ASSUME NEW h \in opened, tfs_close(h) PROVE FilesKnown'
  <2>1. UNCHANGED <<dir, content, files, damage>>
    BY <1>7 DEF tfs_close
  <2> QED BY <2>1, KnownStill
<1>8. ASSUME NEW h \in opened, NEW offset \in 0 .. Max(Sizes), NEW len \in 1 .. Max(Sizes),
             NEW v \in Bytes, tfs_write(h, offset, len, v)
      PROVE  FilesKnown'
  <2>1. offset \in Nat /\ len \in Nat
    OBVIOUS
  <2>2. CASE Stale(h)
    BY <1>8, <2>2, StaleWrite DEF FilesKnown
  <2>3. CASE ~Stale(h)
    <3>1. PICK inode, n, buf, k : BlocksWritten(h, inode, offset, n, buf, k)
      BY <1>8, <2>1, <2>3, WriteDone
    <3> QED BY <2>1, <3>1, WriteKnown
  <2> QED BY <2>2, <2>3
<1>9. CASE UNCHANGED tfsVars
  <2>1. UNCHANGED <<dir, content, files, damage>>
    BY <1>9 DEF tfsVars
  <2> QED BY <2>1, KnownStill
<1> QED BY <1>1, <1>2, <1>3, <1>4, <1>5, <1>6, <1>7, <1>8, <1>9 DEF TfsNext

(* Whatever was created, written and removed since, by the driver or by the  *)
(* tool, and wherever an operation stopped: both read of a file the bytes     *)
(* that were written to it (tfs_read, tfstool_read), until a write through    *)
(* the handle of a file since removed (tfs_write of a stale handle).          *)
THEOREM ReadsBackInvariant == TfsSpec => []ReadsBack
<1>1. TfsInit => VolumeOK /\ FilesKnown
  BY VolumeInit, KnownInit
<1>2. VolumeOK /\ FilesKnown /\ [TfsNext]_tfsVars => VolumeOK' /\ FilesKnown'
  BY VolumeStep, KnownStep
<1>3. VolumeOK /\ FilesKnown => ReadsBack
  BY KnownReadsBack
<1> QED BY <1>1, <1>2, <1>3, PTL DEF TfsSpec
=============================================================================
