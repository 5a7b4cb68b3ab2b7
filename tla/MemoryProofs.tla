------------------------------ MODULE MemoryProofs ------------------------------
(* Proofs about the memory of processes (Memory): the page pool and the     *)
(* page tables agree on who has which page, heaps can be used and grown,    *)
(* and the translation buffer holds what page tables say - for any number   *)
(* of pages, processes and programs.                                        *)
EXTENDS Memory, FiniteSetTheorems, SequenceTheorems, TLAPS

-----------------------------------------------------------------------------
(* The k-th of a set of numbers *)

Rank(S, f) == Cardinality({g \in S : g < f})

(* Ranks are different, and smaller than the size of the set. *)
LEMMA RankGrows ==
    ASSUME NEW S, IsFiniteSet(S), S \subseteq Int
    PROVE  /\ Cardinality(S) \in Nat
           /\ \A f \in S : Rank(S, f) \in Nat /\ Rank(S, f) < Cardinality(S)
           /\ \A f, g \in S : f < g => Rank(S, f) < Rank(S, g)
           /\ \A f, g \in S : Rank(S, f) = Rank(S, g) => f = g
<1> DEFINE Below(f) == {g \in S : g < f}
<1>0. \A f : Below(f) \in SUBSET S
  OBVIOUS
<1>1. \A f : IsFiniteSet(Below(f)) /\ Cardinality(Below(f)) \in Nat
  BY <1>0, FS_Subset, FS_CardinalityType
<1>2. Cardinality(S) \in Nat
  BY FS_CardinalityType
<1>3. ASSUME NEW T, T \in SUBSET S, NEW f \in T, NEW R \in SUBSET T, f \notin R
      PROVE  Cardinality(R) < Cardinality(T)
  <2>1. IsFiniteSet(T)
    BY <1>3, FS_Subset
  <2>2. IsFiniteSet(R) /\ Cardinality(R) <= Cardinality(T) /\ (Cardinality(T) = Cardinality(R) => T = R)
    BY <2>1, FS_Subset
  <2>3. Cardinality(T) \in Nat /\ Cardinality(R) \in Nat
    BY <2>1, <2>2, FS_CardinalityType
  <2> QED BY <1>3, <2>2, <2>3
<1>4. \A f \in S : Rank(S, f) \in Nat /\ Rank(S, f) < Cardinality(S)
  <2> TAKE f \in S
  <2>1. f \notin Below(f) /\ Below(f) \in SUBSET S /\ S \in SUBSET S
    OBVIOUS
  <2>2. Cardinality(Below(f)) < Cardinality(S)
    BY <1>3, <2>1
  <2> QED BY <1>1, <2>2 DEF Rank
<1>5. \A f, g \in S : f < g => Rank(S, f) < Rank(S, g)
  <2> SUFFICES ASSUME NEW f \in S, NEW g \in S, f < g PROVE Rank(S, f) < Rank(S, g)
    OBVIOUS
  <2>1. /\ f \notin Below(f) /\ f \in Below(g)
        /\ Below(f) \in SUBSET Below(g) /\ Below(g) \in SUBSET S
    <3>1. \A x \in S : x < f => x < g
      OBVIOUS
    <3>2. ~(f < f)
      OBVIOUS
    <3> QED BY <3>1, <3>2
  <2>2. Cardinality(Below(f)) < Cardinality(Below(g))
    BY <1>3, <2>1
  <2> QED BY <2>2 DEF Rank
<1>6. \A f, g \in S : Rank(S, f) = Rank(S, g) => f = g
  <2> SUFFICES ASSUME NEW f \in S, NEW g \in S, f # g PROVE Rank(S, f) # Rank(S, g)
    OBVIOUS
  <2>1. f < g \/ g < f
    OBVIOUS
  <2>2. Rank(S, f) \in Nat /\ Rank(S, g) \in Nat
    BY <1>4
  <2> QED BY <1>5, <2>1, <2>2
<1> QED BY <1>2, <1>4, <1>5, <1>6

(* Every number below the size of the set is the rank of one element. *)
LEMMA RankOnto ==
    ASSUME NEW S, IsFiniteSet(S), S \subseteq Int, NEW k \in 1 .. Cardinality(S)
    PROVE  \E f \in S : Rank(S, f) = k - 1
<1>1. PICK n \in Nat : n = Cardinality(S)
  BY FS_CardinalityType
<1> DEFINE r == [f \in S |-> Rank(S, f) + 1]
<1>2. \A f \in S : Rank(S, f) + 1 \in 1 .. n
  <2> TAKE f \in S
  <2>1. Rank(S, f) \in Nat /\ Rank(S, f) < n
    BY <1>1, RankGrows
  <2> QED BY <2>1
<1>3. r \in Injection(S, 1 .. n)
  <2>1. r \in [S -> 1 .. n]
    BY <1>2
  <2>2. \A f, g \in S : r[f] = r[g] => f = g
    <3> SUFFICES ASSUME NEW f \in S, NEW g \in S, r[f] = r[g] PROVE f = g
      OBVIOUS
    <3>0. Rank(S, f) + 1 = Rank(S, g) + 1
      OBVIOUS
    <3>1. Rank(S, f) \in Nat /\ Rank(S, g) \in Nat /\ Rank(S, f) + 1 = Rank(S, g) + 1
      BY <3>0, RankGrows
    <3>2. Rank(S, f) = Rank(S, g)
      BY <3>1
    <3> QED BY <3>2, RankGrows
  <2>3. DOMAIN r = S
    OBVIOUS
  <2> QED BY <2>1, <2>2, <2>3 DEF Injection, IsInjective
<1>4. IsFiniteSet(1 .. n) /\ Cardinality(1 .. n) = n
  <2>1. n >= 1 /\ 1 \in Int /\ n \in Int /\ ~(1 > n) /\ n - 1 + 1 = n
    BY <1>1
  <2> QED BY <2>1, FS_Interval
<1>5. r \in Surjection(S, 1 .. n)
  BY <1>1, <1>3, <1>4, FS_Injection
<1>6. PICK f \in S : r[f] = k
  BY <1>1, <1>5 DEF Surjection
<1>7. Rank(S, f) + 1 = k /\ Rank(S, f) \in Nat
  BY <1>6, RankGrows
<1> QED BY <1>7

(* The k-th element is one with rank k - 1, and there is only one. *)
LEMMA NthFound ==
    ASSUME NEW S, IsFiniteSet(S), S \subseteq Int
    PROVE  /\ \A k \in 1 .. Cardinality(S) : Nth(S, k) \in S /\ Rank(S, Nth(S, k)) = k - 1
           /\ \A j, k \in 1 .. Cardinality(S) : Nth(S, j) = Nth(S, k) => j = k
           /\ \A f \in S : \E k \in 1 .. Cardinality(S) : Nth(S, k) = f
<1>1. \A k \in 1 .. Cardinality(S) : Nth(S, k) \in S /\ Rank(S, Nth(S, k)) = k - 1
  <2> TAKE k \in 1 .. Cardinality(S)
  <2>1. \E f \in S : Cardinality({g \in S : g < f}) = k - 1
    BY RankOnto DEF Rank
  <2> QED BY <2>1 DEF Nth, Rank
<1>2. \A j, k \in 1 .. Cardinality(S) : Nth(S, j) = Nth(S, k) => j = k
  <2> SUFFICES ASSUME NEW j \in 1 .. Cardinality(S), NEW k \in 1 .. Cardinality(S),
                      Nth(S, j) = Nth(S, k)
               PROVE  j = k
    OBVIOUS
  <2>1. j - 1 = k - 1
    BY <1>1
  <2> QED BY <2>1
<1>3. ASSUME NEW f \in S PROVE \E k \in 1 .. Cardinality(S) : Nth(S, k) = f
  <2>1. PICK k \in Int : k = Rank(S, f) + 1 /\ k \in 1 .. Cardinality(S) /\ k - 1 = Rank(S, f)
    <3>1. Rank(S, f) \in Nat /\ Rank(S, f) < Cardinality(S) /\ Cardinality(S) \in Nat
      BY RankGrows
    <3> QED BY <3>1
  <2>2. Nth(S, k) \in S /\ Rank(S, Nth(S, k)) = Rank(S, f)
    BY <1>1, <2>1
  <2> QED BY <2>1, <2>2, RankGrows
<1> QED BY <1>1, <1>2, <1>3

(* The first n of a set. *)
Firsts(S, n) == {Nth(S, k) : k \in 1 .. n}

LEMMA FirstN ==
    ASSUME NEW S, IsFiniteSet(S), S \subseteq Int, NEW n \in Nat, n <= Cardinality(S)
    PROVE  /\ Firsts(S, n) \subseteq S /\ IsFiniteSet(Firsts(S, n))
           /\ Cardinality(Firsts(S, n)) = n
           /\ IsFiniteSet(S \ Firsts(S, n))
           /\ Cardinality(S \ Firsts(S, n)) = Cardinality(S) - n
           /\ Firsts(S, n) = {f \in S : Rank(S, f) < n}
<1> DEFINE T == {Nth(S, k) : k \in 1 .. n}
           nth == [k \in 1 .. n |-> Nth(S, k)]
<1>1. Cardinality(S) \in Nat
  BY FS_CardinalityType
<1>2. \A k \in 1 .. n : k \in 1 .. Cardinality(S)
  BY <1>1
<1>3. T \subseteq S
  BY <1>2, NthFound
<1>4. nth \in Surjection(1 .. n, T)
  BY DEF Surjection
<1>5. nth \in Injection(1 .. n, T)
  <2>1. nth \in [1 .. n -> T]
    OBVIOUS
  <2>2. \A j, k \in 1 .. n : nth[j] = nth[k] => j = k
    BY <1>2, NthFound
  <2>3. DOMAIN nth = 1 .. n
    OBVIOUS
  <2> QED BY <2>1, <2>2, <2>3 DEF Injection, IsInjective
<1>6. IsFiniteSet(1 .. n) /\ Cardinality(1 .. n) = n
  <2>1. 1 \in Int /\ n \in Int /\ (1 > n => n = 0) /\ n - 1 + 1 = n
    OBVIOUS
  <2> QED BY <2>1, FS_Interval
<1>7. IsFiniteSet(T) /\ Cardinality(T) = n
  BY <1>4, <1>5, <1>6, FS_Surjection
<1>8. IsFiniteSet(S \ T) /\ Cardinality(S \ T) = Cardinality(S) - n
  <2>1. S \cap T = T
    BY <1>3
  <2> QED BY <1>7, <2>1, FS_Difference
<1>9. ASSUME NEW f \in S, Rank(S, f) < n PROVE f \in T
  <2>1. PICK k \in 1 .. Cardinality(S) : Nth(S, k) = f
    BY NthFound
  <2>2. Rank(S, f) = k - 1
    BY <2>1, NthFound
  <2>3. k \in 1 .. n
    BY <1>1, <1>9, <2>2
  <2> QED BY <2>1, <2>3
<1>10. ASSUME NEW f \in T PROVE Rank(S, f) < n
  <2>1. PICK k \in 1 .. n : f = Nth(S, k)
    OBVIOUS
  <2>2. Rank(S, f) = k - 1
    BY <1>2, <2>1, NthFound
  <2> QED BY <2>2
<1>11. T = {f \in S : Rank(S, f) < n}
  BY <1>3, <1>9, <1>10
<1> QED BY <1>3, <1>7, <1>8, <1>11 DEF Firsts

(* A sequence lists every element of a set once. *)
Lists(order, P) ==
    /\ order \in Seq(P) /\ IsFiniteSet(P) /\ Len(order) = Cardinality(P)
    /\ \A j, k \in 1 .. Len(order) : order[j] = order[k] => j = k
    /\ \A v \in P : \E k \in 1 .. Len(order) : order[k] = v

LEMMA AscendingLists ==
    ASSUME NEW S, IsFiniteSet(S), S \subseteq Int
    PROVE  Lists(Ascending(S), S)
<1>1. PICK n \in Nat : n = Cardinality(S)
  BY FS_CardinalityType
<1>2. /\ \A k \in 1 .. n : Nth(S, k) \in S
      /\ \A j, k \in 1 .. n : Nth(S, j) = Nth(S, k) => j = k
      /\ \A v \in S : \E k \in 1 .. n : Nth(S, k) = v
  BY <1>1, NthFound
<1>3. PICK s : s = Ascending(S)
  OBVIOUS
<1>4. s = [k \in 1 .. n |-> Nth(S, k)]
  BY <1>1, <1>3 DEF Ascending
<1>5. s \in [1 .. n -> S] /\ \A k \in 1 .. n : s[k] = Nth(S, k)
  BY <1>2, <1>4
<1>6. s \in Seq(S) /\ Len(s) = n
  BY <1>5
<1>7. \A j, k \in 1 .. n : s[j] = s[k] => j = k
  BY <1>2, <1>5
<1>8. \A v \in S : \E k \in 1 .. n : s[k] = v
  BY <1>2, <1>5
<1> QED BY <1>1, <1>3, <1>6, <1>7, <1>8 DEF Lists

LEMMA ConcatLists ==
    ASSUME NEW P, NEW Q, P \cap Q = {}, NEW s, NEW t, Lists(s, P), Lists(t, Q)
    PROVE  Lists(s \o t, P \cup Q)
<1>1. s \in Seq(P \cup Q) /\ t \in Seq(P \cup Q)
  <2>1. s \in Seq(P) /\ t \in Seq(Q)
    BY DEF Lists
  <2> QED BY <2>1
<1>2. PICK m \in Nat, n \in Nat : m = Len(s) /\ n = Len(t)
  BY <1>1, LenProperties
<1>3. /\ s \o t \in Seq(P \cup Q) /\ Len(s \o t) = m + n
      /\ \A i \in 1 .. m + n : (s \o t)[i] = IF i <= m THEN s[i] ELSE t[i - m]
  BY <1>1, <1>2, ConcatProperties
<1>4. IsFiniteSet(P \cup Q) /\ Cardinality(P \cup Q) = m + n
  <2>1. Cardinality(P \cap Q) = 0
    BY FS_EmptySet
  <2>2. Cardinality(P) = m /\ Cardinality(Q) = n /\ IsFiniteSet(P) /\ IsFiniteSet(Q)
    BY <1>2 DEF Lists
  <2> QED BY <2>1, <2>2, FS_Union
<1>5. /\ \A i \in 1 .. m : s[i] \in P
      /\ \A i \in 1 .. n : t[i] \in Q
  BY <1>2, ElementOfSeq DEF Lists
<1>p. \A i \in 1 .. m + n :
         /\ i <= m => i \in 1 .. m /\ (s \o t)[i] = s[i]
         /\ i > m => i - m \in 1 .. n /\ (s \o t)[i] = t[i - m]
  <2> TAKE i \in 1 .. m + n
  <2>1. (s \o t)[i] = IF i <= m THEN s[i] ELSE t[i - m]
    BY <1>3
  <2> QED BY <2>1
<1>6. ASSUME NEW j \in 1 .. m + n, NEW k \in 1 .. m + n, (s \o t)[j] = (s \o t)[k]
      PROVE  j = k
  <2>1. CASE j <= m /\ k <= m
    <3>1. s[j] = s[k] /\ j \in 1 .. m /\ k \in 1 .. m
      BY <1>p, <1>6, <2>1
    <3> QED BY <1>2, <3>1 DEF Lists
  <2>2. CASE j > m /\ k > m
    <3>1. t[j - m] = t[k - m] /\ j - m \in 1 .. n /\ k - m \in 1 .. n
      BY <1>p, <1>6, <2>2
    <3>2. j - m = k - m
      BY <1>2, <3>1 DEF Lists
    <3> QED BY <3>2
  <2>3. CASE j <= m /\ k > m
    <3>1. s[j] = t[k - m] /\ j \in 1 .. m /\ k - m \in 1 .. n
      BY <1>p, <1>6, <2>3
    <3> QED BY <1>5, <3>1
  <2>4. CASE j > m /\ k <= m
    <3>1. t[j - m] = s[k] /\ k \in 1 .. m /\ j - m \in 1 .. n
      BY <1>p, <1>6, <2>4
    <3> QED BY <1>5, <3>1
  <2>5. (j <= m \/ j > m) /\ (k <= m \/ k > m)
    OBVIOUS
  <2> QED BY <2>1, <2>2, <2>3, <2>4, <2>5
<1>7. ASSUME NEW v \in P \cup Q PROVE \E k \in 1 .. m + n : (s \o t)[k] = v
  <2>1. CASE v \in P
    <3>1. PICK k \in 1 .. m : s[k] = v
      BY <1>2, <2>1 DEF Lists
    <3>2. k \in 1 .. m + n /\ k <= m
      OBVIOUS
    <3> QED BY <1>3, <3>1, <3>2
  <2>2. CASE v \in Q
    <3>1. PICK k \in 1 .. n : t[k] = v
      BY <1>2, <2>2 DEF Lists
    <3>2. PICK i \in 1 .. m + n : ~(i <= m) /\ i - m = k
      <4>1. m + k \in 1 .. m + n /\ ~(m + k <= m) /\ m + k - m = k
        OBVIOUS
      <4> QED BY <4>1
    <3>3. (s \o t)[i] = v
      BY <1>3, <3>1, <3>2
    <3> QED BY <3>3
  <2> QED BY <2>1, <2>2
<1>8. PICK u : u = s \o t
  OBVIOUS
<1>9. \A j, k \in 1 .. m + n : u[j] = u[k] => j = k
  BY <1>6, <1>8
<1>10. \A v \in P \cup Q : \E k \in 1 .. m + n : u[k] = v
  BY <1>7, <1>8
<1>11. u \in Seq(P \cup Q) /\ Len(u) = m + n
  BY <1>3, <1>8
<1> QED BY <1>4, <1>8, <1>9, <1>10, <1>11 DEF Lists
-----------------------------------------------------------------------------
(* Page tables *)

LEMMA FrameSets ==
    /\ Frames \subseteq Nat /\ VPages \subseteq Nat /\ IsFiniteSet(Frames) /\ IsFiniteSet(VPages)
    /\ Cardinality(Frames) = NumFrames - StaticEnd /\ NoFrame \notin Frames
    /\ NumFrames \in Nat /\ StaticEnd \in Nat /\ StackTop \in Nat /\ PageSize \in Nat
    /\ PageSize >= 1 /\ Unmapped \in PageType /\ NoTable \in TableType /\ Mapped(NoTable.map) = {}
<1>1. /\ NumFrames \in Nat /\ StaticEnd \in Nat /\ StaticEnd < NumFrames /\ StackTop \in Nat
      /\ PageSize \in Nat /\ PageSize >= 1
  BY MemoryAssumption
<1>2. Frames \subseteq Nat /\ VPages \subseteq Nat /\ NoFrame \notin Frames
  BY <1>1 DEF Frames, VPages, NoFrame
<1>3. IsFiniteSet(Frames) /\ Cardinality(Frames) = NumFrames - StaticEnd
  <2>1. /\ StaticEnd \in Int /\ NumFrames - 1 \in Int /\ ~(StaticEnd > NumFrames - 1)
        /\ NumFrames - 1 - StaticEnd + 1 = NumFrames - StaticEnd
    BY <1>1
  <2> QED BY <2>1, FS_Interval DEF Frames
<1>4. IsFiniteSet(VPages)
  BY <1>1, FS_Interval DEF VPages
<1>5. Unmapped \in PageType
  BY DEF Unmapped, PageType
<1>6. NoTable \in TableType /\ Mapped(NoTable.map) = {}
  BY <1>5 DEF NoTable, TableType, Mapped
<1> QED BY <1>1, <1>2, <1>3, <1>4, <1>5, <1>6

LEMMA FreeFinite ==
    ASSUME NEW S, S \subseteq Frames
    PROVE  /\ IsFiniteSet(S) /\ S \subseteq Int /\ Cardinality(S) \in Nat
           /\ Cardinality(S) <= NumFrames
<1>1. S \in SUBSET Frames /\ IsFiniteSet(Frames)
  BY FrameSets
<1>2. IsFiniteSet(S) /\ Cardinality(S) <= Cardinality(Frames)
  BY <1>1, FS_Subset
<1>3. Cardinality(S) \in Nat
  BY <1>2, FS_CardinalityType
<1>4. Cardinality(S) <= NumFrames
  BY <1>2, <1>3, FrameSets
<1>5. S \subseteq Int
  BY FrameSets
<1> QED BY <1>2, <1>3, <1>4, <1>5

(* What the page table of a call of vm_map for the pages P is: P gets, page *)
(* by page, the free pages from the (skip + 1)-st to the last-th.           *)
Fresh(new, map, P, skip, last) ==
    /\ new \in [VPages -> PageType]
    /\ \A v \in VPages \ P : new[v] = map[v]
    /\ \A v \in P : \E k \in (skip + 1) .. last : new[v].frame = NthFree(k)
    /\ \A v, w \in P : new[v].frame = new[w].frame => v = w
    /\ \A k \in (skip + 1) .. last : \E v \in P : new[v].frame = NthFree(k)
    /\ Mapped(new) = Mapped(map) \cup P

LEMMA MapFresh ==
    ASSUME mem_free \subseteq Frames, NEW map \in [VPages -> PageType], NEW P \in SUBSET VPages,
           NEW order, Lists(order, P), NEW skip \in Nat, NEW last \in Nat,
           last = skip + Cardinality(P), last <= Cardinality(mem_free)
    PROVE  Fresh(vm_map(map, order, skip), map, P, skip, last)
<1>1. IsFiniteSet(mem_free) /\ mem_free \subseteq Int
  BY FreeFinite
<1>2. PICK m \in Nat : m = Cardinality(mem_free)
  BY <1>1, FS_CardinalityType
<1>3. /\ \A k \in 1 .. m : NthFree(k) \in mem_free
      /\ \A j, k \in 1 .. m : NthFree(j) = NthFree(k) => j = k
  BY <1>1, <1>2, NthFound DEF NthFree
<1>4. PICK n \in Nat : n = Len(order) /\ n = Cardinality(P) /\ DOMAIN order = 1 .. n
  BY LenProperties DEF Lists
<1>5. last = skip + n /\ skip + n <= m
  BY <1>2, <1>4
<1> DEFINE Place(v) == CHOOSE k \in DOMAIN order : order[k] = v
<1>6. \A k \in 1 .. n : order[k] \in P
  BY <1>4, ElementOfSeq DEF Lists
<1>7. \A v \in P : Place(v) \in 1 .. n /\ order[Place(v)] = v
  <2>1. \A v \in P : \E k \in DOMAIN order : order[k] = v
    BY <1>4 DEF Lists
  <2> QED BY <1>4, <2>1
<1>8. \A k \in 1 .. n : Place(order[k]) = k
  <2> TAKE k \in 1 .. n
  <2>1. Place(order[k]) \in 1 .. n /\ order[Place(order[k])] = order[k]
    BY <1>6, <1>7
  <2> QED BY <1>4, <2>1 DEF Lists
<1> HIDE DEF Place
<1>9. PICK new : new = vm_map(map, order, skip)
  OBVIOUS
<1>10. \A v \in VPages : new[v] = IF v \in P THEN [frame |-> NthFree(skip + Place(v)), dirty |-> TRUE]
                                  ELSE map[v]
  <2>1. \A v \in VPages : (\E k \in DOMAIN order : order[k] = v) <=> v \in P
    BY <1>4, <1>6, <1>7
  <2> QED BY <1>9, <2>1 DEF vm_map, Place
<1>11. new = [v \in VPages |-> new[v]]
  BY <1>9 DEF vm_map
<1>12. ASSUME NEW v \in P
       PROVE  /\ skip + Place(v) \in 1 .. m /\ skip + Place(v) \in (skip + 1) .. last
              /\ NthFree(skip + Place(v)) \in Frames
              /\ new[v] \in PageType /\ new[v].frame = NthFree(skip + Place(v))
              /\ new[v] # Unmapped
  <2>1. Place(v) \in 1 .. n
    BY <1>7
  <2>2. skip + Place(v) \in 1 .. m /\ skip + Place(v) \in (skip + 1) .. last
    BY <1>5, <2>1
  <2>3. NthFree(skip + Place(v)) \in Frames
    BY <1>3, <2>2
  <2>4. new[v] = [frame |-> NthFree(skip + Place(v)), dirty |-> TRUE]
    BY <1>10
  <2> QED BY <2>2, <2>3, <2>4, FrameSets DEF PageType, Unmapped
<1>13. new \in [VPages -> PageType]
  <2>1. \A v \in VPages : new[v] \in PageType
    BY <1>10, <1>12
  <2> QED BY <1>11, <2>1
<1>14. \A v \in P : \E k \in (skip + 1) .. last : new[v].frame = NthFree(k)
  BY <1>12
<1>15. ASSUME NEW v \in P, NEW w \in P, new[v].frame = new[w].frame PROVE v = w
  <2>1. skip + Place(v) = skip + Place(w)
    BY <1>3, <1>12, <1>15
  <2>2. Place(v) = Place(w)
    BY <1>7, <2>1
  <2> QED BY <1>7, <2>2
<1>16. ASSUME NEW k \in (skip + 1) .. last PROVE \E v \in P : new[v].frame = NthFree(k)
  <2>1. PICK j \in 1 .. n : skip + j = k
    <3>1. k - skip \in 1 .. n /\ skip + (k - skip) = k
      BY <1>5
    <3> QED BY <3>1
  <2>2. order[j] \in P /\ Place(order[j]) = j
    BY <1>6, <1>8
  <2> QED BY <1>12, <2>1, <2>2
<1>17. Mapped(new) = Mapped(map) \cup P
  BY <1>10, <1>12 DEF Mapped
<1> QED BY <1>9, <1>10, <1>13, <1>14, <1>15, <1>16, <1>17 DEF Fresh

(* Of a call that goes through, what MapFault has checked. *)
LEMMA NoFault ==
    ASSUME NEW map, NEW pages, MapFault(map, pages) = "no"
    PROVE  /\ pages \cap Mapped(map) = {}
           /\ ~(Cardinality({Pair(v) : v \in Mapped(map) \cup pages}) > TableEntries)
BY DEF MapFault

LEMMA FaultKinds ==
    ASSUME NEW map, NEW pages
    PROVE  /\ MapFault(map, pages) \in {"no", "remap", "full"}
           /\ MapFault(map, pages) = "remap" => pages \cap Mapped(map) # {}
BY DEF MapFault
-----------------------------------------------------------------------------
(* Addresses *)

(* Multiples of the page size are ordered as what they are multiples of. *)
LEMMA Multiples ==
    ASSUME NEW a \in Int, NEW b \in Int
    PROVE  /\ a * PageSize \in Int /\ b * PageSize \in Int
           /\ a <= b => a * PageSize <= b * PageSize
           /\ a * PageSize < b * PageSize => a < b
           /\ (a + b) * PageSize = a * PageSize + b * PageSize
<1>1. PICK d \in Nat : d = PageSize /\ d >= 1
  BY FrameSets
<1>2. a * d \in Int /\ b * d \in Int /\ (a + b) * d = a * d + b * d
  OBVIOUS
<1>3. ASSUME NEW x \in Int, NEW y \in Int, x <= y PROVE x * d <= y * d
  <2>1. PICK z \in Nat : y = x + z
    BY <1>3
  <2>2. y * d = x * d + z * d /\ z * d \in Nat
    BY <2>1
  <2> QED BY <2>2
<1>4. a * d < b * d => a < b
  <2>1. CASE b <= a
    BY <1>2, <1>3, <2>1
  <2> QED BY <2>1
<1> QED BY <1>1, <1>2, <1>3, <1>4

(* The page of an address. *)
LEMMA PageFound ==
    ASSUME NEW addr \in Nat
    PROVE  /\ PageOf(addr) \in Nat
           /\ PageOf(addr) * PageSize <= addr /\ addr < (PageOf(addr) + 1) * PageSize
           /\ addr % PageSize = 0 <=> addr = PageOf(addr) * PageSize
<1>1. PICK d \in Nat : d = PageSize /\ d >= 1
  BY FrameSets
<1>2. PICK q \in Nat, r \in Nat : q = addr \div d /\ r = addr % d /\ r < d /\ addr = d * q + r
  <2>1. addr \div d \in Nat
    BY <1>1
  <2>2. addr % d \in 0 .. (d - 1)
    BY <1>1
  <2>3. addr = d * (addr \div d) + (addr % d)
    BY <1>1
  <2> QED BY <1>1, <2>1, <2>2, <2>3
<1>3. d * q = q * d /\ (q + 1) * d = q * d + d /\ q * d \in Nat
  BY <1>1
<1>4. q * d <= addr /\ addr < (q + 1) * d /\ (r = 0 <=> addr = q * d)
  BY <1>1, <1>2, <1>3
<1> QED BY <1>1, <1>2, <1>4 DEF PageOf

LEMMA PageBelow ==
    ASSUME NEW addr \in Nat, NEW n \in Int
    PROVE  /\ addr < n * PageSize => PageOf(addr) < n
           /\ n * PageSize <= addr => n <= PageOf(addr)
<1>1. /\ PageOf(addr) \in Nat
      /\ PageOf(addr) * PageSize <= addr /\ addr < (PageOf(addr) + 1) * PageSize
  BY PageFound
<1>2. PICK q \in Nat : q = PageOf(addr)
  BY <1>1
<1>3. /\ q * PageSize \in Int /\ n * PageSize \in Int /\ (q + 1) * PageSize \in Int
      /\ q * PageSize < n * PageSize => q < n
      /\ n * PageSize < (q + 1) * PageSize => n < q + 1
  BY Multiples
<1>4. addr < n * PageSize => q < n
  BY <1>1, <1>2, <1>3
<1>5. n * PageSize <= addr => n < q + 1
  BY <1>1, <1>2, <1>3
<1> QED BY <1>2, <1>4, <1>5

LEMMA PageGrows ==
    ASSUME NEW x \in Nat, NEW y \in Nat, x <= y
    PROVE  PageOf(x) <= PageOf(y)
<1>1. PageOf(x) \in Nat /\ PageOf(x) * PageSize <= x
  BY PageFound
<1>2. PageOf(x) * PageSize \in Int
  BY <1>1, Multiples
<1>3. PageOf(x) * PageSize <= y
  BY <1>1, <1>2
<1> QED BY <1>1, <1>3, PageBelow

(* Where a program's pages are: read-only segment, writable segment and     *)
(* stack apart, and the heap begins in a page that is mapped.               *)
LEMMA ProgramPages ==
    ASSUME NEW p \in Programs
    PROVE  /\ p.rw \in VPages /\ p.ro \subseteq VPages /\ RwPages(p) \subseteq VPages
           /\ StackTop \in VPages /\ ExtraPages(p) \subseteq VPages
           /\ p.ro \cap RwPages(p) = {} /\ p.ro \cap ExtraPages(p) = {}
           /\ StackTop \notin p.ro \cup RwPages(p) \cup ExtraPages(p)
           /\ HeapStart(p) \in Nat /\ HeapStart(p) < StackTop * PageSize
           /\ p.rw .. PageOf(HeapStart(p)) \subseteq RwPages(p) \cup ExtraPages(p)
           /\ \A v \in p.ro \cup ExtraPages(p) : v <= PageOf(HeapStart(p))
           /\ EndsInFile(p) => /\ RwPages(p) \cap ExtraPages(p) = {}
                               /\ \A v \in RwPages(p) : v <= PageOf(HeapStart(p))
<1>1. PICK rw \in Nat, size \in Nat, memsize \in Nat :
         /\ rw = p.rw /\ size = p.size /\ memsize = p.memsize /\ size <= memsize
         /\ rw >= 1 /\ rw <= StackTop /\ p.ro \subseteq 1 .. (rw - 1)
         /\ rw * PageSize + memsize < StackTop * PageSize
  BY MemoryAssumption DEF VPages
<1>2. PICK base \in Nat, top \in Nat : base = rw * PageSize /\ top = StackTop * PageSize
  BY FrameSets
<1>3. PICK up \in Nat : up = memsize + PageSize - 1 /\ up + 1 = memsize + PageSize
  BY FrameSets
<1>4. PICK c \in Nat : /\ c = PageOf(up) /\ c * PageSize <= up /\ up < (c + 1) * PageSize
  BY PageFound
<1>5. RwPages(p) = rw .. (rw + c - 1)
  BY <1>1, <1>3, <1>4 DEF RwPages, PageOf
<1>6. memsize <= c * PageSize /\ c * PageSize \in Int
  <2>1. (c + 1) * PageSize = c * PageSize + 1 * PageSize /\ c * PageSize \in Int
    BY Multiples
  <2>2. 1 * PageSize = PageSize
    BY FrameSets
  <2> QED BY <1>3, <1>4, <2>1, <2>2, FrameSets
<1>7. rw + c <= StackTop
  <2>1. /\ (rw + c) * PageSize = rw * PageSize + c * PageSize
        /\ (StackTop + 1) * PageSize = StackTop * PageSize + 1 * PageSize
        /\ (rw + c) * PageSize \in Int
    BY Multiples, FrameSets
  <2>2. 1 * PageSize = PageSize
    BY FrameSets
  <2>3. (rw + c) * PageSize < (StackTop + 1) * PageSize
    BY <1>1, <1>2, <1>3, <1>4, <1>6, <2>1, <2>2, FrameSets
  <2>4. rw + c < StackTop + 1
    BY <2>3, Multiples, FrameSets
  <2> QED BY <2>4, FrameSets
<1>8. PICK hs \in Nat : hs = HeapStart(p) /\ hs = base + size
  BY <1>1, <1>2 DEF HeapStart
<1>9. hs < top /\ base <= hs /\ hs >= 1
  <2>1. base >= 1
    <3>1. 1 * PageSize <= rw * PageSize /\ 1 * PageSize = PageSize
      BY <1>1, Multiples, FrameSets
    <3> QED BY <1>2, <3>1, FrameSets
  <2> QED BY <1>1, <1>2, <1>8, <2>1
<1>10. PICK q \in Nat : q = PageOf(hs) /\ rw <= q /\ q < StackTop
  <2>1. PageOf(hs) \in Nat /\ PageOf(hs) < StackTop /\ rw <= PageOf(hs)
    BY <1>2, <1>9, PageFound, PageBelow, FrameSets
  <2> QED BY <2>1
<1>11. ExtraPages(p) = IF hs % PageSize = 0 THEN {q} ELSE {}
  BY <1>8, <1>10 DEF ExtraPages
<1>a. ExtraPages(p) \subseteq {q}
  BY <1>11
<1>b. /\ rw = p.rw /\ rw >= 1 /\ rw <= StackTop /\ p.ro \subseteq 1 .. (rw - 1)
      /\ rw <= q /\ q < StackTop /\ StackTop \in Nat
  BY <1>1, <1>10, FrameSets
<1>12. /\ p.rw \in VPages /\ p.ro \subseteq VPages /\ RwPages(p) \subseteq VPages
       /\ StackTop \in VPages /\ ExtraPages(p) \subseteq VPages
  <2>1. p.rw \in VPages /\ p.ro \subseteq VPages /\ StackTop \in VPages
    BY <1>b DEF VPages
  <2>2. RwPages(p) \subseteq VPages
    BY <1>5, <1>7, <1>b DEF VPages
  <2>3. ExtraPages(p) \subseteq VPages
    BY <1>a, <1>b DEF VPages
  <2> QED BY <2>1, <2>2, <2>3
<1>13. /\ p.ro \cap RwPages(p) = {} /\ p.ro \cap ExtraPages(p) = {}
       /\ StackTop \notin p.ro \cup RwPages(p) \cup ExtraPages(p)
  BY <1>5, <1>7, <1>a, <1>b
<1>14. ASSUME NEW v \in rw .. q PROVE v \in RwPages(p) \cup ExtraPages(p)
  <2>1. hs <= (rw + c) * PageSize
    <3>1. (rw + c) * PageSize = rw * PageSize + c * PageSize
      BY Multiples
    <3> QED BY <1>1, <1>2, <1>6, <1>8, <3>1
  <2>2. q * PageSize <= hs /\ (hs % PageSize = 0 <=> hs = q * PageSize)
    BY <1>10, PageFound
  <2>3. CASE v = q /\ hs % PageSize = 0
    BY <1>11, <2>3
  <2>4. CASE v = q /\ hs % PageSize # 0
    <3>1. q * PageSize \in Int /\ (rw + c) * PageSize \in Int
      BY Multiples
    <3>2. q * PageSize < (rw + c) * PageSize
      BY <2>1, <2>2, <2>4, <3>1
    <3>3. q < rw + c
      BY <3>2, Multiples
    <3> QED BY <1>5, <2>4, <3>3
  <2>5. CASE v # q
    <3>1. v \in Nat /\ v < q
      BY <2>5
    <3>2. v * PageSize < q * PageSize
      <4>1. (v + 1) * PageSize <= q * PageSize
        BY <3>1, Multiples
      <4>2. (v + 1) * PageSize = v * PageSize + 1 * PageSize /\ v * PageSize \in Int /\ q * PageSize \in Int
        BY <3>1, Multiples
      <4>3. 1 * PageSize = PageSize
        BY FrameSets
      <4> QED BY <4>1, <4>2, <4>3, FrameSets
    <3>3. v * PageSize \in Int /\ q * PageSize \in Int /\ (rw + c) * PageSize \in Int
      BY <3>1, Multiples
    <3>4. v * PageSize < (rw + c) * PageSize
      BY <2>1, <2>2, <3>2, <3>3
    <3>5. v < rw + c
      BY <3>1, <3>4, Multiples
    <3> QED BY <1>5, <3>1, <3>5
  <2> QED BY <2>3, <2>4, <2>5
<1>15. \A v \in p.ro \cup ExtraPages(p) : v <= q
  BY <1>1, <1>10, <1>11
<1>16. ASSUME EndsInFile(p)
       PROVE  RwPages(p) \cap ExtraPages(p) = {} /\ \A v \in RwPages(p) : v <= q
  <2>1. PICK e \in Nat : e = PageOf(hs - 1) /\ e * PageSize <= hs - 1 /\ e <= q
    <3>1. hs - 1 \in Nat /\ hs - 1 <= hs
      BY <1>9
    <3>2. PageOf(hs - 1) \in Nat /\ PageOf(hs - 1) * PageSize <= hs - 1 /\ PageOf(hs - 1) <= PageOf(hs)
      BY <3>1, PageFound, PageGrows
    <3> QED BY <1>10, <3>2
  <2>2. RwPages(p) \cap ((e + 1) .. StackTop) = {}
    BY <1>8, <1>16, <2>1 DEF EndsInFile
  <2>3. \A v \in RwPages(p) : v <= e
    BY <1>5, <1>7, <2>2, FrameSets
  <2>4. hs % PageSize = 0 => e < q
    <3>1. hs % PageSize = 0 => hs = q * PageSize
      BY <1>10, PageFound
    <3>2. e * PageSize \in Int /\ q * PageSize \in Int
      BY Multiples
    <3>3. hs % PageSize = 0 => e * PageSize < q * PageSize
      BY <2>1, <3>1, <3>2
    <3> QED BY <3>3, Multiples
  <2>5. RwPages(p) \cap ExtraPages(p) = {}
    <3>1. CASE hs % PageSize = 0
      <4>1. q \notin RwPages(p)
        BY <2>3, <2>4, <3>1
      <4> QED BY <1>a, <4>1
    <3>2. CASE hs % PageSize # 0
      BY <1>11, <3>2
    <3> QED BY <3>1, <3>2
  <2>6. \A v \in RwPages(p) : v <= q
    BY <1>5, <2>1, <2>3
  <2> QED BY <2>5, <2>6
<1>17. HeapStart(p) \in Nat /\ HeapStart(p) < StackTop * PageSize
  BY <1>2, <1>8, <1>9
<1> QED BY <1>1, <1>8, <1>10, <1>12, <1>13, <1>14, <1>15, <1>16, <1>17
-----------------------------------------------------------------------------
(* Pages that are taken *)

Took(n) == {NthFree(k) : k \in 1 .. n}

LEMMA Taken ==
    ASSUME mem_free \subseteq Frames, NEW n \in Nat, n <= Cardinality(mem_free)
    PROVE  /\ Took(n) \subseteq mem_free
           /\ \A j, k \in 1 .. n : NthFree(j) = NthFree(k) => j = k
           /\ TakePages(n) => /\ mem_free' = mem_free \ Took(n)
                              /\ Cardinality(mem_free') = Cardinality(mem_free) - n
<1>1. IsFiniteSet(mem_free) /\ mem_free \subseteq Int /\ Cardinality(mem_free) \in Nat
  BY FreeFinite
<1>2. Took(n) = Firsts(mem_free, n)
  BY DEF Took, NthFree, Firsts
<1>3. /\ Took(n) \subseteq mem_free
      /\ Cardinality(mem_free \ Took(n)) = Cardinality(mem_free) - n
  <2>1. IsFiniteSet(mem_free)
    BY <1>1
  <2>2. mem_free \subseteq Int
    BY <1>1
  <2>3. /\ Firsts(mem_free, n) \subseteq mem_free
        /\ Cardinality(mem_free \ Firsts(mem_free, n)) = Cardinality(mem_free) - n
    BY <2>1, <2>2, FirstN
  <2> QED BY <1>2, <2>3
<1>4. \A k \in 1 .. n : k \in 1 .. Cardinality(mem_free)
  BY <1>1
<1>5. \A j, k \in 1 .. n : NthFree(j) = NthFree(k) => j = k
  BY <1>1, <1>4, NthFound DEF NthFree
<1>6. TakePages(n) => mem_free' = mem_free \ Took(n)
  BY DEF TakePages, Took
<1> QED BY <1>3, <1>5, <1>6

(* One vm_map after another. *)
LEMMA FreshTwice ==
    ASSUME NEW map, NEW one, NEW two, NEW P \in SUBSET VPages, NEW Q \in SUBSET VPages,
           P \cap Q = {}, NEW i \in Nat, NEW j \in Nat, NEW k \in Nat, i <= j, j <= k,
           mem_free \subseteq Frames, k <= Cardinality(mem_free),
           Fresh(one, map, P, i, j), Fresh(two, one, Q, j, k)
    PROVE  Fresh(two, map, P \cup Q, i, k)
<1>1. two \in [VPages -> PageType] /\ Mapped(two) = Mapped(map) \cup (P \cup Q)
  BY DEF Fresh
<1>2. \A v \in VPages \ (P \cup Q) : two[v] = map[v]
  BY DEF Fresh
<1>3. \A v \in P : two[v] = one[v]
  BY DEF Fresh
<1>4. \A n \in (i + 1) .. j : n \in (i + 1) .. k
  OBVIOUS
<1>5. \A n \in (j + 1) .. k : n \in (i + 1) .. k
  OBVIOUS
<1>6. \A v \in P \cup Q : \E n \in (i + 1) .. k : two[v].frame = NthFree(n)
  BY <1>3, <1>4, <1>5 DEF Fresh
<1>7. ASSUME NEW n \in (i + 1) .. k PROVE \E v \in P \cup Q : two[v].frame = NthFree(n)
  <2>1. n \in (i + 1) .. j \/ n \in (j + 1) .. k
    OBVIOUS
  <2>2. CASE n \in (i + 1) .. j
    BY <1>3, <2>2 DEF Fresh
  <2>3. CASE n \in (j + 1) .. k
    BY <2>3 DEF Fresh
  <2> QED BY <2>1, <2>2, <2>3
<1>8. \A m, n \in 1 .. k : NthFree(m) = NthFree(n) => m = n
  BY Taken
<1>9. ASSUME NEW v \in P, NEW w \in Q PROVE two[v].frame # two[w].frame
  <2>1. PICK m \in (i + 1) .. j : two[v].frame = NthFree(m)
    BY <1>3 DEF Fresh
  <2>2. PICK n \in (j + 1) .. k : two[w].frame = NthFree(n)
    BY DEF Fresh
  <2>3. m \in 1 .. k /\ n \in 1 .. k /\ m # n
    OBVIOUS
  <2> QED BY <1>8, <2>1, <2>2, <2>3
<1>10. \A v, w \in P \cup Q : two[v].frame = two[w].frame => v = w
  <2>1. \A v, w \in P : two[v].frame = two[w].frame => v = w
    BY <1>3 DEF Fresh
  <2>2. \A v, w \in Q : two[v].frame = two[w].frame => v = w
    BY DEF Fresh
  <2> QED BY <1>9, <2>1, <2>2
<1> QED BY <1>1, <1>2, <1>6, <1>7, <1>10 DEF Fresh

(* The page table of a new process. *)
LEMMA NewTable ==
    ASSUME mem_free \subseteq Frames, NEW n \in Nat, 1 <= n, n <= Cardinality(mem_free),
           NEW m, NEW P \in SUBSET VPages, Fresh(m, NoTable.map, P, 1, n), NEW t,
           t = [page |-> NthFree(1), map |-> m]
    PROVE  /\ t \in TableType /\ Mapped(t.map) = P
           /\ Holding(t) = Took(n) /\ PagesApart(t)
<1>1. /\ Took(n) \subseteq mem_free /\ \A j, k \in 1 .. n : NthFree(j) = NthFree(k) => j = k
  BY Taken
<1>2. Mapped(m) = P /\ t.map = m /\ t.page = NthFree(1)
  BY FrameSets DEF Fresh
<1>3. 1 \in 1 .. n /\ \A k \in (1 + 1) .. n : k \in 1 .. n /\ k # 1
  OBVIOUS
<1>4. NthFree(1) \in Took(n)
  BY <1>3 DEF Took
<1>5. t \in TableType
  <2>1. m \in [VPages -> PageType] /\ NthFree(1) \in Frames
    BY <1>1, <1>4 DEF Fresh
  <2> QED BY <2>1 DEF TableType
<1>6. \A v \in P : \E k \in (1 + 1) .. n : m[v].frame = NthFree(k)
  BY DEF Fresh
<1>7. Holding(t) \subseteq Took(n)
  BY <1>2, <1>3, <1>4, <1>6 DEF Holding, Took
<1>8. ASSUME NEW f \in Took(n) PROVE f \in Holding(t)
  <2>1. PICK k \in 1 .. n : f = NthFree(k)
    BY DEF Took
  <2>2. CASE k = 1
    BY <1>2, <2>1, <2>2 DEF Holding
  <2>3. CASE k # 1
    <3>1. k \in (1 + 1) .. n
      BY <2>3
    <3>2. PICK v \in P : m[v].frame = NthFree(k)
      BY <3>1 DEF Fresh
    <3> QED BY <1>2, <2>1, <3>2 DEF Holding
  <2> QED BY <2>2, <2>3
<1>9. \A v \in P : m[v].frame # NthFree(1)
  BY <1>1, <1>3, <1>6
<1>10. \A v, w \in P : m[v].frame = m[w].frame => v = w
  BY DEF Fresh
<1>11. PagesApart(t)
  BY <1>2, <1>9, <1>10 DEF PagesApart
<1> QED BY <1>2, <1>5, <1>7, <1>8, <1>11

(* The page table of a process that got more. *)
WithMap(t, old, m) == t = [old EXCEPT !.map = m]

LEMMA GrownTable ==
    ASSUME mem_free \subseteq Frames, NEW n \in Nat, n <= Cardinality(mem_free),
           NEW old \in TableType, Holding(old) \cap mem_free = {}, PagesApart(old),
           NEW m, NEW P \in SUBSET VPages, P \cap Mapped(old.map) = {},
           Fresh(m, old.map, P, 0, n), NEW t, WithMap(t, old, m)
    PROVE  /\ t \in TableType /\ Mapped(t.map) = Mapped(old.map) \cup P
           /\ Holding(t) = Holding(old) \cup Took(n) /\ PagesApart(t)
<1>1. /\ Took(n) \subseteq mem_free /\ \A j, k \in 1 .. n : NthFree(j) = NthFree(k) => j = k
  BY Taken
<1>2. /\ t.map = m /\ t.page = old.page /\ t \in TableType
      /\ m \in [VPages -> PageType]
  BY DEF Fresh, TableType, WithMap
<1>3. Mapped(m) = Mapped(old.map) \cup P
  BY DEF Fresh
<1>4. \A v \in Mapped(old.map) : m[v] = old.map[v]
  BY DEF Fresh, Mapped
<1>5. /\ \A v \in P : \E k \in 1 .. n : m[v].frame = NthFree(k)
      /\ \A k \in 1 .. n : \E v \in P : m[v].frame = NthFree(k)
      /\ \A v, w \in P : m[v].frame = m[w].frame => v = w
  <2>1. 0 + 1 = 1
    OBVIOUS
  <2> QED BY <2>1 DEF Fresh
<1>6. \A v \in P : m[v].frame \in Took(n)
  BY <1>5 DEF Took
<1>7. \A f \in Took(n) : \E v \in P : m[v].frame = f
  BY <1>5 DEF Took
<1>8. Holding(t) = Holding(old) \cup Took(n)
  BY <1>2, <1>3, <1>4, <1>6, <1>7 DEF Holding
<1>9. \A v \in Mapped(old.map) : old.map[v].frame \notin Took(n)
  BY <1>1 DEF Holding
<1>10. old.page \notin Took(n)
  BY <1>1 DEF Holding
<1>11. ASSUME NEW v \in Mapped(m)
       PROVE  m[v].frame # old.page /\ \A w \in Mapped(m) : m[v].frame = m[w].frame => v = w
  <2>1. CASE v \in P
    BY <1>3, <1>4, <1>5, <1>6, <1>9, <1>10, <2>1
  <2>2. CASE v \in Mapped(old.map)
    BY <1>3, <1>4, <1>6, <1>9, <2>2 DEF PagesApart
  <2> QED BY <1>3, <2>1, <2>2
<1>12. PagesApart(t)
  BY <1>2, <1>11 DEF PagesApart
<1> QED BY <1>2, <1>3, <1>8, <1>12

(* The page pool and the page tables agree after pages were taken for one   *)
(* process.                                                                 *)
LEMMA FramesGrow ==
    ASSUME MemTypeOK, FramesOwnedOnce, NEW a \in Asids, NEW t \in TableType,
           NEW n \in Nat, n <= Cardinality(mem_free), TakePages(n),
           table' = [table EXCEPT ![a] = t], UNCHANGED gone, Live' = Live \cup {a},
           PagesApart(t), NEW old, old = (IF a \in Live THEN Holding(table[a]) ELSE {}),
           Holding(t) = old \cup Took(n)
    PROVE  FramesOwnedOnce' /\ mem_free' \subseteq Frames /\ mem_num_free' \in 0 .. NumFrames
<1>1. mem_free \subseteq Frames /\ Took(n) \subseteq mem_free
  BY Taken DEF MemTypeOK
<1>2. /\ mem_free' = mem_free \ Took(n)
      /\ Cardinality(mem_free') = Cardinality(mem_free) - n
  BY <1>1, Taken
<1>3. mem_num_free' = Cardinality(mem_free')
  BY <1>2 DEF TakePages, FramesOwnedOnce
<1>4. mem_free' \subseteq Frames /\ mem_num_free' \in 0 .. NumFrames
  <2>1. mem_free' \subseteq Frames
    BY <1>1, <1>2
  <2>2. Cardinality(mem_free') \in Nat /\ Cardinality(mem_free') <= NumFrames
    BY <2>1, FreeFinite
  <2> QED BY <1>3, <2>1, <2>2, FrameSets
<1>5. table'[a] = t /\ \A b \in Asids \ {a} : table'[b] = table[b]
  BY DEF MemTypeOK
<1>6. Live \subseteq Asids /\ \A b \in Live' : b # a => b \in Live
  BY DEF Live
<1>7. ASSUME NEW b \in Live, b # a
      PROVE  /\ Holding(table[b]) \cap Holding(t) = {}
             /\ Holding(table[b]) \subseteq Frames \ (mem_free \cup gone)
  <2>1. /\ Holding(table[b]) \subseteq Frames \ (mem_free \cup gone)
        /\ a \in Live => Holding(table[a]) \cap Holding(table[b]) = {}
    BY <1>7 DEF FramesOwnedOnce
  <2> QED BY <1>1, <2>1
<1>8. Holding(t) \subseteq Frames \ (mem_free' \cup gone)
  <2>1. old \subseteq Frames \ (mem_free \cup gone)
    BY DEF FramesOwnedOnce
  <2>2. mem_free \cap gone = {}
    BY DEF FramesOwnedOnce
  <2> QED BY <1>1, <1>2, <2>1, <2>2
<1>9. mem_free' \cap gone' = {}
  BY <1>2 DEF FramesOwnedOnce
<1>10. ASSUME NEW f \in Frames
       PROVE  f \in mem_free' \cup gone' \/ \E b \in Live' : f \in Holding(table'[b])
  <2>1. CASE f \in mem_free \cup gone
    BY <1>2, <1>5, <2>1
  <2>2. CASE ~(f \in mem_free \cup gone)
    <3>1. PICK b \in Live : f \in Holding(table[b])
      BY <2>2 DEF FramesOwnedOnce
    <3>2. CASE b = a
      BY <1>5, <3>1, <3>2
    <3>3. CASE b # a
      BY <1>5, <1>6, <3>1, <3>3
    <3> QED BY <3>2, <3>3
  <2> QED BY <2>1, <2>2
<1>11. \A b \in Asids \ Live' : table'[b] = NoTable
  BY <1>5 DEF FramesOwnedOnce
<1>12. ASSUME NEW b \in Live'
       PROVE  /\ Holding(table'[b]) \subseteq Frames \ (mem_free' \cup gone')
              /\ PagesApart(table'[b])
              /\ \A c \in Live' : Holding(table'[b]) \cap Holding(table'[c]) # {} => b = c
  <2>1. CASE b = a
    BY <1>5, <1>6, <1>7, <1>8, <2>1
  <2>2. CASE b # a
    <3>1. b \in Live /\ b \in Asids /\ table'[b] = table[b]
      BY <1>5, <1>6, <2>2
    <3>2. \A c \in Live' : Holding(table'[b]) \cap Holding(table'[c]) # {} => b = c
      <4>1. \A c \in Live : Holding(table[b]) \cap Holding(table[c]) # {} => b = c
        BY <3>1 DEF FramesOwnedOnce
      <4> QED BY <1>5, <1>6, <1>7, <2>2, <3>1, <4>1
    <3>3. PagesApart(table[b])
      BY <3>1 DEF FramesOwnedOnce
    <3> QED BY <1>2, <1>7, <2>2, <3>1, <3>2, <3>3
  <2> QED BY <2>1, <2>2
<1>13. FramesOwnedOnce'
  BY <1>3, <1>9, <1>10, <1>11, <1>12 DEF FramesOwnedOnce
<1> QED BY <1>4, <1>13
-----------------------------------------------------------------------------
(* What all steps have in common *)

MemGood == MemInv /\ HeapUsable /\ TlbOK

LEMMA TableFields ==
    ASSUME MemTypeOK, NEW a \in Asids
    PROVE  /\ table[a] \in TableType /\ table[a].page \in Frames \cup {NoFrame}
           /\ table[a].map \in [VPages -> PageType]
           /\ \A v \in VPages : table[a].map[v].frame \in Frames \cup {NoFrame}
           /\ proc[a] \in ProcType /\ proc[a].heap_end \in Nat
           /\ proc[a].pc \in {"none", "loading", "running"} /\ proc[a].todo \in Nat
<1>1. table[a] \in TableType /\ proc[a] \in ProcType
  BY DEF MemTypeOK
<1>2. table[a].page \in Frames \cup {NoFrame} /\ table[a].map \in [VPages -> PageType]
  BY <1>1 DEF TableType
<1>3. \A v \in VPages : table[a].map[v].frame \in Frames \cup {NoFrame}
  BY <1>2 DEF PageType
<1>4. /\ proc[a].heap_end \in Nat /\ proc[a].todo \in Nat
      /\ proc[a].pc \in {"none", "loading", "running"}
  BY <1>1 DEF ProcType
<1> QED BY <1>1, <1>2, <1>3, <1>4

(* A mapped page has a frame. *)
LEMMA MappedFrames ==
    ASSUME MemInv, NEW a \in Asids, NEW v \in Mapped(table[a].map)
    PROVE  a \in Live /\ v \in VPages /\ table[a].map[v].frame \in Frames
<1>1. MemTypeOK /\ FramesOwnedOnce /\ v \in VPages
  BY DEF MemInv, Mapped
<1>2. a \in Live
  BY <1>1, FrameSets DEF FramesOwnedOnce
<1>3. table[a].map[v].frame \in Frames
  BY <1>1, <1>2 DEF FramesOwnedOnce, Holding
<1> QED BY <1>1, <1>2, <1>3

(* What a process r with page table t has to be. *)
ProcessOK(t, r) ==
    /\ t \in TableType /\ PagesApart(t) /\ ValidCount(t.map) <= TableEntries
    /\ r \in ProcType /\ r.pc # "none" /\ r.program \in Programs
    /\ r.pc = "loading" => r.todo > 0
    /\ r.heap_end < StackTop * PageSize
    /\ r.program.rw .. PageOf(r.heap_end) \subseteq Mapped(t.map)

HeapBelow(t, r) == \A v \in Mapped(t.map) : v <= PageOf(r.heap_end) \/ v = StackTop

OldPages(a) == IF a \in Live THEN Holding(table[a]) ELSE {}

(* A process that goes on keeps its pages where they are, and its write     *)
(* protection, to which a start adds that of the read-only segment.         *)
KeepsPages(a, t, r) ==
    a \in Live =>
       /\ r.program = proc[a].program /\ (proc[a].pc = "running" => r.pc = "running")
       /\ \A v \in Mapped(table[a].map) :
             /\ t.map[v].frame = table[a].map[v].frame
             /\ t.map[v].dirty # table[a].map[v].dirty =>
                   ~t.map[v].dirty /\ v \in r.program.ro /\ r.pc = "running"

(* What an entry says of a page v, by the page table and the process.       *)
Says(half, page, v, r) ==
    /\ half.frame = page.frame
    /\ half.dirty # page.dirty => half.dirty /\ v \in r.program.ro /\ r.pc = "running"

(* The pages of an entry, and what the two promises say of them. *)
LEMMA EntryPages ==
    ASSUME MemGood, NEW e \in tlb, NEW h \in Valid(e)
    PROVE  /\ h \in {0, 1} /\ e.half[h] # Unmapped /\ e.asid \in Asids
           /\ e.half[h].dirty \in BOOLEAN
           /\ \/ e.half[h].frame \in gone
              \/ /\ e.asid \in Live
                 /\ PageAt(e, h) \in Mapped(table[e.asid].map)
                 /\ e.half[h].frame = table[e.asid].map[PageAt(e, h)].frame
           /\ e.asid \notin veteran =>
                 /\ e.asid \in Live /\ PageAt(e, h) \in Mapped(table[e.asid].map)
                 /\ Says(e.half[h], table[e.asid].map[PageAt(e, h)], PageAt(e, h), proc[e.asid])
<1>1. MemTypeOK /\ EntriesOwned /\ OwnOrGone /\ FirstUseTranslates
  BY DEF MemGood, MemInv, TlbOK
<1>2. h \in {0, 1} /\ e.half[h] # Unmapped
  BY DEF Valid
<1>3. e.asid \in Asids /\ e.half[h] \in PageType
  BY <1>1, <1>2 DEF MemTypeOK, EntryType
<1>4. e.half[h].dirty \in BOOLEAN
  BY <1>3 DEF PageType
<1>5. \/ e.half[h].frame \in gone
      \/ /\ e.asid \in Live
         /\ PageAt(e, h) \in Mapped(table[e.asid].map)
         /\ e.half[h].frame = table[e.asid].map[PageAt(e, h)].frame
  BY <1>1 DEF OwnOrGone
<1>6. ASSUME e.asid \notin veteran
      PROVE  /\ e.asid \in Live /\ PageAt(e, h) \in Mapped(table[e.asid].map)
             /\ Says(e.half[h], table[e.asid].map[PageAt(e, h)], PageAt(e, h), proc[e.asid])
  <2>1. e.asid \in Live /\ PageAt(e, h) \in VPages /\ e.half[h].frame # NoFrame
    BY <1>1, <1>6 DEF EntriesOwned, PageAt
  <2>2. Says(e.half[h], table[e.asid].map[PageAt(e, h)], PageAt(e, h), proc[e.asid])
    BY <1>1, <1>6 DEF FirstUseTranslates, Says
  <2>3. table[e.asid].map[PageAt(e, h)] # Unmapped
    BY <2>1, <2>2 DEF Says, Unmapped
  <2> QED BY <2>1, <2>2, <2>3 DEF Mapped
<1> QED BY <1>2, <1>3, <1>4, <1>5, <1>6

LEMMA DuplicatesSame ==
    ASSUME DuplicatesExplained, tlb' = tlb, veteran' = veteran
    PROVE  DuplicatesExplained'
BY DEF DuplicatesExplained, Valid

(* A step in which one process gets pages for its page table. *)
Grows(a, t, r, n) ==
    /\ TakePages(n)
    /\ table' = [table EXCEPT ![a] = t]
    /\ proc' = [proc EXCEPT ![a] = r]
    /\ UNCHANGED <<tlb, mem_halt, gone, veteran>>

PartialGrows(t, r) ==
    /\ partial' \in BOOLEAN /\ (partial => partial')
    /\ ~partial' /\ (\A p \in Programs : EndsInFile(p)) => HeapBelow(t, r)

LEMMA GrowStep ==
    ASSUME MemGood, NEW a \in Asids, NEW t, NEW r, ProcessOK(t, r),
           NEW n \in Nat, n <= Cardinality(mem_free), Grows(a, t, r, n),
           PartialGrows(t, r), Holding(t) = OldPages(a) \cup Took(n), KeepsPages(a, t, r)
    PROVE  MemGood'
<1> USE DEF ProcessOK, HeapBelow, PartialGrows, Grows
<1>a. MemInv /\ MemTypeOK /\ FramesOwnedOnce /\ HeapsApart /\ EntriesOwned
  BY DEF MemGood, MemInv
<1>b. HeapMapped /\ RemapExplained /\ OwnOrGone /\ FirstUseTranslates /\ DuplicatesExplained
  BY DEF MemGood, HeapUsable, TlbOK
<1>1. /\ table'[a] = t /\ \A b \in Asids \ {a} : table'[b] = table[b]
      /\ proc'[a] = r /\ \A b \in Asids \ {a} : proc'[b] = proc[b]
      /\ table' \in [Asids -> TableType] /\ proc' \in [Asids -> ProcType]
  BY <1>a DEF MemTypeOK
<1>2. Live' = Live \cup {a}
  BY <1>1 DEF Live
<1>3. FramesOwnedOnce' /\ mem_free' \subseteq Frames /\ mem_num_free' \in 0 .. NumFrames
  BY <1>a, <1>2, FramesGrow DEF OldPages
<1>4. MemTypeOK'
  <2>1. \A b \in Asids : ValidCount(table'[b].map) <= TableEntries
    BY <1>a, <1>1 DEF MemTypeOK
  <2>2. \A b \in Asids : proc'[b].pc = "loading" => proc'[b].todo > 0
    BY <1>a, <1>1 DEF MemTypeOK
  <2> QED BY <1>a, <1>1, <1>3, <2>1, <2>2 DEF MemTypeOK
<1>5. HeapsApart'
  <2> SUFFICES ASSUME NEW b \in Live'
               PROVE  /\ proc'[b].program \in Programs
                      /\ proc'[b].heap_end < StackTop * PageSize
                      /\ ~partial' /\ (\A p \in Programs : EndsInFile(p)) =>
                            \A v \in Mapped(table'[b].map) :
                               v <= PageOf(proc'[b].heap_end) \/ v = StackTop
    BY DEF HeapsApart
  <2>1. CASE b = a
    BY <1>1, <2>1
  <2>2. CASE b # a
    <3>1. b \in Live /\ b \in Asids
      BY <1>2, <2>2 DEF Live
    <3> QED BY <1>a, <1>1, <2>2, <3>1 DEF HeapsApart
  <2> QED BY <2>1, <2>2
<1>6. EntriesOwned'
  BY <1>a, <1>2 DEF EntriesOwned
<1>7. HeapMapped'
  <2> SUFFICES ASSUME NEW b \in Live'
               PROVE  proc'[b].program.rw .. PageOf(proc'[b].heap_end) \subseteq Mapped(table'[b].map)
    BY DEF HeapMapped
  <2>1. CASE b = a
    BY <1>1, <2>1
  <2>2. CASE b # a
    <3>1. b \in Live /\ b \in Asids
      BY <1>2, <2>2 DEF Live
    <3> QED BY <1>b, <1>1, <2>2, <3>1 DEF HeapMapped
  <2> QED BY <2>1, <2>2
<1>8. RemapExplained'
  BY <1>b DEF RemapExplained
<1>9. ASSUME NEW v \in Mapped(table[a].map)
      PROVE  v \in Mapped(t.map) /\ t.map[v].frame = table[a].map[v].frame
  <2>1. a \in Live /\ v \in VPages /\ table[a].map[v].frame \in Frames
    BY <1>a, MappedFrames
  <2>2. t.map[v].frame = table[a].map[v].frame
    BY <2>1 DEF KeepsPages
  <2> QED BY <2>1, <2>2, FrameSets DEF Mapped, Unmapped
<1>10. DuplicatesExplained'
  <2>1. tlb' = tlb /\ veteran' = veteran
    OBVIOUS
  <2> QED BY <1>b, <2>1, DuplicatesSame
<1>11. OwnOrGone'
  <2> SUFFICES ASSUME NEW e \in tlb, NEW h \in Valid(e), e.half[h].frame \notin gone
               PROVE  /\ e.asid \in Live'
                      /\ PageAt(e, h) \in Mapped(table'[e.asid].map)
                      /\ e.half[h].frame = table'[e.asid].map[PageAt(e, h)].frame
    BY DEF OwnOrGone, Valid, PageAt
  <2>1. /\ e.asid \in Live /\ e.asid \in Asids
        /\ PageAt(e, h) \in Mapped(table[e.asid].map)
        /\ e.half[h].frame = table[e.asid].map[PageAt(e, h)].frame
    BY EntryPages
  <2>2. CASE e.asid = a
    BY <1>1, <1>2, <1>9, <2>1, <2>2
  <2>3. CASE e.asid # a
    BY <1>1, <1>2, <2>1, <2>3
  <2> QED BY <2>2, <2>3
<1>12. FirstUseTranslates'
  <2> SUFFICES ASSUME NEW e \in tlb, e.asid \notin veteran, NEW h \in Valid(e)
               PROVE  Says(e.half[h], table'[e.asid].map[PageAt(e, h)], PageAt(e, h), proc'[e.asid])
    BY DEF FirstUseTranslates, Valid, PageAt, Says
  <2>1. /\ e.asid \in Live /\ e.asid \in Asids /\ e.half[h].dirty \in BOOLEAN
        /\ PageAt(e, h) \in Mapped(table[e.asid].map)
        /\ Says(e.half[h], table[e.asid].map[PageAt(e, h)], PageAt(e, h), proc[e.asid])
    BY EntryPages
  <2>2. CASE e.asid = a
    <3>1. PICK v \in Mapped(table[a].map) : v = PageAt(e, h) /\ v \in VPages
      BY <2>1, <2>2 DEF Mapped
    <3>2. table[a].map[v].dirty \in BOOLEAN /\ t.map[v].dirty \in BOOLEAN
      <4>1. table[a].map \in [VPages -> PageType] /\ t.map \in [VPages -> PageType]
        BY <1>a, TableFields DEF TableType
      <4>2. table[a].map[v] \in PageType /\ t.map[v] \in PageType
        BY <3>1, <4>1
      <4> QED BY <4>2 DEF PageType
    <3>3. Says(e.half[h], table[a].map[v], v, proc[a]) /\ a \in Live
      BY <2>1, <2>2, <3>1
    <3>4. Says(e.half[h], t.map[v], v, r)
      <4>1. /\ r.program = proc[a].program /\ (proc[a].pc = "running" => r.pc = "running")
            /\ t.map[v].frame = table[a].map[v].frame
            /\ t.map[v].dirty # table[a].map[v].dirty =>
                  ~t.map[v].dirty /\ v \in r.program.ro /\ r.pc = "running"
        BY <3>1, <3>3 DEF KeepsPages
      <4>2. CASE t.map[v].dirty = table[a].map[v].dirty
        BY <3>3, <4>1, <4>2 DEF Says
      <4>3. CASE t.map[v].dirty # table[a].map[v].dirty
        BY <2>1, <3>2, <3>3, <4>1, <4>3 DEF Says
      <4> QED BY <4>2, <4>3
    <3> QED BY <1>1, <2>2, <3>1, <3>4
  <2>3. CASE e.asid # a
    BY <1>1, <2>1, <2>3
  <2> QED BY <2>2, <2>3
<1> QED BY <1>3, <1>4, <1>5, <1>6, <1>7, <1>8, <1>10, <1>11, <1>12
        DEF MemGood, MemInv, HeapUsable, TlbOK

(* A panic changes nothing but the reason for it. *)
LEMMA PanicStep ==
    ASSUME MemGood, NEW why \in {"memory", "remap", "full", "not found", "duplicate"},
           MemPanic(why),
           why = "remap" => partial \/ \E p \in Programs : ~EndsInFile(p)
    PROVE  MemGood'
<1>1. UNCHANGED <<mem_free, mem_num_free, table, proc, tlb, gone, veteran, partial>> /\ mem_halt' = why
  BY DEF MemPanic
<1>2. Live' = Live
  BY <1>1 DEF Live
<1>3. MemTypeOK'
  <2>1. mem_halt' \in {"no", "memory", "remap", "full", "not found", "duplicate"}
    BY <1>1
  <2>2. MemTypeOK
    BY DEF MemGood, MemInv
  <2> QED BY <1>1, <2>1, <2>2 DEF MemTypeOK
<1>4. FramesOwnedOnce'
  BY <1>1, <1>2 DEF MemGood, MemInv, FramesOwnedOnce
<1>5. HeapsApart' /\ EntriesOwned'
  BY <1>1, <1>2 DEF MemGood, MemInv, HeapsApart, EntriesOwned, Valid
<1>6. HeapMapped' /\ RemapExplained'
  BY <1>1, <1>2 DEF MemGood, HeapUsable, HeapMapped, RemapExplained
<1>7. OwnOrGone' /\ FirstUseTranslates' /\ DuplicatesExplained'
  <2>1. tlb' = tlb /\ veteran' = veteran /\ table' = table /\ proc' = proc /\ gone' = gone
    BY <1>1
  <2>2. OwnOrGone /\ FirstUseTranslates
    BY DEF MemGood, TlbOK
  <2>4. OwnOrGone'
    BY <1>2, <2>1, <2>2 DEF OwnOrGone, Valid, PageAt
  <2>5. FirstUseTranslates'
    BY <2>1, <2>2 DEF FirstUseTranslates, Valid, PageAt
  <2>3. DuplicatesExplained'
    BY <2>1, DuplicatesSame DEF MemGood, TlbOK
  <2> QED BY <2>3, <2>4, <2>5
<1> QED BY <1>3, <1>4, <1>5, <1>6, <1>7 DEF MemGood, MemInv, HeapUsable, TlbOK

LEMMA PairsCounted ==
    ASSUME NEW S, S \subseteq VPages
    PROVE  Cardinality({Pair(v) : v \in S}) \in Nat
<1> DEFINE T == {Pair(v) : v \in S}
<1>1. \A v \in VPages : Pair(v) \in 0 .. StackTop
  BY FrameSets DEF VPages, Pair
<1>2. T \in SUBSET (0 .. StackTop)
  BY <1>1
<1>3. IsFiniteSet(0 .. StackTop)
  BY FS_Interval, FrameSets
<1>4. IsFiniteSet(T)
  BY <1>2, <1>3, FS_Subset
<1> QED BY <1>4, FS_CardinalityType

(* Finite sets of pages. *)
LEMMA PagesFinite ==
    ASSUME NEW S, S \subseteq VPages
    PROVE  /\ IsFiniteSet(S) /\ S \subseteq Int /\ Cardinality(S) \in Nat
           /\ Lists(Ascending(S), S)
<1>1. S \in SUBSET VPages /\ IsFiniteSet(VPages) /\ S \subseteq Int
  BY FrameSets
<1>2. IsFiniteSet(S)
  BY <1>1, FS_Subset
<1> QED BY <1>1, <1>2, FS_CardinalityType, AscendingLists

LEMMA ImageLists ==
    ASSUME NEW p \in Programs
    PROVE  Lists(ImageOrder(p), p.ro \cup RwPages(p) \cup {StackTop})
<1>1. /\ p.ro \subseteq VPages /\ RwPages(p) \subseteq VPages
      /\ p.ro \cap RwPages(p) = {} /\ StackTop \notin p.ro \cup RwPages(p)
  BY ProgramPages
<1>2. Lists(<<StackTop>>, {StackTop})
  <2>1. <<StackTop>> \in Seq({StackTop}) /\ Len(<<StackTop>>) = 1 /\ <<StackTop>>[1] = StackTop
    OBVIOUS
  <2>2. IsFiniteSet({StackTop}) /\ Cardinality({StackTop}) = 1
    BY FS_Singleton
  <2>3. \A j, k \in 1 .. 1 : j = k
    OBVIOUS
  <2>4. 1 \in 1 .. 1
    OBVIOUS
  <2> QED BY <2>1, <2>2, <2>3, <2>4 DEF Lists
<1>3. Lists(Ascending(p.ro), p.ro) /\ Lists(Ascending(RwPages(p)), RwPages(p))
  BY <1>1, PagesFinite
<1>4. {StackTop} \cap p.ro = {} /\ ({StackTop} \cup p.ro) \cap RwPages(p) = {}
  BY <1>1
<1>5. Lists(<<StackTop>> \o Ascending(p.ro), {StackTop} \cup p.ro)
  BY <1>2, <1>3, <1>4, ConcatLists
<1>6. Lists((<<StackTop>> \o Ascending(p.ro)) \o Ascending(RwPages(p)),
            ({StackTop} \cup p.ro) \cup RwPages(p))
  BY <1>3, <1>4, <1>5, ConcatLists
<1>7. ({StackTop} \cup p.ro) \cup RwPages(p) = p.ro \cup RwPages(p) \cup {StackTop}
  OBVIOUS
<1> QED BY <1>6, <1>7 DEF ImageOrder

LEMMA StartStep ==
    ASSUME MemGood, NEW a \in Asids, NEW p \in Programs, process_start(a, p)
    PROVE  MemGood'
<1> DEFINE image == p.ro \cup RwPages(p) \cup {StackTop}
           extra == ExtraPages(p)
           need  == 1 + Cardinality(image) + Cardinality(extra)
           order == ImageOrder(p)
           one   == vm_map(NoTable.map, order, 1)
           two   == vm_map(one, Ascending(extra), 1 + Len(order))
           fault == IF MapFault(NoTable.map, image) # "no" THEN MapFault(NoTable.map, image)
                    ELSE MapFault(one, extra)
<1>a. MemInv /\ MemTypeOK /\ FramesOwnedOnce /\ mem_free \subseteq Frames
  BY DEF MemGood, MemInv, MemTypeOK
<1>1. image \subseteq VPages /\ extra \subseteq VPages
  BY ProgramPages
<1>2. PICK i \in Nat, x \in Nat : i = Cardinality(image) /\ x = Cardinality(extra) /\ i = Len(order)
  BY <1>1, PagesFinite, ImageLists DEF Lists
<1>3. Cardinality(mem_free) \in Nat
  BY <1>a, FreeFinite
<1>4. CASE need > Cardinality(mem_free)
  <2>1. MemPanic("memory")
    BY <1>4 DEF process_start
  <2> QED BY <2>1, PanicStep
<1>5. CASE ~(need > Cardinality(mem_free))
  <2>1. 1 + i <= Cardinality(mem_free) /\ 1 + i + x <= Cardinality(mem_free)
    BY <1>2, <1>3, <1>5
  <2>2. NoTable.map \in [VPages -> PageType] /\ Mapped(NoTable.map) = {}
    BY FrameSets DEF TableType
  <2>3. Fresh(one, NoTable.map, image, 1, 1 + i)
    <3>1. Lists(order, image) /\ image \in SUBSET VPages /\ 1 \in Nat /\ 1 + i \in Nat
      BY <1>1, ImageLists
    <3> HIDE DEF image, order
    <3> QED BY <1>a, <1>2, <2>1, <2>2, <3>1, MapFresh
  <2>4. Mapped(one) = image /\ one \in [VPages -> PageType]
    BY <2>2, <2>3 DEF Fresh
  <2>5. Fresh(two, one, extra, 1 + i, 1 + i + x)
    <3>1. Lists(Ascending(extra), extra)
      BY <1>1, PagesFinite
    <3> HIDE DEF one, order, extra
    <3>2. Fresh(vm_map(one, Ascending(extra), 1 + i), one, extra, 1 + i, 1 + i + x)
      BY <1>a, <1>1, <1>2, <2>1, <2>4, <3>1, MapFresh
    <3> QED BY <1>2, <3>2
  <2> HIDE DEF one, two, order
  <2>6. CASE fault # "no"
    <3>1. MemPanic(fault)
      BY <1>5, <2>6 DEF process_start, one, two, order
    <3>2. fault \in {"remap", "full"}
      BY <2>6, FaultKinds
    <3>3. ASSUME fault = "remap", EndsInFile(p) PROVE FALSE
      <4>1. extra \cap image # {}
        BY <2>2, <2>4, <3>3, FaultKinds
      <4> QED BY <3>3, <4>1, ProgramPages
    <3>4. fault = "remap" => \E q \in Programs : ~EndsInFile(q)
      BY <3>3
    <3> QED BY <3>1, <3>2, <3>4, PanicStep
  <2>7. CASE fault = "no"
    <3>1. PICK t : t = [page |-> NthFree(1), map |-> two]
      OBVIOUS
    <3>2. PICK r : r = [pc |-> "loading", heap_end |-> HeapStart(p), program |-> p, todo |-> 1]
      OBVIOUS
    <3>3. /\ TakePages(1 + i + x) /\ proc[a].pc = "none"
          /\ table' = [table EXCEPT ![a] = t] /\ proc' = [proc EXCEPT ![a] = r]
          /\ UNCHANGED <<tlb, mem_halt, gone, veteran, partial>>
      BY <1>2, <1>5, <2>7, <3>1, <3>2 DEF process_start, one, two, order
    <3>4. MapFault(one, extra) = "no"
      BY <2>7, FaultKinds
    <3>5. image \cap extra = {}
      BY <2>4, <3>4, NoFault
    <3>6. Fresh(two, NoTable.map, image \cup extra, 1, 1 + i + x)
      BY <1>a, <1>1, <2>1, <2>3, <2>5, <3>5, FreshTwice
    <3>7. /\ t \in TableType /\ Mapped(t.map) = image \cup extra
          /\ Holding(t) = Took(1 + i + x) /\ PagesApart(t)
      BY <1>a, <1>1, <2>1, <3>1, <3>6, NewTable
    <3>8. ValidCount(t.map) <= TableEntries
      <4>1. Mapped(one) \cup extra = Mapped(t.map) /\ Mapped(t.map) \subseteq VPages
        BY <1>1, <2>4, <3>7
      <4>2. ~(ValidCount(t.map) > TableEntries)
        BY <3>4, <4>1, NoFault DEF ValidCount
      <4>3. ValidCount(t.map) \in Nat
        BY <4>1, PairsCounted DEF ValidCount
      <4> QED BY <4>2, <4>3, MemoryAssumption
    <3>9. /\ r \in ProcType /\ r.pc # "none" /\ r.program = p /\ r.heap_end = HeapStart(p)
          /\ r.todo > 0
      BY <3>2, ProgramPages DEF ProcType
    <3>10. a \notin Live
      BY <3>3 DEF Live
    <3>11. r.program.rw .. PageOf(r.heap_end) \subseteq Mapped(t.map)
      BY <3>7, <3>9, ProgramPages
    <3>12. (\A q \in Programs : EndsInFile(q)) =>
              \A v \in Mapped(t.map) : v <= PageOf(r.heap_end) \/ v = StackTop
      BY <3>7, <3>9, ProgramPages
    <3>13. r.heap_end < StackTop * PageSize
      BY <3>9, ProgramPages
    <3>14. partial' \in BOOLEAN /\ partial' = partial
      BY <1>a, <3>3 DEF MemTypeOK
    <3>15. PICK n \in Nat : n = 1 + i + x /\ n <= Cardinality(mem_free)
      BY <2>1
    <3>16. Holding(t) = OldPages(a) \cup Took(n) /\ KeepsPages(a, t, r)
      BY <3>7, <3>10, <3>15 DEF OldPages, KeepsPages
    <3>17. TakePages(n)
      BY <3>3, <3>15
    <3>18. ProcessOK(t, r)
      BY <3>7, <3>8, <3>9, <3>11, <3>13 DEF ProcessOK
    <3>19. (\A q \in Programs : EndsInFile(q)) => HeapBelow(t, r)
      BY <3>12 DEF HeapBelow
    <3>20. PartialGrows(t, r)
      BY <3>14, <3>19, <1>a DEF PartialGrows, MemGood, MemInv, HeapsApart
    <3>21. Grows(a, t, r, n)
      BY <3>3, <3>17 DEF Grows
    <3>22. Holding(t) = OldPages(a) \cup Took(n)
      BY <3>16
    <3>23. KeepsPages(a, t, r)
      BY <3>16
    <3>24. n <= Cardinality(mem_free)
      BY <3>15
    <3> HIDE DEF image, extra
    <3> QED BY <3>18, <3>20, <3>21, <3>22, <3>23, <3>24, GrowStep
  <2> QED BY <2>6, <2>7
<1> QED BY <1>4, <1>5

(* A copy of pages that keeps the write protection of each. *)
LEMMA FreshCopy ==
    ASSUME mem_free \subseteq Frames, NEW n \in Nat, n <= Cardinality(mem_free),
           NEW map \in [VPages -> PageType], NEW copy, Fresh(copy, NoTable.map, Mapped(map), 1, n),
           NEW new, new = [v \in VPages |-> [copy[v] EXCEPT !.dirty = map[v].dirty]]
    PROVE  Fresh(new, NoTable.map, Mapped(map), 1, n)
<1> DEFINE P == Mapped(map)
<1>1. P \subseteq VPages /\ Mapped(NoTable.map) = {}
  BY FrameSets DEF Mapped
<1>2. copy \in [VPages -> PageType]
  BY DEF Fresh
<1>3. \A v \in VPages : new[v] \in PageType /\ new[v].frame = copy[v].frame
                        /\ new[v] = [frame |-> copy[v].frame, dirty |-> map[v].dirty]
  BY <1>2 DEF PageType
<1>4. \A v \in VPages \ P : map[v] = Unmapped /\ copy[v] = Unmapped
  BY DEF Mapped, Fresh, NoTable
<1>5. \A v \in VPages \ P : new[v] = NoTable.map[v]
  BY <1>3, <1>4 DEF Unmapped, NoTable
<1>6. ASSUME NEW v \in P PROVE copy[v].frame \in Frames
  <2>1. PICK k \in (1 + 1) .. n : copy[v].frame = NthFree(k)
    BY DEF Fresh
  <2>2. k \in 1 .. n
    OBVIOUS
  <2>3. NthFree(k) \in Took(n)
    BY <2>2 DEF Took
  <2> QED BY <2>1, <2>3, Taken
<1>7. \A v \in P : new[v] # Unmapped
  BY <1>1, <1>3, <1>6, FrameSets DEF Unmapped
<1>8. Mapped(new) = P
  BY <1>1, <1>5, <1>7 DEF Mapped, NoTable
<1>9. new \in [VPages -> PageType]
  BY <1>3
<1>10. \A v \in P : new[v].frame = copy[v].frame
  BY <1>1, <1>3
<1>11. \A v \in P : \E k \in (1 + 1) .. n : new[v].frame = NthFree(k)
  <2> TAKE v \in P
  <2>1. PICK k \in (1 + 1) .. n : copy[v].frame = NthFree(k)
    BY DEF Fresh
  <2> QED BY <1>10, <2>1
<1>12. \A v, w \in P : new[v].frame = new[w].frame => v = w
  BY <1>10 DEF Fresh
<1>13. \A k \in (1 + 1) .. n : \E v \in P : new[v].frame = NthFree(k)
  <2> TAKE k \in (1 + 1) .. n
  <2>1. PICK v \in P : copy[v].frame = NthFree(k)
    BY DEF Fresh
  <2> QED BY <1>10, <2>1
<1> QED BY <1>1, <1>5, <1>8, <1>9, <1>11, <1>12, <1>13 DEF Fresh

(* A fork copies the pages of the parent to pages of the child's own. *)
LEMMA ForkStep ==
    ASSUME MemGood, NEW a \in Asids, NEW child \in Asids, process_fork_setup(a, child)
    PROVE  MemGood'
<1> DEFINE pages == Mapped(table[a].map)
           copy  == vm_map(NoTable.map, Ascending(pages), 1)
<1>a. MemInv /\ MemTypeOK /\ FramesOwnedOnce /\ HeapsApart /\ mem_free \subseteq Frames
      /\ HeapMapped /\ partial \in BOOLEAN
  BY DEF MemGood, MemInv, MemTypeOK, HeapUsable
<1>1. pages \subseteq VPages /\ table[a] \in TableType /\ table[a].map \in [VPages -> PageType]
  BY <1>a, TableFields DEF Mapped
<1>2. PICK i \in Nat : i = Cardinality(pages)
  BY <1>1, PagesFinite
<1>3. Cardinality(mem_free) \in Nat
  BY <1>a, FreeFinite
<1>4. CASE 1 + Cardinality(pages) > Cardinality(mem_free)
  <2>1. MemPanic("memory")
    BY <1>4 DEF process_fork_setup
  <2> QED BY <2>1, PanicStep
<1>5. CASE ~(1 + Cardinality(pages) > Cardinality(mem_free))
  <2>1. PICK n \in Nat : n = 1 + Cardinality(pages) /\ 1 <= n /\ n <= Cardinality(mem_free)
    BY <1>2, <1>3, <1>5
  <2>2. NoTable.map \in [VPages -> PageType]
    BY FrameSets DEF TableType
  <2>3. Fresh(copy, NoTable.map, pages, 1, n)
    <3>1. Lists(Ascending(pages), pages) /\ pages \in SUBSET VPages /\ 1 \in Nat
      BY <1>1, PagesFinite
    <3> HIDE DEF pages
    <3> QED BY <1>a, <2>1, <2>2, <3>1, MapFresh
  <2>4. PICK m : m = [v \in VPages |-> [copy[v] EXCEPT !.dirty = table[a].map[v].dirty]]
    OBVIOUS
  <2>5. Fresh(m, NoTable.map, pages, 1, n)
    BY <1>a, <1>1, <2>1, <2>3, <2>4, FreshCopy
  <2>6. PICK t : t = [page |-> NthFree(1), map |-> m]
    OBVIOUS
  <2>7. PICK r : r = proc[a]
    OBVIOUS
  <2>8. /\ TakePages(n) /\ proc[a].pc = "running" /\ proc[child].pc = "none"
        /\ table' = [table EXCEPT ![child] = t] /\ proc' = [proc EXCEPT ![child] = r]
        /\ UNCHANGED <<tlb, mem_halt, gone, veteran, partial>>
    BY <1>5, <2>1, <2>4, <2>6, <2>7 DEF process_fork_setup
  <2>9. Grows(child, t, r, n)
    BY <2>8 DEF Grows
  <2>10. /\ t \in TableType /\ Mapped(t.map) = pages
         /\ Holding(t) = Took(n) /\ PagesApart(t)
    BY <1>a, <1>1, <2>1, <2>5, <2>6, NewTable
  <2>11. a \in Live /\ child \notin Live
    BY <2>8 DEF Live
  <2>12. ProcessOK(t, r)
    <3>1. ValidCount(t.map) <= TableEntries
      BY <1>a, <2>10 DEF ValidCount, MemTypeOK
    <3>2. /\ r \in ProcType /\ r.pc = "running" /\ r.program \in Programs
          /\ r.heap_end < StackTop * PageSize
      BY <1>a, <2>7, <2>8, <2>11, TableFields DEF HeapsApart
    <3>3. r.program.rw .. PageOf(r.heap_end) \subseteq Mapped(t.map)
      BY <1>a, <2>7, <2>10, <2>11 DEF HeapMapped
    <3> QED BY <2>10, <3>1, <3>2, <3>3 DEF ProcessOK
  <2>13. PartialGrows(t, r)
    <3>1. ~partial /\ (\A p \in Programs : EndsInFile(p)) => HeapBelow(t, r)
      BY <1>a, <2>7, <2>10, <2>11 DEF HeapsApart, HeapBelow
    <3> QED BY <1>a, <2>8, <3>1 DEF PartialGrows
  <2>14. Holding(t) = OldPages(child) \cup Took(n)
    BY <2>10, <2>11 DEF OldPages
  <2>15. KeepsPages(child, t, r)
    BY <2>11 DEF KeepsPages
  <2>16. n <= Cardinality(mem_free)
    BY <2>1
  <2> QED BY <2>9, <2>12, <2>13, <2>14, <2>15, <2>16, GrowStep
<1> QED BY <1>4, <1>5

(* The smaller of two numbers. *)
LEMMA SmallerOf ==
    ASSUME NEW x \in Nat, NEW y \in Nat
    PROVE  Min({x, y}) = IF x <= y THEN x ELSE y
<1>1. PICK z \in Nat : z = (IF x <= y THEN x ELSE y) /\ z \in {x, y} /\ z <= x /\ z <= y
  OBVIOUS
<1>2. \A u \in {x, y} : (\A w \in {x, y} : u <= w) => u = z
  BY <1>1
<1>3. \A w \in {x, y} : z <= w
  BY <1>1
<1>4. (CHOOSE u \in {x, y} : \A w \in {x, y} : u <= w) = z
  BY <1>1, <1>2, <1>3
<1> QED BY <1>1, <1>4 DEF Min

(* The first n of a set are n. *)
LEMMA FirstRanks ==
    ASSUME NEW S, IsFiniteSet(S), S \subseteq Int, NEW n \in Nat, n <= Cardinality(S)
    PROVE  /\ IsFiniteSet({f \in S : Cardinality({g \in S : g < f}) < n})
           /\ Cardinality({f \in S : Cardinality({g \in S : g < f}) < n}) = n
<1>1. PICK T : T = Firsts(S, n)
  OBVIOUS
<1>2. IsFiniteSet(T) /\ Cardinality(T) = n /\ T = {f \in S : Rank(S, f) < n}
  BY <1>1, FirstN
<1>3. T = {f \in S : Cardinality({g \in S : g < f}) < n}
  BY <1>2 DEF Rank
<1> QED BY <1>2, <1>3

(* Pages that a call of process_memlimit wants lie between the heap and the *)
(* stack.                                                                   *)
LEMMA HeapGap ==
    ASSUME NEW old \in Nat, NEW end \in 0 .. (StackTop * PageSize - 1), end > old
    PROVE  /\ HeapPages(old, end) \subseteq VPages
           /\ PageOf(old) \in Nat /\ PageOf(end) \in Nat /\ PageOf(old) <= PageOf(end)
           /\ end \in Nat /\ end < StackTop * PageSize
           /\ \A v \in HeapPages(old, end) : PageOf(old) < v /\ v <= PageOf(end) /\ v < StackTop
<1>1. PICK top \in Nat : top = StackTop * PageSize
  BY FrameSets
<1>2. end \in Nat /\ end < StackTop * PageSize /\ old <= end
  BY <1>1
<1>3. PICK i \in Nat, j \in Nat : i = PageOf(old) /\ j = PageOf(end) /\ i <= j /\ j < StackTop
  <2>1. PageOf(old) \in Nat /\ PageOf(end) \in Nat
    BY <1>2, PageFound
  <2>2. PageOf(old) <= PageOf(end)
    BY <1>2, PageGrows
  <2>3. PageOf(end) < StackTop
    BY <1>2, PageBelow, FrameSets
  <2> QED BY <2>1, <2>2, <2>3
<1>4. HeapPages(old, end) = (i + 1) .. j
  BY <1>3 DEF HeapPages
<1>5. HeapPages(old, end) \subseteq VPages
  BY <1>3, <1>4, FrameSets DEF VPages
<1>6. \A v \in HeapPages(old, end) : i < v /\ v <= j /\ v < StackTop
  BY <1>3, <1>4, FrameSets
<1> QED BY <1>2, <1>3, <1>5, <1>6

(* A process_memlimit maps what it can of the pages it wants. *)
LEMMA MemlimitStep ==
    ASSUME MemGood, NEW a \in Asids, NEW end \in 0 .. (StackTop * PageSize - 1),
           process_memlimit(a, end)
    PROVE  MemGood'
<1>a. MemInv /\ MemTypeOK /\ FramesOwnedOnce /\ HeapsApart /\ mem_free \subseteq Frames
      /\ HeapMapped /\ partial \in BOOLEAN
  BY DEF MemGood, MemInv, MemTypeOK, HeapUsable
<1>b. proc[a].pc = "running" /\ end > proc[a].heap_end /\ a \in Live
  BY DEF process_memlimit, Live
<1>1. PICK old \in Nat : old = proc[a].heap_end
  BY <1>a, TableFields
<1>2. PICK i \in Nat, j \in Nat : i = PageOf(old) /\ j = PageOf(end) /\ i <= j
  BY <1>b, <1>1, HeapGap
<1>3. PICK wanted \in SUBSET VPages : wanted = HeapPages(old, end)
  BY <1>b, <1>1, HeapGap
<1>4. /\ wanted = (i + 1) .. j
      /\ \A v \in wanted : i < v /\ v <= j /\ v < StackTop
      /\ end \in Nat /\ end < StackTop * PageSize
  <2>1. wanted = (i + 1) .. j
    BY <1>2, <1>3 DEF HeapPages
  <2> QED BY <1>b, <1>1, <1>2, <1>3, <2>1, HeapGap
<1>5. IsFiniteSet(wanted) /\ wanted \subseteq Int
  BY PagesFinite
<1>6. PICK c \in Nat, d \in Nat : c = Cardinality(wanted) /\ d = Cardinality(mem_free)
  BY <1>a, PagesFinite, FreeFinite
<1>7. PICK n \in Nat : n = Min({c, d}) /\ n <= c /\ n <= d /\ (n = c \/ n = d)
  <2>1. Min({c, d}) = IF c <= d THEN c ELSE d
    BY SmallerOf
  <2> QED BY <2>1
<1>8. PICK got : got = {v \in wanted : Cardinality({w \in wanted : w < v}) < n}
  OBVIOUS
<1>9. /\ got \in SUBSET VPages /\ got \subseteq wanted /\ Cardinality(got) = n
      /\ n = c => got = wanted
      /\ n = 0 => got = {}
  <2>1. got \subseteq wanted
    BY <1>8
  <2>2. Cardinality(got) = n
    BY <1>5, <1>6, <1>7, <1>8, FirstRanks
  <2>3. got = {v \in wanted : Rank(wanted, v) < n}
    BY <1>8 DEF Rank
  <2>4. \A v \in wanted : Rank(wanted, v) \in Nat /\ Rank(wanted, v) < c
    BY <1>5, <1>6, RankGrows
  <2>5. n = c => got = wanted
    BY <2>3, <2>4
  <2>6. n = 0 => got = {}
    BY <2>3, <2>4
  <2> QED BY <2>1, <2>2, <2>5, <2>6
<1>10. PICK map \in [VPages -> PageType] : map = table[a].map
  BY <1>a, TableFields
<1>11. ~partial /\ (\A p \in Programs : EndsInFile(p)) =>
          \A v \in Mapped(map) : v <= i \/ v = StackTop
  BY <1>a, <1>b, <1>1, <1>2, <1>10 DEF HeapsApart
<1>12. PICK r : r = [proc[a] EXCEPT !.heap_end = IF n = c THEN end ELSE @]
  OBVIOUS
<1>13. PICK m : m = vm_map(map, Ascending(got), 0)
  OBVIOUS
<1>14. PICK t : t = [table[a] EXCEPT !.map = m]
  OBVIOUS
<1>15. CASE MapFault(map, got) # "no"
  <2>1. MemPanic(MapFault(map, got))
    BY <1>1, <1>3, <1>6, <1>7, <1>8, <1>10, <1>15 DEF process_memlimit
  <2>2. MapFault(map, got) \in {"remap", "full"}
    BY <1>15, FaultKinds
  <2>3. MapFault(map, got) = "remap" => partial \/ \E p \in Programs : ~EndsInFile(p)
    <3> SUFFICES ASSUME MapFault(map, got) = "remap", ~partial, \A p \in Programs : EndsInFile(p)
                 PROVE  FALSE
      OBVIOUS
    <3>1. PICK v \in got : v \in Mapped(map)
      BY FaultKinds
    <3>2. v \in Nat /\ i < v /\ v < StackTop
      BY <1>4, <1>9, FrameSets
    <3> QED BY <1>11, <3>1, <3>2, FrameSets
  <2> QED BY <2>1, <2>2, <2>3, PanicStep
<1>16. CASE MapFault(map, got) = "no"
  <2>1. /\ TakePages(n)
        /\ table' = [table EXCEPT ![a].map = m]
        /\ proc' = [proc EXCEPT ![a].heap_end = IF n = c THEN end ELSE @]
        /\ partial' = (partial \/ (~(n = c) /\ n > 0))
        /\ UNCHANGED <<tlb, mem_halt, gone, veteran>>
    BY <1>1, <1>3, <1>6, <1>7, <1>8, <1>10, <1>13, <1>16 DEF process_memlimit
  <2>2. Grows(a, t, r, n)
    <3>1. table' = [table EXCEPT ![a] = t]
      BY <1>14, <2>1
    <3>2. proc' = [proc EXCEPT ![a] = r]
      BY <1>12, <2>1
    <3> QED BY <2>1, <3>1, <3>2 DEF Grows
  <2>3. /\ got \cap Mapped(map) = {}
        /\ ~(Cardinality({Pair(v) : v \in Mapped(map) \cup got}) > TableEntries)
    BY <1>16, NoFault
  <2>4. Fresh(m, map, got, 0, n)
    <3>1. Lists(Ascending(got), got) /\ 0 \in Nat /\ n = 0 + Cardinality(got)
      BY <1>9, PagesFinite
    <3>2. n <= Cardinality(mem_free)
      BY <1>6, <1>7
    <3> QED BY <1>a, <1>9, <1>13, <3>1, <3>2, MapFresh
  <2>5. /\ t \in TableType /\ Mapped(t.map) = Mapped(map) \cup got
        /\ Holding(t) = Holding(table[a]) \cup Took(n) /\ PagesApart(t)
    <3>1. PICK o \in TableType : o = table[a]
      BY <1>a, TableFields
    <3>2. Holding(o) \cap mem_free = {} /\ PagesApart(o)
      BY <1>a, <1>b, <3>1 DEF FramesOwnedOnce
    <3>3. n <= Cardinality(mem_free) /\ o.map = map /\ t = [o EXCEPT !.map = m]
      BY <1>6, <1>7, <1>10, <1>14, <3>1
    <3>4. got \cap Mapped(o.map) = {}
      BY <2>3, <3>3
    <3>6. Fresh(m, o.map, got, 0, n)
      BY <2>4, <3>3
    <3>7. n <= Cardinality(mem_free)
      BY <3>3
    <3>8. WithMap(t, o, m)
      BY <3>3 DEF WithMap
    <3>9. Holding(o) \cap mem_free = {}
      BY <3>2
    <3>10. PagesApart(o)
      BY <3>2
    <3>11. mem_free \subseteq Frames
      BY <1>a
    <3>12. got \in SUBSET VPages
      BY <1>9
    <3>5. t \in TableType /\ Mapped(t.map) = Mapped(o.map) \cup got
          /\ Holding(t) = Holding(o) \cup Took(n) /\ PagesApart(t)
      BY <3>4, <3>6, <3>7, <3>8, <3>9, <3>10, <3>11, <3>12, GrownTable
    <3> QED BY <3>1, <3>3, <3>5
  <2>6. proc[a] \in ProcType /\ r \in ProcType /\ r.pc = "running" /\ r.program = proc[a].program
        /\ r.heap_end = IF n = c THEN end ELSE old
    BY <1>a, <1>b, <1>1, <1>4, <1>12, TableFields DEF ProcType
  <2>7. ProcessOK(t, r)
    <3>1. ValidCount(t.map) <= TableEntries
      <4>1. ~(ValidCount(t.map) > TableEntries)
        BY <2>3, <2>5 DEF ValidCount
      <4>2. ValidCount(t.map) \in Nat
        BY PairsCounted DEF ValidCount, Mapped
      <4> QED BY <4>1, <4>2, MemoryAssumption
    <3>2. r.program \in Programs /\ r.heap_end < StackTop * PageSize
      BY <1>a, <1>b, <1>1, <1>4, <2>6 DEF HeapsApart
    <3>3. r.program.rw .. PageOf(r.heap_end) \subseteq Mapped(t.map)
      <4>1. r.program.rw .. i \subseteq Mapped(map)
        BY <1>a, <1>b, <1>1, <1>2, <1>10, <2>6 DEF HeapMapped
      <4>2. PICK rw \in Nat : rw = r.program.rw
        BY <3>2, ProgramPages, FrameSets
      <4>3. CASE n = c
        <5>1. PageOf(r.heap_end) = j /\ got = (i + 1) .. j
          BY <1>2, <1>4, <1>9, <2>6, <4>3
        <5>2. \A v \in rw .. j : v \in rw .. i \/ v \in (i + 1) .. j
          OBVIOUS
        <5> QED BY <2>5, <4>1, <4>2, <5>1, <5>2
      <4>4. CASE n # c
        BY <1>2, <2>5, <2>6, <4>1, <4>4
      <4> QED BY <4>3, <4>4
    <3>4. r.pc # "none" /\ r.pc # "loading"
      BY <2>6
    <3> QED BY <2>5, <2>6, <3>1, <3>2, <3>3, <3>4 DEF ProcessOK
  <2>8. PartialGrows(t, r)
    <3>1. ASSUME ~partial', \A p \in Programs : EndsInFile(p), NEW v \in Mapped(t.map)
          PROVE  v <= PageOf(r.heap_end) \/ v = StackTop
      <4>1. ~partial /\ (n = c \/ n = 0)
        <5>1. ~(partial \/ (~(n = c) /\ n > 0))
          BY <2>1, <3>1
        <5> QED BY <5>1
      <4>2. v \in Mapped(map) => v <= i \/ v = StackTop
        BY <1>11, <3>1, <4>1
      <4>3. v \in Mapped(map) \/ v \in got
        BY <2>5, <3>1
      <4>4. v \in Nat
        BY <3>1, FrameSets DEF Mapped
      <4>5. CASE n = c
        <5>1. PageOf(r.heap_end) = j
          BY <1>2, <2>6, <4>5
        <5>2. v \in got => v <= j
          BY <1>4, <1>9
        <5> QED BY <1>2, <4>2, <4>3, <4>4, <5>1, <5>2
      <4>6. CASE n # c
        <5>1. PageOf(r.heap_end) = i /\ got = {}
          BY <1>2, <1>9, <2>6, <4>1, <4>6
        <5> QED BY <4>2, <4>3, <5>1
      <4> QED BY <4>5, <4>6
    <3>2. ~partial' /\ (\A p \in Programs : EndsInFile(p)) => HeapBelow(t, r)
      BY <3>1 DEF HeapBelow
    <3>3. partial' \in BOOLEAN /\ (partial => partial')
      BY <1>a, <2>1
    <3> QED BY <3>2, <3>3 DEF PartialGrows
  <2>9. Holding(t) = OldPages(a) \cup Took(n)
    BY <1>b, <2>5 DEF OldPages
  <2>10. KeepsPages(a, t, r)
    <3>1. \A v \in Mapped(map) : m[v] = map[v]
      BY <2>3, <2>4 DEF Fresh, Mapped
    <3>2. t.map = m
      BY <1>a, <1>14, TableFields DEF TableType
    <3> QED BY <1>10, <2>6, <3>1, <3>2 DEF KeepsPages
  <2>11. n <= Cardinality(mem_free)
    BY <1>6, <1>7
  <2> QED BY <2>2, <2>7, <2>8, <2>9, <2>10, <2>11, GrowStep
<1> QED BY <1>15, <1>16
-----------------------------------------------------------------------------
(* The translation buffer *)

(* A page is the even or the odd one of its pair. *)
LEMMA PairOf ==
    ASSUME NEW v \in VPages
    PROVE  /\ Half(v) \in {0, 1} /\ 2 * Pair(v) + Half(v) = v /\ Pair(v) \in Pairs
           /\ Pair(v) \in Nat /\ v \in Nat
<1>1. v \in Nat
  BY FrameSets
<1>2. Half(v) \in {0, 1} /\ 2 * Pair(v) + Half(v) = v /\ Pair(v) \in Nat
  BY <1>1 DEF Half, Pair
<1>3. Pair(v) \in Pairs
  BY DEF Pairs
<1> QED BY <1>1, <1>2, <1>3

(* The entry that is made of a page table. *)
LEMMA EntryMade ==
    ASSUME MemInv, NEW a \in Live, NEW v \in VPages, table[a].map[v] # Unmapped, NEW e,
           e = EntryOf(a, Pair(v))
    PROVE  /\ e \in EntryType /\ e.asid = a /\ e.pair = Pair(v) /\ Half(v) \in Valid(e)
           /\ \A h \in {0, 1} : 2 * e.pair + h \in VPages =>
                 e.half[h] = table[a].map[2 * e.pair + h]
           /\ \A h \in Valid(e) : 2 * e.pair + h \in VPages /\ e.half[h].frame # NoFrame
<1>1. MemTypeOK /\ a \in Asids
  BY DEF MemInv, Live
<1>2. PICK map \in [VPages -> PageType] : map = table[a].map
  BY <1>1, TableFields
<1>3. PICK k \in Pairs : k = Pair(v) /\ k \in Nat
  BY PairOf
<1>4. PICK half : half = [h \in {0, 1} |-> IF 2 * k + h \in VPages THEN map[2 * k + h] ELSE Unmapped]
  OBVIOUS
<1>5. e = [asid |-> a, pair |-> k, half |-> half]
  BY <1>2, <1>3, <1>4 DEF EntryOf
<1>6. e.asid = a /\ e.pair = k /\ e.half = half
  BY <1>5
<1>7. half \in [{0, 1} -> PageType]
  BY <1>4, FrameSets
<1>8. e \in EntryType
  BY <1>1, <1>5, <1>7 DEF EntryType
<1>9. \A h \in {0, 1} : 2 * k + h \in VPages => half[h] = map[2 * k + h]
  BY <1>4
<1>10. \A h \in {0, 1} : half[h] # Unmapped => 2 * k + h \in VPages
  BY <1>4
<1>11. Half(v) \in Valid(e)
  BY <1>2, <1>3, <1>6, <1>9, PairOf DEF Valid
<1>12. ASSUME NEW h \in Valid(e) PROVE 2 * k + h \in VPages /\ half[h].frame # NoFrame
  <2>1. h \in {0, 1} /\ half[h] # Unmapped
    BY <1>6 DEF Valid
  <2>2. 2 * k + h \in VPages
    BY <1>10, <2>1
  <2>3. PICK w \in VPages : w = 2 * k + h
    BY <2>2
  <2>4. half[h] = map[w] /\ w \in Mapped(map)
    BY <1>9, <2>1, <2>3 DEF Mapped
  <2>5. map[w].frame \in Frames
    BY <1>1, <1>2, <2>4, MappedFrames
  <2> QED BY <2>2, <2>4, <2>5, FrameSets
<1> QED BY <1>2, <1>3, <1>6, <1>8, <1>9, <1>11, <1>12

(* Of entries already there for the pair, there is at most one, and it has  *)
(* just the other page.                                                     *)
LEMMA OtherHalf ==
    ASSUME MemGood, NEW a \in Live, NEW v \in VPages, table[a].map[v] # Unmapped,
           ~Translated(a, v), ~(Cardinality(Hits(a, v)) > 1), a \notin veteran,
           NEW d \in tlb, d.asid = a, d.pair = Pair(v), NEW e, e = EntryOf(a, Pair(v))
    PROVE  \E h \in {0, 1} : {Valid(d), Valid(e)} = {{h}, {0, 1}}
<1>a. MemInv /\ MemTypeOK /\ EntriesOwned /\ FirstUseTranslates
  BY DEF MemGood, MemInv, TlbOK
<1>1. Hits(a, v) = {d}
  <2>1. Hits(a, v) \in SUBSET tlb /\ d \in Hits(a, v) /\ IsFiniteSet(tlb)
    BY <1>a DEF Hits, MemTypeOK
  <2>2. IsFiniteSet(Hits(a, v)) /\ {d} \in SUBSET Hits(a, v)
    BY <2>1, FS_Subset
  <2>3. Cardinality(Hits(a, v)) \in Nat /\ Cardinality({d}) = 1
    BY <2>2, FS_CardinalityType, FS_Singleton
  <2>4. /\ Cardinality({d}) <= Cardinality(Hits(a, v))
        /\ Cardinality(Hits(a, v)) = Cardinality({d}) => Hits(a, v) = {d}
    BY <2>2, FS_Subset
  <2>5. Cardinality(Hits(a, v)) = Cardinality({d})
    BY <2>3, <2>4
  <2> QED BY <2>4, <2>5
<1>2. d.half[Half(v)] = Unmapped
  BY <1>1 DEF Translated
<1>3. PICK g \in {0, 1} : g = Half(v)
  BY PairOf
<1>4. PICK h \in {0, 1} : h # g
  BY <1>3
<1>5. Valid(d) \subseteq {0, 1} /\ g \notin Valid(d) /\ Valid(d) # {}
  BY <1>a, <1>2, <1>3 DEF Valid, EntriesOwned
<1>6. Valid(d) = {h}
  BY <1>4, <1>5
<1>7. PICK w \in VPages : w = 2 * Pair(v) + h /\ w = PageAt(d, h)
  BY <1>a, <1>6 DEF EntriesOwned, PageAt
<1>8. d.half[h].frame # NoFrame /\ d.half[h] # Unmapped
  BY <1>a, <1>6 DEF EntriesOwned, Valid
<1>9. d.half[h].frame = table[a].map[w].frame
  BY <1>6, <1>7, EntryPages DEF Says
<1>10. table[a].map[w] # Unmapped
  BY <1>8, <1>9 DEF Unmapped
<1>11. e.half[h] = table[a].map[w] /\ g \in Valid(e)
  BY <1>a, <1>3, <1>7, EntryMade
<1>12. Valid(e) = {0, 1}
  BY <1>3, <1>4, <1>10, <1>11 DEF Valid
<1> QED BY <1>6, <1>12

(* A page that is missing in the buffer is put there with its pair. *)
LEMMA RefillStep ==
    ASSUME MemGood, NEW a \in Live, NEW v \in VPages, TlbRefill(a, v),
           ~Translated(a, v), ~(Cardinality(Hits(a, v)) > 1)
    PROVE  MemGood'
<1>a. MemInv /\ MemTypeOK /\ FramesOwnedOnce /\ HeapsApart /\ EntriesOwned
  BY DEF MemGood, MemInv
<1>b. HeapMapped /\ RemapExplained /\ OwnOrGone /\ FirstUseTranslates /\ DuplicatesExplained
  BY DEF MemGood, HeapUsable, TlbOK
<1>1. /\ table[a].map[v] # Unmapped
      /\ UNCHANGED <<mem_free, mem_num_free, table, proc, mem_halt, gone, veteran, partial>>
  BY DEF TlbRefill
<1>2. PICK new : new = EntryOf(a, Pair(v))
  OBVIOUS
<1>3. PICK kept \in SUBSET tlb : Cardinality(kept) < TlbSize /\ tlb' = kept \cup {new}
  BY <1>2 DEF TlbRefill, tlb_write_random
<1>4. Live' = Live
  BY <1>1 DEF Live
<1>5. /\ new \in EntryType /\ new.asid = a /\ new.pair = Pair(v) /\ Half(v) \in Valid(new)
      /\ \A h \in {0, 1} : 2 * new.pair + h \in VPages =>
            new.half[h] = table[a].map[2 * new.pair + h]
      /\ \A h \in Valid(new) : 2 * new.pair + h \in VPages /\ new.half[h].frame # NoFrame
  BY <1>a, <1>1, <1>2, EntryMade
<1>6. MemTypeOK'
  <2>1. IsFiniteSet(kept) /\ Cardinality(kept) \in Nat
    BY <1>a, FS_Subset, FS_CardinalityType DEF MemTypeOK
  <2>2. /\ IsFiniteSet(kept \cup {new})
        /\ Cardinality(kept \cup {new}) = IF new \in kept THEN Cardinality(kept) ELSE Cardinality(kept) + 1
    BY <2>1, FS_AddElement
  <2>3. Cardinality(kept \cup {new}) <= TlbSize
    BY <1>3, <2>1, <2>2, MemoryAssumption
  <2>4. tlb' \subseteq EntryType
    BY <1>a, <1>3, <1>5 DEF MemTypeOK
  <2>5. IsFiniteSet(tlb') /\ Cardinality(tlb') <= TlbSize
    BY <1>3, <2>2, <2>3
  <2> QED BY <1>a, <1>1, <2>4, <2>5 DEF MemTypeOK
<1>7. FramesOwnedOnce' /\ HeapsApart'
  BY <1>a, <1>1, <1>4 DEF FramesOwnedOnce, HeapsApart
<1>8. EntriesOwned'
  <2> SUFFICES ASSUME NEW e \in tlb', e.asid \notin veteran
               PROVE  /\ e.asid \in Live
                      /\ Valid(e) # {}
                      /\ \A h \in Valid(e) : 2 * e.pair + h \in VPages /\ e.half[h].frame # NoFrame
    BY <1>1, <1>4 DEF EntriesOwned, Valid
  <2>1. CASE e = new
    BY <1>5, <2>1
  <2>2. CASE e \in tlb
    BY <1>a, <2>2 DEF EntriesOwned
  <2> QED BY <1>3, <2>1, <2>2
<1>9. HeapMapped' /\ RemapExplained'
  BY <1>b, <1>1, <1>4 DEF HeapMapped, RemapExplained
<1>10. ASSUME NEW h \in Valid(new)
       PROVE  /\ PageAt(new, h) \in Mapped(table[a].map)
              /\ new.half[h] = table[a].map[PageAt(new, h)]
  BY <1>5 DEF Valid, PageAt, Mapped
<1>12. OwnOrGone'
  <2> SUFFICES ASSUME NEW e \in tlb', NEW h \in Valid(e), e.half[h].frame \notin gone
               PROVE  /\ e.asid \in Live
                      /\ PageAt(e, h) \in Mapped(table[e.asid].map)
                      /\ e.half[h].frame = table[e.asid].map[PageAt(e, h)].frame
    BY <1>1, <1>4 DEF OwnOrGone, Valid, PageAt
  <2>1. CASE e = new
    BY <1>5, <1>10, <2>1
  <2>2. CASE e \in tlb
    BY <2>2, EntryPages
  <2> QED BY <1>3, <2>1, <2>2
<1>13. FirstUseTranslates'
  <2> SUFFICES ASSUME NEW e \in tlb', e.asid \notin veteran, NEW h \in Valid(e)
               PROVE  Says(e.half[h], table[e.asid].map[PageAt(e, h)], PageAt(e, h), proc[e.asid])
    BY <1>1 DEF FirstUseTranslates, Valid, PageAt, Says
  <2>1. CASE e = new
    BY <1>5, <1>10, <2>1 DEF Says
  <2>2. CASE e \in tlb
    BY <2>2, EntryPages
  <2> QED BY <1>3, <2>1, <2>2
<1>11. DuplicatesExplained'
  <2>1. ASSUME NEW d \in tlb, d.asid = a, d.pair = Pair(v), a \notin veteran
        PROVE  \E h \in {0, 1} : {Valid(d), Valid(new)} = {{h}, {0, 1}}
    BY <1>1, <1>2, <2>1, OtherHalf
  <2> SUFFICES ASSUME NEW d \in tlb', NEW e \in tlb', d # e, d.asid = e.asid, d.pair = e.pair,
                      d.asid \notin veteran
               PROVE  \E h \in {0, 1} : {Valid(d), Valid(e)} = {{h}, {0, 1}}
    BY <1>1 DEF DuplicatesExplained, Valid
  <2>2. CASE d \in tlb /\ e \in tlb
    BY <1>b, <2>2 DEF DuplicatesExplained
  <2>3. CASE d \in tlb /\ e = new
    BY <1>5, <2>1, <2>3
  <2>4. CASE d = new /\ e \in tlb
    <3>1. \E h \in {0, 1} : {Valid(e), Valid(new)} = {{h}, {0, 1}}
      BY <1>5, <2>1, <2>4
    <3>2. {Valid(e), Valid(new)} = {Valid(d), Valid(e)}
      BY <2>4
    <3> QED BY <3>1, <3>2
  <2> QED BY <1>3, <2>2, <2>3, <2>4
<1> QED BY <1>6, <1>7, <1>8, <1>9, <1>11, <1>12, <1>13 DEF MemGood, MemInv, HeapUsable, TlbOK
-----------------------------------------------------------------------------
(* Processes that end *)

LEMMA NoPairs == ValidCount(NoTable.map) <= TableEntries
<1>1. {Pair(v) : v \in Mapped(NoTable.map)} = {}
  BY FrameSets
<1>2. ValidCount(NoTable.map) = Cardinality({})
  BY <1>1 DEF ValidCount
<1>3. ValidCount(NoTable.map) = 0 /\ TableEntries \in Nat
  BY <1>2, FS_EmptySet, MemoryAssumption
<1> QED BY <1>3

(* A process that ends gives back the page of its page table. *)
LEMMA FinishStep ==
    ASSUME MemGood, NEW a \in Live, Finish(a)
    PROVE  MemGood'
<1>a. MemInv /\ MemTypeOK /\ FramesOwnedOnce /\ HeapsApart /\ EntriesOwned /\ a \in Asids
  BY DEF MemGood, MemInv, Live
<1>b. HeapMapped /\ RemapExplained /\ OwnOrGone /\ FirstUseTranslates /\ DuplicatesExplained
  BY DEF MemGood, HeapUsable, TlbOK
<1>1. /\ table' = [table EXCEPT ![a] = NoTable] /\ proc' = [proc EXCEPT ![a] = NoProc]
      /\ mem_free' = mem_free \cup {table[a].page} /\ mem_num_free' = mem_num_free + 1
      /\ gone' = gone \cup {table[a].map[v].frame : v \in Mapped(table[a].map)}
      /\ veteran' = veteran \cup {a} /\ UNCHANGED <<tlb, mem_halt, partial>>
  BY DEF Finish, pagepool_free_phys_page
<1>2. /\ table'[a] = NoTable /\ \A b \in Asids \ {a} : table'[b] = table[b]
      /\ proc'[a] = NoProc /\ \A b \in Asids \ {a} : proc'[b] = proc[b]
  BY <1>a, <1>1 DEF MemTypeOK
<1>3. Live' = Live \ {a}
  BY <1>2 DEF Live, NoProc
<1>4. /\ Holding(table[a]) \subseteq Frames \ (mem_free \cup gone) /\ PagesApart(table[a])
      /\ \A b \in Live : Holding(table[a]) \cap Holding(table[b]) # {} => a = b
  BY <1>a DEF FramesOwnedOnce
<1>5. PICK page, frames : /\ page = table[a].page
                          /\ frames = {table[a].map[v].frame : v \in Mapped(table[a].map)}
  OBVIOUS
<1>6. /\ Holding(table[a]) = {page} \cup frames /\ page \notin frames
      /\ mem_free' = mem_free \cup {page} /\ gone' = gone \cup frames
  BY <1>1, <1>4, <1>5 DEF Holding, PagesApart
<1>7. page \in Frames /\ page \notin mem_free \cup gone /\ frames \subseteq Frames \ (mem_free \cup gone)
  BY <1>4, <1>6
<1>8. mem_free' \subseteq Frames /\ gone' \subseteq Frames /\ mem_free' \cap gone' = {}
  <2>1. mem_free \subseteq Frames /\ gone \subseteq Frames
    BY <1>a DEF MemTypeOK
  <2>2. mem_free \cap gone = {}
    BY <1>a DEF FramesOwnedOnce
  <2>3. mem_free' = mem_free \cup {page} /\ gone' = gone \cup frames
    BY <1>6
  <2>4. page \notin frames
    BY <1>6
  <2> QED BY <1>7, <2>1, <2>2, <2>3, <2>4
<1>9. mem_num_free' = Cardinality(mem_free') /\ mem_num_free' \in 0 .. NumFrames
  <2>1. IsFiniteSet(mem_free) /\ mem_free \subseteq Frames
    BY <1>a, FreeFinite DEF MemTypeOK
  <2>2. Cardinality(mem_free \cup {page}) = Cardinality(mem_free) + 1
    BY <1>7, <2>1, FS_AddElement
  <2>3. Cardinality(mem_free') \in Nat /\ Cardinality(mem_free') <= NumFrames
    BY <1>8, FreeFinite
  <2>4. mem_num_free' = mem_num_free + 1 /\ mem_num_free = Cardinality(mem_free)
    BY <1>a, <1>1 DEF FramesOwnedOnce
  <2>5. mem_num_free' = Cardinality(mem_free')
    BY <1>6, <2>2, <2>4
  <2> QED BY <2>3, <2>5, FrameSets
<1>10. MemTypeOK'
  <2>1. NoProc \in ProcType /\ NoProc.pc # "loading"
    BY DEF NoProc, ProcType
  <2>2. proc' \in [Asids -> ProcType] /\ table' \in [Asids -> TableType]
    BY <1>a, <1>1, <2>1, FrameSets DEF MemTypeOK
  <2>3. \A b \in Asids : ValidCount(table'[b].map) <= TableEntries
    BY <1>a, <1>2, NoPairs DEF MemTypeOK
  <2>4. \A b \in Asids : proc'[b].pc = "loading" => proc'[b].todo > 0
    BY <1>a, <1>2, <2>1 DEF MemTypeOK
  <2>5. veteran' \subseteq Asids
    BY <1>a, <1>1 DEF MemTypeOK
  <2> QED BY <1>a, <1>1, <1>8, <1>9, <2>2, <2>3, <2>4, <2>5 DEF MemTypeOK
<1>11. FramesOwnedOnce'
  <2>1. ASSUME NEW f \in Frames
        PROVE  f \in mem_free' \cup gone' \/ \E b \in Live' : f \in Holding(table'[b])
    <3>1. CASE f \in mem_free \cup gone
      BY <1>6, <3>1
    <3>2. CASE ~(f \in mem_free \cup gone)
      <4>1. PICK b \in Live : f \in Holding(table[b])
        BY <1>a, <3>2 DEF FramesOwnedOnce
      <4>2. CASE b = a
        BY <1>6, <4>1, <4>2
      <4>3. CASE b # a
        BY <1>2, <1>3, <4>1, <4>3 DEF Live
      <4> QED BY <4>2, <4>3
    <3> QED BY <3>1, <3>2
  <2>2. \A b \in Asids \ Live' : table'[b] = NoTable
    BY <1>a, <1>2, <1>3 DEF FramesOwnedOnce
  <2>3. ASSUME NEW b \in Live'
        PROVE  /\ Holding(table'[b]) \subseteq Frames \ (mem_free' \cup gone')
               /\ PagesApart(table'[b])
               /\ \A c \in Live' : Holding(table'[b]) \cap Holding(table'[c]) # {} => b = c
    <3>1. b \in Live /\ b # a /\ b \in Asids /\ table'[b] = table[b]
      BY <1>2, <1>3 DEF Live
    <3>2. /\ Holding(table[b]) \subseteq Frames \ (mem_free \cup gone) /\ PagesApart(table[b])
          /\ \A c \in Live : Holding(table[b]) \cap Holding(table[c]) # {} => b = c
      BY <1>a, <3>1 DEF FramesOwnedOnce
    <3>3. Holding(table[a]) \cap Holding(table[b]) = {}
      BY <1>4, <3>1
    <3>4. Holding(table[b]) \subseteq Frames \ (mem_free' \cup gone')
      BY <1>6, <3>2, <3>3
    <3>5. \A c \in Live' : c \in Live /\ table'[c] = table[c]
      BY <1>2, <1>3 DEF Live
    <3> QED BY <3>1, <3>2, <3>4, <3>5
  <2> QED BY <1>8, <1>9, <2>1, <2>2, <2>3 DEF FramesOwnedOnce
<1>12. HeapsApart'
  <2>1. \A b \in Live' : b \in Live /\ table'[b] = table[b] /\ proc'[b] = proc[b]
    BY <1>2, <1>3 DEF Live
  <2> QED BY <1>a, <1>1, <2>1 DEF HeapsApart
<1>13. EntriesOwned'
  BY <1>a, <1>1, <1>3 DEF EntriesOwned, Valid
<1>14. HeapMapped'
  <2>1. \A b \in Live' : b \in Live /\ table'[b] = table[b] /\ proc'[b] = proc[b]
    BY <1>2, <1>3 DEF Live
  <2> QED BY <1>b, <2>1 DEF HeapMapped
<1>15. RemapExplained'
  BY <1>b, <1>1 DEF RemapExplained
<1>16. OwnOrGone' /\ FirstUseTranslates'
  <2>1. ASSUME NEW e \in tlb, NEW h \in Valid(e), e.half[h].frame \notin gone'
        PROVE  /\ e.asid \in Live'
               /\ PageAt(e, h) \in Mapped(table'[e.asid].map)
               /\ e.half[h].frame = table'[e.asid].map[PageAt(e, h)].frame
    <3>1. /\ e.asid \in Live /\ e.asid \in Asids /\ PageAt(e, h) \in Mapped(table[e.asid].map)
          /\ e.half[h].frame = table[e.asid].map[PageAt(e, h)].frame
      BY <1>1, <2>1, EntryPages
    <3>2. e.asid # a
      BY <1>5, <1>6, <2>1, <3>1
    <3> QED BY <1>2, <1>3, <3>1, <3>2
  <2>2. ASSUME NEW e \in tlb, e.asid \notin veteran', NEW h \in Valid(e)
        PROVE  Says(e.half[h], table'[e.asid].map[PageAt(e, h)], PageAt(e, h), proc'[e.asid])
    <3>1. /\ e.asid \notin veteran /\ e.asid # a /\ e.asid \in Asids
          /\ Says(e.half[h], table[e.asid].map[PageAt(e, h)], PageAt(e, h), proc[e.asid])
      BY <1>1, <2>2, EntryPages
    <3> QED BY <1>2, <3>1
  <2>3. OwnOrGone'
    BY <1>1, <2>1 DEF OwnOrGone, Valid, PageAt
  <2>4. FirstUseTranslates'
    BY <1>1, <2>2 DEF FirstUseTranslates, Valid, PageAt, Says
  <2> QED BY <2>3, <2>4
<1>17. DuplicatesExplained'
  BY <1>b, <1>1 DEF DuplicatesExplained, Valid
<1> QED BY <1>10, <1>11, <1>12, <1>13, <1>14, <1>15, <1>16, <1>17 DEF MemGood, MemInv, HeapUsable, TlbOK
-----------------------------------------------------------------------------
(* Loading a program *)

SamePages(a, t) ==
    /\ t.page = table[a].page
    /\ Mapped(t.map) = Mapped(table[a].map)
    /\ \A v \in Mapped(table[a].map) : t.map[v].frame = table[a].map[v].frame

(* What is mapped decides how full the table is, too. *)
LEMMA SameHolding ==
    ASSUME NEW a, NEW t, SamePages(a, t)
    PROVE  /\ Holding(t) = Holding(table[a])
           /\ PagesApart(table[a]) => PagesApart(t)
           /\ ValidCount(t.map) = ValidCount(table[a].map)
<1>1. PICK old, P : old = table[a] /\ P = Mapped(old.map)
  OBVIOUS
<1>2. /\ t.page = old.page /\ Mapped(t.map) = P
      /\ \A v \in P : t.map[v].frame = old.map[v].frame
  BY <1>1 DEF SamePages
<1>3. Holding(t) = {old.page} \cup {t.map[v].frame : v \in P}
  BY <1>2 DEF Holding
<1>4. {t.map[v].frame : v \in P} = {old.map[v].frame : v \in P}
  BY <1>2
<1>5. Holding(t) = Holding(old)
  BY <1>1, <1>3, <1>4 DEF Holding
<1>6. PagesApart(old) => PagesApart(t)
  BY <1>1, <1>2 DEF PagesApart
<1>7. ValidCount(t.map) = ValidCount(old.map)
  BY <1>1, <1>2 DEF ValidCount
<1> QED BY <1>1, <1>5, <1>6, <1>7

(* A step of one process that takes no page. *)
LEMMA SameStep ==
    ASSUME MemGood, NEW a \in Live, NEW t \in TableType, NEW r \in ProcType, SamePages(a, t),
           r.pc # "none", r.pc = "loading" => r.todo > 0, r.program = proc[a].program,
           KeepsPages(a, t, r),
           r.heap_end = proc[a].heap_end,
           table' = [table EXCEPT ![a] = t], proc' = [proc EXCEPT ![a] = r],
           UNCHANGED <<mem_free, mem_num_free, tlb, mem_halt, gone, veteran, partial>>
    PROVE  MemGood'
<1>a. MemInv /\ MemTypeOK /\ FramesOwnedOnce /\ HeapsApart /\ HeapMapped /\ a \in Asids
  BY DEF MemGood, MemInv, HeapUsable, Live
<1>b. partial \in BOOLEAN /\ mem_num_free \in Int /\ mem_free \subseteq Frames
  <2>1. partial \in BOOLEAN /\ mem_free \subseteq Frames /\ mem_num_free \in 0 .. NumFrames
    BY <1>a DEF MemTypeOK
  <2> QED BY <2>1
<1>1. PICK n \in Nat : n = 0
  OBVIOUS
<1>2. Took(n) = {}
  BY <1>1 DEF Took
<1>3. TakePages(n)
  <2>1. mem_free' = mem_free \ {NthFree(k) : k \in 1 .. n}
    BY <1>2 DEF Took
  <2>2. mem_num_free' = mem_num_free - n
    BY <1>b, <1>1
  <2> QED BY <2>1, <2>2 DEF TakePages
<1>4. Grows(a, t, r, n)
  BY <1>3 DEF Grows
<1>5. n <= Cardinality(mem_free)
  BY <1>b, <1>1, FreeFinite
<1>6. Holding(t) = OldPages(a) \cup Took(n)
  BY <1>2, SameHolding DEF OldPages
<1>8. ProcessOK(t, r)
  <2>1. PagesApart(t) /\ ValidCount(t.map) <= TableEntries
    BY <1>a, SameHolding DEF FramesOwnedOnce, MemTypeOK
  <2>2. r.program \in Programs /\ r.heap_end < StackTop * PageSize
    BY <1>a DEF HeapsApart
  <2>3. r.program.rw .. PageOf(r.heap_end) \subseteq Mapped(t.map)
    BY <1>a DEF HeapMapped, SamePages
  <2> QED BY <2>1, <2>2, <2>3 DEF ProcessOK
<1>9. PartialGrows(t, r)
  <2>1. ~partial /\ (\A p \in Programs : EndsInFile(p)) => HeapBelow(t, r)
    BY <1>a DEF HeapsApart, HeapBelow, SamePages
  <2> QED BY <1>b, <2>1 DEF PartialGrows
<1> QED BY <1>a, <1>4, <1>5, <1>6, <1>8, <1>9, GrowStep

(* The pages that a program is loaded to. *)
LEMMA LoadPages ==
    ASSUME NEW p \in Programs
    PROVE  LoadOrder(p) \in Seq(VPages)
<1>1. p.ro \subseteq VPages /\ RwPages(p) \subseteq VPages /\ StackTop \in VPages
  BY ProgramPages
<1>2. Ascending(p.ro) \in Seq(p.ro) /\ Ascending(RwPages(p)) \in Seq(RwPages(p))
  BY <1>1, PagesFinite DEF Lists
<1>3. PICK s \in Seq(VPages), t \in Seq(VPages) : s = Ascending(p.ro) /\ t = Ascending(RwPages(p))
  BY <1>1, <1>2
<1>4. <<StackTop>> \in Seq(VPages)
  BY <1>1
<1>5. s \o t \o <<StackTop>> \o s \o t \in Seq(VPages)
  BY <1>4
<1> QED BY <1>3, <1>5 DEF LoadOrder

(* A page of the program is touched: through the buffer, or with a refill. *)
LEMMA LoadStep ==
    ASSUME MemGood, NEW a \in Asids, process_start_load(a)
    PROVE  MemGood'
<1>a. MemInv /\ MemTypeOK /\ FramesOwnedOnce /\ HeapsApart /\ a \in Live
  BY DEF MemGood, MemInv, Live, process_start_load
<1>1. PICK i \in Nat : i = proc[a].todo /\ i > 0
  BY <1>a DEF MemTypeOK, ProcType, process_start_load
<1>2. PICK v : v = LoadOrder(proc[a].program)[proc[a].todo]
  OBVIOUS
<1>3. v \in VPages
  <2>1. PICK order \in Seq(VPages) : order = LoadOrder(proc[a].program)
    BY <1>a, LoadPages DEF HeapsApart
  <2>2. i \in 1 .. Len(order)
    BY <1>1, <2>1, LenProperties DEF process_start_load
  <2> QED BY <1>1, <1>2, <2>1, <2>2, ElementOfSeq
<1>4. CASE Cardinality(Hits(a, v)) > 1
  <2>1. MemPanic("duplicate")
    BY <1>2, <1>4 DEF process_start_load
  <2> QED BY <2>1, PanicStep
<1>5. CASE ~(Cardinality(Hits(a, v)) > 1) /\ Translated(a, v)
  <2>1. PICK r : r = [proc[a] EXCEPT !.todo = @ + 1]
    OBVIOUS
  <2>2. PICK t : t = table[a]
    OBVIOUS
  <2>3. /\ proc' = [proc EXCEPT ![a].todo = @ + 1]
        /\ UNCHANGED <<mem_free, mem_num_free, table, tlb, mem_halt, gone, veteran, partial>>
        /\ proc[a].pc = "loading"
    BY <1>2, <1>5 DEF process_start_load
  <2>4. proc' = [proc EXCEPT ![a] = r] /\ table' = [table EXCEPT ![a] = t]
    BY <1>a, <2>1, <2>2, <2>3 DEF MemTypeOK
  <2>5. PICK q \in ProcType : q = proc[a]
    BY <1>a, TableFields
  <2>6. /\ r \in ProcType /\ r.pc = "loading" /\ r.todo = i + 1
        /\ r.program = proc[a].program /\ r.heap_end = proc[a].heap_end
    BY <1>1, <2>1, <2>3, <2>5 DEF ProcType
  <2>7. t \in TableType /\ SamePages(a, t)
    BY <1>a, <2>2, TableFields DEF SamePages
  <2>8. r.pc # "none" /\ r.todo > 0
    BY <2>6
  <2>9. KeepsPages(a, t, r)
    BY <2>2, <2>3, <2>6 DEF KeepsPages
  <2> QED BY <1>a, <2>3, <2>4, <2>6, <2>7, <2>8, <2>9, SameStep
<1>6. CASE ~(Cardinality(Hits(a, v)) > 1) /\ ~Translated(a, v)
  <2>1. TlbRefill(a, v)
    BY <1>2, <1>6 DEF process_start_load
  <2> QED BY <1>a, <1>3, <1>6, <2>1, RefillStep
<1> QED BY <1>4, <1>5, <1>6

(* The read-only segment is write protected: no page changes. *)
LEMMA RunStep ==
    ASSUME MemGood, NEW a \in Asids, process_start_run(a)
    PROVE  MemGood'
<1>a. MemInv /\ MemTypeOK /\ a \in Live
  BY DEF MemGood, MemInv, Live, process_start_run
<1>1. PICK map \in [VPages -> PageType] : map = table[a].map
  BY <1>a, TableFields
<1>2. PICK m : m = vm_set_dirty(map, proc[a].program.ro)
  OBVIOUS
<1>3. /\ m \in [VPages -> PageType]
      /\ \A v \in VPages :
            /\ m[v].frame = map[v].frame
            /\ m[v] = map[v] \/ (m[v].dirty = FALSE /\ v \in proc[a].program.ro)
  <2>1. \A v \in VPages : map[v] \in PageType
    OBVIOUS
  <2>2. \A v \in VPages : /\ m[v] \in PageType /\ m[v].frame = map[v].frame
                          /\ m[v] = map[v] \/ (m[v].dirty = FALSE /\ v \in proc[a].program.ro)
    BY <1>2, <2>1 DEF vm_set_dirty, PageType
  <2>3. m = [v \in VPages |-> m[v]]
    BY <1>2 DEF vm_set_dirty
  <2> QED BY <2>2, <2>3
<1>4. \A v \in VPages : m[v] # Unmapped <=> map[v] # Unmapped
  <2> TAKE v \in VPages
  <2>1. map[v] # Unmapped => map[v].frame \in Frames
    BY <1>a, <1>1, MappedFrames DEF Mapped
  <2>2. map[v] # Unmapped => m[v] # Unmapped
    BY <1>3, <2>1, FrameSets DEF Unmapped
  <2>3. map[v] = Unmapped => m[v] = Unmapped
    <3>1. m[v] \in PageType
      BY <1>3
    <3>2. PICK f, d : m[v] = [frame |-> f, dirty |-> d]
      BY <3>1 DEF PageType
    <3>3. map[v] = Unmapped => f = NoFrame /\ d = FALSE
      BY <1>3, <3>2 DEF Unmapped
    <3> QED BY <3>2, <3>3 DEF Unmapped
  <2> QED BY <2>2, <2>3
<1>5. PICK t : t = [table[a] EXCEPT !.map = m]
  OBVIOUS
<1>6. PICK r : r = [proc[a] EXCEPT !.pc = "running", !.todo = 0]
  OBVIOUS
<1>7. /\ table' = [table EXCEPT ![a].map = vm_set_dirty(@, proc[a].program.ro)]
      /\ proc' = [proc EXCEPT ![a].pc = "running", ![a].todo = 0]
      /\ UNCHANGED <<mem_free, mem_num_free, tlb, mem_halt, gone, veteran, partial>>
  BY DEF process_start_run
<1>8. table' = [table EXCEPT ![a] = t]
  BY <1>1, <1>2, <1>5, <1>7
<1>9. proc' = [proc EXCEPT ![a] = r]
  BY <1>a, <1>6, <1>7 DEF MemTypeOK
<1>10. t \in TableType /\ t.page = table[a].page /\ t.map = m
  BY <1>a, <1>3, <1>5, TableFields DEF TableType
<1>11. Mapped(m) = Mapped(map)
  BY <1>4 DEF Mapped
<1>12. SamePages(a, t)
  BY <1>1, <1>3, <1>10, <1>11 DEF SamePages, Mapped
<1>13. PICK q \in ProcType : q = proc[a]
  BY <1>a, TableFields
<1>14. /\ r \in ProcType /\ r.pc = "running"
       /\ r.program = proc[a].program /\ r.heap_end = proc[a].heap_end
  BY <1>6, <1>13 DEF ProcType
<1>15. r.pc # "none" /\ r.pc # "loading"
  BY <1>14
<1>16. KeepsPages(a, t, r)
  <2>1. \A v \in VPages : m[v].dirty # map[v].dirty => ~m[v].dirty /\ v \in r.program.ro
    BY <1>3, <1>14
  <2> QED BY <1>1, <1>3, <1>10, <1>14, <2>1 DEF KeepsPages, Mapped
<1> QED BY <1>a, <1>7, <1>8, <1>9, <1>10, <1>12, <1>14, <1>15, <1>16, SameStep

(* An access goes through, refills the buffer, ends the process or stops    *)
(* the system.                                                              *)
LEMMA AccessStep ==
    ASSUME MemGood, NEW a \in Asids, NEW v \in VPages,
           tlb_modified_exception(a, v) \/ tlb_access_exception(a, v) \/ tlb_undefined(a, v)
    PROVE  MemGood'
<1>1. CASE tlb_modified_exception(a, v)
  <2>1. a \in Live /\ Finish(a)
    BY <1>1 DEF tlb_modified_exception, Live
  <2> QED BY <2>1, FinishStep
<1>2. CASE tlb_access_exception(a, v)
  <2>1. a \in Live /\ ~Translated(a, v) /\ Cardinality(Hits(a, v)) <= 1
    BY <1>2 DEF tlb_access_exception, Live
  <2>2. TlbRefill(a, v) \/ Finish(a) \/ MemPanic("not found")
    BY <1>2 DEF tlb_access_exception
  <2>3. CASE TlbRefill(a, v)
    <3>1. IsFiniteSet(tlb) /\ Hits(a, v) \in SUBSET tlb
      BY DEF MemGood, MemInv, MemTypeOK, Hits
    <3>2. Cardinality(Hits(a, v)) \in Nat
      BY <3>1, FS_Subset, FS_CardinalityType
    <3>3. ~(Cardinality(Hits(a, v)) > 1)
      BY <2>1, <3>2
    <3> QED BY <2>1, <2>3, <3>3, RefillStep
  <2>4. CASE Finish(a)
    BY <2>1, <2>4, FinishStep
  <2>5. CASE MemPanic("not found")
    BY <2>5, PanicStep
  <2> QED BY <2>2, <2>3, <2>4, <2>5
<1>3. CASE tlb_undefined(a, v)
  <2>1. MemPanic("duplicate")
    BY <1>3 DEF tlb_undefined
  <2> QED BY <2>1, PanicStep
<1> QED BY <1>1, <1>2, <1>3
-----------------------------------------------------------------------------
LEMMA MemStart == MemInit => MemGood
<1> SUFFICES ASSUME MemInit PROVE MemGood
  OBVIOUS
<1>1. /\ mem_free = Frames /\ mem_num_free = NumFrames - StaticEnd
      /\ tlb = {} /\ mem_halt = "no" /\ gone = {} /\ veteran = {} /\ partial = FALSE
      /\ table = [a \in Asids |-> NoTable] /\ proc = [a \in Asids |-> NoProc]
  BY DEF MemInit
<1>2. NoProc \in ProcType /\ NoProc.pc = "none"
  BY DEF NoProc, ProcType
<1>3. Live = {}
  BY <1>1, <1>2 DEF Live
<1>4. MemTypeOK
  <2>1. mem_num_free \in 0 .. NumFrames
    BY <1>1, MemoryAssumption
  <2>2. table \in [Asids -> TableType] /\ \A a \in Asids : ValidCount(table[a].map) <= TableEntries
    BY <1>1, NoPairs, FrameSets
  <2>3. proc \in [Asids -> ProcType] /\ \A a \in Asids : proc[a].pc = "loading" => proc[a].todo > 0
    BY <1>1, <1>2
  <2>4. IsFiniteSet(tlb) /\ Cardinality(tlb) <= TlbSize
    <3>1. IsFiniteSet(tlb) /\ Cardinality(tlb) = 0
      BY <1>1, FS_EmptySet
    <3> QED BY <3>1, MemoryAssumption
  <2> QED BY <1>1, <2>1, <2>2, <2>3, <2>4 DEF MemTypeOK
<1>5. FramesOwnedOnce
  <2>1. mem_num_free = Cardinality(mem_free)
    BY <1>1, FrameSets
  <2>2. \A a \in Asids \ Live : table[a] = NoTable
    BY <1>1
  <2>3. mem_free = Frames /\ gone = {}
    BY <1>1
  <2> QED BY <1>3, <2>1, <2>2, <2>3 DEF FramesOwnedOnce
<1>6. HeapsApart /\ HeapMapped
  BY <1>3 DEF HeapsApart, HeapMapped
<1>7. EntriesOwned /\ OwnOrGone /\ FirstUseTranslates /\ DuplicatesExplained
  BY <1>1 DEF EntriesOwned, OwnOrGone, FirstUseTranslates, DuplicatesExplained
<1>8. RemapExplained
  BY <1>1 DEF RemapExplained
<1> QED BY <1>4, <1>5, <1>6, <1>7, <1>8 DEF MemGood, MemInv, HeapUsable, TlbOK

LEMMA MemStep == MemGood /\ [MemNext]_memVars => MemGood'
<1> SUFFICES ASSUME MemGood, [MemNext]_memVars PROVE MemGood'
  OBVIOUS
<1>1. CASE UNCHANGED memVars
  <2>1. UNCHANGED <<mem_free, mem_num_free, table, proc, tlb, mem_halt, gone, veteran, partial>>
    BY <1>1 DEF memVars
  <2>2. Live' = Live
    BY <2>1 DEF Live
  <2>3. MemInv'
    BY <2>1, <2>2 DEF MemGood, MemInv, MemTypeOK, FramesOwnedOnce, HeapsApart, EntriesOwned, Valid
  <2>4. HeapUsable' /\ TlbOK'
    BY <2>1, <2>2 DEF MemGood, HeapUsable, HeapMapped, RemapExplained,
                      TlbOK, OwnOrGone, FirstUseTranslates, DuplicatesExplained, Valid, PageAt
  <2> QED BY <2>3, <2>4 DEF MemGood
<1>2. CASE MemNext
  <2>1. PICK a \in Asids :
          \/ \E p \in Programs : process_start(a, p)
          \/ process_start_load(a)
          \/ process_start_run(a)
          \/ \E v \in VPages : tlb_modified_exception(a, v)
          \/ \E v \in VPages : tlb_access_exception(a, v)
          \/ \E v \in VPages : tlb_undefined(a, v)
          \/ \E child \in Asids : process_fork_setup(a, child)
          \/ \E end \in 0 .. (StackTop * PageSize - 1) : process_memlimit(a, end)
          \/ process_finish(a)
    BY <1>2 DEF MemNext
  <2>2. CASE \E p \in Programs : process_start(a, p)
    BY <2>2, StartStep
  <2>3. CASE process_start_load(a)
    BY <2>3, LoadStep
  <2>4. CASE process_start_run(a)
    BY <2>4, RunStep
  <2>5. CASE \E v \in VPages : tlb_modified_exception(a, v)
    BY <2>5, AccessStep
  <2>6. CASE \E v \in VPages : tlb_access_exception(a, v)
    BY <2>6, AccessStep
  <2>7. CASE \E v \in VPages : tlb_undefined(a, v)
    BY <2>7, AccessStep
  <2>8. CASE \E child \in Asids : process_fork_setup(a, child)
    BY <2>8, ForkStep
  <2>9. CASE \E end \in 0 .. (StackTop * PageSize - 1) : process_memlimit(a, end)
    BY <2>9, MemlimitStep
  <2>10. CASE process_finish(a)
    <3>1. a \in Live /\ Finish(a)
      BY <2>10 DEF process_finish, Live
    <3> QED BY <3>1, FinishStep
  <2> QED BY <2>1, <2>2, <2>3, <2>4, <2>5, <2>6, <2>7, <2>8, <2>9, <2>10
<1> QED BY <1>1, <1>2

LEMMA MemAlways == MemSpec => []MemGood
<1>1. MemInit => MemGood
  BY MemStart
<1>2. MemGood /\ [MemNext]_memVars => MemGood'
  BY MemStep
<1> QED BY <1>1, <1>2, PTL DEF MemSpec

(* The page pool, the page tables and the buffer agree on who has which     *)
(* page, through starts, forks, growing heaps, exceptions and ends of       *)
(* processes (vm/pagepool.c, vm/vm.c, vm/tlb.c, proc/process.c).            *)
THEOREM MemoryInvariant == MemSpec => []MemInv
<1>1. MemGood => MemInv
  BY DEF MemGood
<1> QED BY <1>1, MemAlways, PTL

(* A process can use its memory up to heap_end, and vm_map panics on a page *)
(* mapped before only after a process_memlimit that failed half way, or     *)
(* with a program whose data passes the end of its file                     *)
(* (process_memlimit, process_start).                                       *)
THEOREM HeapTheorem == MemSpec => []HeapUsable
<1>1. MemGood => HeapUsable
  BY DEF MemGood
<1> QED BY <1>1, MemAlways, PTL

(* The translation buffer gives a process no page of another live process,  *)
(* no page table and no free page, however often its identifier was used.   *)
(* Until it is used again, entries say what the page table says, except     *)
(* that the read-only segment stays writable in those loaded before         *)
(* process_start protects it, and there are two for one address only when   *)
(* the second page of a pair was mapped after the first was in the buffer   *)
(* (vm/tlb.c, vm_map, process_finish).                                      *)
THEOREM TlbTheorem == MemSpec => []TlbOK
<1>1. MemGood => TlbOK
  BY DEF MemGood
<1> QED BY <1>1, MemAlways, PTL
=============================================================================
