---------------------------- MODULE KernelProofs ----------------------------
(***************************************************************************)
(* KernelInv is an inductive invariant of Kernel, for every number of       *)
(* threads, CPUs, semaphores and process slots and every hash function.     *)
(* First TableInv, the thread table and its lists, then WaitInv, who waits  *)
(* for what, then the refinement of CountingSemaphore.  One lemma per       *)
(* action or group of actions that change the same state.                   *)
(***************************************************************************)
EXTENDS Kernel, FiniteSetTheorems, SequenceTheorems, TLAPS

(* What the four changes the kernel makes to a linked list preserve.  Nodes  *)
(* are natural numbers, as indexes of thread_table are.                      *)

(* A list without a first node is empty: an idle scheduler has lost nobody. *)
LEMMA EmptyList ==
    ASSUME NEW L, NEW nx, IsList(L, Nil, nx)
    PROVE  L = {}
  <1>1. HoldsList({}, Nil, nx)
    BY DEF HoldsList
  <1> QED BY <1>1 DEF IsList

(* A node that links to nothing is a list of its own. *)
LEMMA SingletonList ==
    ASSUME NEW t \in Nat, NEW nx, nx[t] = Nil
    PROVE  IsList({t}, t, nx)
  <1>1. t # Nil
    BY DEF Nil
  <1>2. ASSUME NEW S \in SUBSET {t}, HoldsList(S, t, nx)
        PROVE  S = {t}
    BY <1>1, <1>2 DEF HoldsList
  <1> QED BY <1>1, <1>2 DEF IsList

(* Only the links of the list's own nodes matter. *)
LEMMA ListFrame ==
    ASSUME NEW L, NEW first, NEW nx, NEW ny, IsList(L, first, nx),
           \A t \in L : ny[t] = nx[t]
    PROVE  IsList(L, first, ny)
  <1>1. \A S \in SUBSET L : HoldsList(S, first, ny) => HoldsList(S, first, nx)
    BY DEF HoldsList
  <1> QED BY <1>1 DEF IsList

(* Chaining a new node to the last one. *)
LEMMA ListAppend ==
    ASSUME NEW L \in SUBSET Nat, NEW first, NEW nx, NEW ny,
           NEW last \in L, NEW t \in Nat, t \notin L,
           first # Nil, IsList(L, first, nx), nx[last] = Nil,
           ny[last] = t, ny[t] = Nil, \A u \in L \ {last} : ny[u] = nx[u]
    PROVE  IsList(L \union {t}, first, ny)
  <1> DEFINE M == L \union {t}
  <1>1. first \in L /\ first # t
    BY DEF IsList
  <1>2. \A u \in M : ny[u] # Nil => ny[u] \in M /\ ny[u] # first
    BY <1>1 DEF IsList
  <1>3. \A u, v \in M : ny[u] = ny[v] /\ ny[u] # Nil => u = v
    BY <1>1 DEF IsList
  <1>4. ASSUME NEW S \in SUBSET M, HoldsList(S, first, ny)
        PROVE  S = M
    <2>1. HoldsList(S \ {t}, first, nx)
      BY <1>1, <1>4 DEF HoldsList, IsList
    <2>2. S \ {t} = L
      BY <2>1 DEF IsList
    <2>3. t \in S
      BY <2>2, <1>4 DEF HoldsList, Nil
    <2> QED BY <2>2, <2>3
  <1> QED BY <1>1, <1>2, <1>3, <1>4 DEF IsList

(* Taking the first node off. *)
LEMMA ListRemoveFirst ==
    ASSUME NEW L, NEW first, NEW nx, IsList(L, first, nx), first # Nil
    PROVE  IsList(L \ {first}, nx[first], nx)
  <1>1. first \in L
    BY DEF IsList
  <1>2. nx[first] # Nil => nx[first] \in L \ {first}
    BY <1>1 DEF IsList
  <1>3. \A u \in L \ {first} : nx[u] # Nil => nx[u] \in L \ {first} /\ nx[u] # nx[first]
    BY <1>1 DEF IsList
  <1>4. ASSUME NEW S \in SUBSET (L \ {first}), HoldsList(S, nx[first], nx)
        PROVE  S = L \ {first}
    <2>1. HoldsList(S \union {first}, first, nx)
      BY <1>4 DEF HoldsList
    <2>2. S \union {first} = L
      BY <2>1, <1>1 DEF IsList
    <2> QED BY <2>2
  <1> QED BY <1>2, <1>3, <1>4 DEF IsList

(* Taking a later node out, by linking its predecessor to its successor. *)
LEMMA ListRemove ==
    ASSUME NEW L, NEW first, NEW nx, NEW ny, IsList(L, first, nx),
           NEW prev \in L, NEW t \in L, nx[prev] = t, t # Nil, t # first,
           ny[prev] = nx[t], \A u \in L \ {prev} : ny[u] = nx[u]
    PROVE  IsList(L \ {t}, first, ny)
  <1> DEFINE M == L \ {t}
  <1>1. first # Nil => first \in M
    BY DEF IsList
  <1>2. ASSUME prev = t PROVE FALSE
    <2>1. \A u \in M : nx[u] # t
      BY <1>2 DEF IsList
    <2>2. HoldsList(M, first, nx)
      BY <1>1, <2>1 DEF HoldsList, IsList
    <2>3. M = L
      BY <2>2 DEF IsList
    <2> QED BY <2>3
  <1>3. \A u \in M : ny[u] # Nil => ny[u] \in M /\ ny[u] # first
    BY <1>2 DEF IsList
  <1>4. \A u, v \in M : ny[u] = ny[v] /\ ny[u] # Nil => u = v
    BY <1>2 DEF IsList
  <1>5. ASSUME NEW S \in SUBSET M, HoldsList(S, first, ny)
        PROVE  S = M
    <2>1. prev \in S
      <3>1. SUFFICES ASSUME prev \notin S PROVE FALSE
        OBVIOUS
      <3>2. HoldsList(S, first, nx)
        BY <1>5, <3>1 DEF HoldsList
      <3>3. S = L
        BY <3>2 DEF IsList
      <3> QED BY <3>1, <3>3
    <2>2. HoldsList(S \union {t}, first, nx)
      BY <1>5, <2>1, <1>2 DEF HoldsList, IsList
    <2>3. S \union {t} = L
      BY <2>2 DEF IsList
    <2> QED BY <2>3
  <1> QED BY <1>1, <1>3, <1>4, <1>5 DEF IsList

(* From a node on, the list is closed under links, and nothing smaller is.   *)
LEMMA FromClosed ==
    ASSUME NEW L, NEW first, NEW nx, IsList(L, first, nx), NEW t \in L
    PROVE  /\ HoldsList(ListFrom(L, t, nx), t, nx)
           /\ ListFrom(L, t, nx) \in SUBSET L
           /\ t # Nil => t \in ListFrom(L, t, nx)
           /\ \A S \in SUBSET L : HoldsList(S, t, nx) => ListFrom(L, t, nx) \subseteq S
  <1>1. ASSUME NEW u \in ListFrom(L, t, nx), nx[u] # Nil
        PROVE  nx[u] \in ListFrom(L, t, nx)
    <2>1. nx[u] \in L
      BY <1>1 DEF IsList, ListFrom
    <2>2. \A S \in SUBSET L : HoldsList(S, t, nx) => nx[u] \in S
      BY <1>1 DEF ListFrom, HoldsList
    <2> QED BY <2>1, <2>2 DEF ListFrom
  <1>2. t # Nil => t \in ListFrom(L, t, nx)
    BY DEF ListFrom, HoldsList
  <1>3. ListFrom(L, t, nx) \in SUBSET L
    BY DEF ListFrom
  <1>4. \A S \in SUBSET L : HoldsList(S, t, nx) => ListFrom(L, t, nx) \subseteq S
    BY DEF ListFrom
  <1>5. HoldsList(ListFrom(L, t, nx), t, nx)
    BY <1>1, <1>2 DEF HoldsList
  <1> QED BY <1>2, <1>3, <1>4, <1>5

(* What is true of the first node and goes over to the next one is true of    *)
(* the whole list.                                                            *)
LEMMA ListInduction ==
    ASSUME NEW L, NEW first, NEW nx, IsList(L, first, nx), NEW G \in SUBSET L,
           first # Nil => first \in G, \A x \in G : nx[x] # Nil => nx[x] \in G
    PROVE  G = L
  BY DEF IsList, HoldsList

(* A set that holds the next of a node and is closed holds, with the node     *)
(* itself, all that comes from the node on.                                   *)
LEMMA FromNext ==
    ASSUME NEW L, NEW first, NEW nx, IsList(L, first, nx), NEW x \in L, NEW y,
           nx[x] # Nil, y \in ListFrom(L, x, nx), y # x
    PROVE  y \in ListFrom(L, nx[x], nx)
  <1>1. nx[x] \in L
    BY DEF IsList
  <1>2. ASSUME NEW S \in SUBSET L, HoldsList(S, nx[x], nx)
        PROVE  y \in S
    <2>1. HoldsList(S \union {x}, x, nx)
      BY <1>2 DEF HoldsList
    <2>2. S \union {x} \in SUBSET L
      OBVIOUS
    <2>3. y \in S \union {x}
      BY <2>1, <2>2 DEF ListFrom
    <2> QED BY <2>3
  <1> QED BY <1>2 DEF ListFrom

(* Of two nodes one comes after the other. *)
LEMMA FromTotal ==
    ASSUME NEW L, NEW first, NEW nx, Nil \notin L, IsList(L, first, nx), NEW x \in L, NEW y \in L
    PROVE  y \in ListFrom(L, x, nx) \/ x \in ListFrom(L, y, nx)
  <1> DEFINE G == {z \in L : y \in ListFrom(L, z, nx) \/ z \in ListFrom(L, y, nx)}
  <1>1. first # Nil => first \in G
    <2> SUFFICES ASSUME first # Nil PROVE first \in G
      OBVIOUS
    <2>1. first \in L
      BY DEF IsList
    <2>2. \A S \in SUBSET L : HoldsList(S, first, nx) => S = L
      BY DEF IsList
    <2>3. y \in ListFrom(L, first, nx)
      BY <2>2 DEF ListFrom
    <2> QED BY <2>1, <2>3
  <1>2. ASSUME NEW z \in G, nx[z] # Nil PROVE nx[z] \in G
    <2>1. nx[z] \in L
      BY <1>2 DEF IsList
    <2>2. CASE z \in ListFrom(L, y, nx)
      <3>1. nx[z] \in ListFrom(L, y, nx)
        BY <1>2, <2>2, FromClosed DEF HoldsList
      <3> QED BY <2>1, <3>1
    <2>3. CASE z \notin ListFrom(L, y, nx)
      <3>1. y \in ListFrom(L, z, nx)
        BY <2>3
      <3>2. y # z
        BY <2>3, FromClosed
      <3>3. y \in ListFrom(L, nx[z], nx)
        BY <1>2, <3>1, <3>2, FromNext
      <3> QED BY <2>1, <3>3
    <2> QED BY <2>2, <2>3
  <1> HIDE DEF G
  <1>3. G \in SUBSET L
    BY DEF G
  <1>4. G = L
    BY <1>1, <1>2, <1>3, ListInduction
  <1> QED BY <1>4 DEF G

(* What does not come after g is followed up to g, and g is the last of it. *)
LEMMA BeforeNode ==
    ASSUME NEW L, NEW first, NEW nx, Nil \notin L, IsList(L, first, nx), NEW g \in L,
           NEW B, B = {x \in L : x \notin ListFrom(L, g, nx)} \union {g}
    PROVE  /\ first # Nil => first \in B
           /\ \A x \in B : x # g /\ nx[x] # Nil => nx[x] \in B
  <1>1. /\ HoldsList(ListFrom(L, g, nx), g, nx) /\ ListFrom(L, g, nx) \in SUBSET L
        /\ \A S \in SUBSET L : HoldsList(S, g, nx) => ListFrom(L, g, nx) \subseteq S
    BY FromClosed
  <1>2. ASSUME first # Nil PROVE first \in B
    <2>1. CASE first = g
      BY <2>1
    <2>2. CASE first # g
      <3>1. HoldsList(L \ {first}, g, nx)
        BY <2>2 DEF HoldsList, IsList
      <3>2. first \notin ListFrom(L, g, nx)
        BY <1>1, <3>1
      <3> QED BY <1>2, <3>2 DEF IsList
    <2> QED BY <2>1, <2>2
  <1>3. ASSUME NEW x \in B, x # g, nx[x] # Nil PROVE nx[x] \in B
    <2>1. x \in L /\ x \notin ListFrom(L, g, nx) /\ nx[x] \in L
      BY <1>3 DEF IsList
    <2>2. ASSUME nx[x] \in ListFrom(L, g, nx), nx[x] # g PROVE FALSE
      <3>1. \A z \in ListFrom(L, g, nx) : nx[z] # nx[x]
        BY <1>1, <1>3, <2>1 DEF IsList
      <3>2. HoldsList(ListFrom(L, g, nx) \ {nx[x]}, g, nx)
        BY <1>1, <2>2, <3>1 DEF HoldsList
      <3>3. ListFrom(L, g, nx) \subseteq ListFrom(L, g, nx) \ {nx[x]}
        BY <1>1, <3>2
      <3> QED BY <2>2, <3>3
    <2> QED BY <2>1, <2>2
  <1> QED BY <1>2, <1>3

(* Only the links of the list's own nodes matter to its order. *)
LEMMA FromFrame ==
    ASSUME NEW L, NEW nx, NEW ny, \A t \in L : ny[t] = nx[t], NEW t
    PROVE  ListFrom(L, t, ny) = ListFrom(L, t, nx)
  <1>1. \A S \in SUBSET L : HoldsList(S, t, ny) <=> HoldsList(S, t, nx)
    BY DEF HoldsList
  <1> QED BY <1>1 DEF ListFrom

(* A node that is chained to the last one comes after all others, and changes *)
(* nothing about their order.                                                 *)
LastInOrder(L, t, nx, ny) ==
    /\ \A u \in L : t \in ListFrom(L \union {t}, u, ny) /\ u \notin ListFrom(L \union {t}, t, ny)
    /\ \A u, v \in L : v \in ListFrom(L \union {t}, u, ny) <=> v \in ListFrom(L, u, nx)

(* ListAppend keeps the order. *)
LEMMA FromAppend ==
    ASSUME NEW L \in SUBSET Nat, NEW first, NEW nx, NEW ny,
           NEW last \in L, NEW t \in Nat, t \notin L,
           first # Nil, IsList(L, first, nx), nx[last] = Nil,
           ny[last] = t, ny[t] = Nil, \A u \in L \ {last} : ny[u] = nx[u]
    PROVE  LastInOrder(L, t, nx, ny)
  <1> DEFINE M == L \union {t}
  <1>n. Nil \notin M /\ IsList(M, first, ny)
    BY ListAppend DEF Nil
  <1>1. ASSUME NEW u \in L, NEW v \in L, v \in ListFrom(L, u, nx)
        PROVE  v \in ListFrom(M, u, ny)
    <2>1. ASSUME NEW S \in SUBSET M, HoldsList(S, u, ny)
          PROVE  v \in S
      <3>1. HoldsList(S \intersect L, u, nx)
        <4>1. ASSUME NEW x \in S \intersect L, nx[x] # Nil
              PROVE  nx[x] \in S \intersect L
          BY <2>1, <4>1 DEF HoldsList, IsList
        <4> QED BY <2>1, <4>1 DEF HoldsList
      <3> QED BY <1>1, <3>1 DEF ListFrom
    <2> QED BY <2>1 DEF ListFrom
  <1>2. ASSUME NEW u \in L, NEW v \in L, v \in ListFrom(M, u, ny)
        PROVE  v \in ListFrom(L, u, nx)
    <2>1. ASSUME NEW S \in SUBSET L, HoldsList(S, u, nx)
          PROVE  v \in S
      <3>1. HoldsList(S \union {t}, u, ny)
        BY <2>1 DEF HoldsList
      <3>2. v \in S \union {t}
        BY <1>2, <3>1 DEF ListFrom
      <3> QED BY <3>2
    <2> QED BY <2>1 DEF ListFrom
  <1>3. ASSUME NEW u \in L PROVE u \notin ListFrom(M, t, ny)
    <2>1. HoldsList({t}, t, ny) /\ {t} \in SUBSET M
      BY DEF HoldsList
    <2> QED BY <2>1 DEF ListFrom
  <1>4. ASSUME NEW u \in L PROVE t \in ListFrom(M, u, ny)
    <2>1. t \in ListFrom(M, last, ny)
      <3>1. last \in ListFrom(M, last, ny) /\ ny[last] # Nil
        BY <1>n, FromClosed
      <3>2. HoldsList(ListFrom(M, last, ny), last, ny)
        BY <1>n, FromClosed
      <3> QED BY <3>1, <3>2 DEF HoldsList
    <2>2. last \in ListFrom(L, u, nx)
      <3>1. last \in ListFrom(L, u, nx) \/ u \in ListFrom(L, last, nx)
        BY <1>n, FromTotal
      <3>2. ListFrom(L, last, nx) \subseteq {last}
        <4>1. HoldsList({last}, last, nx) /\ {last} \in SUBSET L
          BY DEF HoldsList
        <4> QED BY <4>1 DEF ListFrom
      <3>3. u \in ListFrom(L, u, nx)
        BY <1>n, FromClosed
      <3> QED BY <3>1, <3>2, <3>3
    <2>3. last \in ListFrom(M, u, ny)
      BY <1>1, <2>2
    <2>4. HoldsList(ListFrom(M, u, ny), u, ny)
      BY <1>n, FromClosed
    <2> QED BY <2>3, <2>4, <1>n DEF HoldsList
  <1> QED BY <1>1, <1>2, <1>3, <1>4 DEF LastInOrder

(* Taking the first node off changes nothing about the order of the others. *)
LEMMA FromRemoveFirst ==
    ASSUME NEW L, NEW first, NEW nx, IsList(L, first, nx), first # Nil,
           NEW u \in L \ {first}, NEW v \in L \ {first}
    PROVE  v \in ListFrom(L \ {first}, u, nx) <=> v \in ListFrom(L, u, nx)
  <1>1. \A x \in L : nx[x] # Nil => nx[x] \in L /\ nx[x] # first
    BY DEF IsList
  <1>2. ASSUME v \in ListFrom(L, u, nx), NEW S \in SUBSET (L \ {first}), HoldsList(S, u, nx)
        PROVE  v \in S
    BY <1>2 DEF ListFrom
  <1>3. ASSUME v \in ListFrom(L \ {first}, u, nx), NEW S \in SUBSET L, HoldsList(S, u, nx)
        PROVE  v \in S
    <2>1. HoldsList(S \ {first}, u, nx)
      BY <1>1, <1>3 DEF HoldsList
    <2>2. S \ {first} \in SUBSET (L \ {first})
      OBVIOUS
    <2> QED BY <1>3, <2>1, <2>2 DEF ListFrom
  <1> QED BY <1>2, <1>3 DEF ListFrom

(* Nor does taking a later one out. *)
LEMMA FromRemove ==
    ASSUME NEW L, NEW first, NEW nx, NEW ny, IsList(L, first, nx),
           NEW prev \in L, NEW t \in L, nx[prev] = t, t # Nil, t # first,
           ny[prev] = nx[t], \A u \in L \ {prev} : ny[u] = nx[u],
           NEW u \in L \ {t}, NEW v \in L \ {t}
    PROVE  v \in ListFrom(L \ {t}, u, ny) <=> v \in ListFrom(L, u, nx)
  <1>1. ASSUME prev = t PROVE FALSE
    <2>1. \A x \in L \ {t} : nx[x] # Nil => nx[x] \in L \ {t}
      BY <1>1 DEF IsList
    <2>2. first # Nil => first \in L \ {t}
      BY DEF IsList
    <2>3. HoldsList(L \ {t}, first, nx)
      BY <2>1, <2>2 DEF HoldsList
    <2>4. L \ {t} = L
      BY <2>3 DEF IsList
    <2> QED BY <2>4
  <1>2. \A x \in L : nx[x] = t => x = prev
    BY DEF IsList
  <1>3. nx[t] # t /\ prev \in L \ {t}
    BY <1>1, <1>2
  <1>4. ASSUME v \in ListFrom(L, u, nx), NEW S \in SUBSET (L \ {t}), HoldsList(S, u, ny)
        PROVE  v \in S
    <2>1. CASE prev \in S
      <3>1. HoldsList(S \union {t}, u, nx)
        BY <1>1, <1>4, <2>1 DEF HoldsList
      <3>2. v \in S \union {t}
        BY <1>4, <3>1 DEF ListFrom
      <3> QED BY <3>2
    <2>2. CASE prev \notin S
      <3>1. HoldsList(S, u, nx)
        BY <1>4, <2>2 DEF HoldsList
      <3> QED BY <1>4, <3>1 DEF ListFrom
    <2> QED BY <2>1, <2>2
  <1>5. ASSUME v \in ListFrom(L \ {t}, u, ny), NEW S \in SUBSET L, HoldsList(S, u, nx)
        PROVE  v \in S
    <2>1. HoldsList(S \ {t}, u, ny)
      <3>1. u \in S \ {t} \/ u = Nil
        BY <1>5 DEF HoldsList
      <3>2. ASSUME NEW x \in S \ {t}, ny[x] # Nil PROVE ny[x] \in S \ {t}
        <4>1. CASE x = prev
          BY <1>3, <1>5, <3>2, <4>1 DEF HoldsList
        <4>2. CASE x # prev
          BY <1>2, <1>5, <3>2, <4>2 DEF HoldsList
        <4> QED BY <4>1, <4>2
      <3> QED BY <3>1, <3>2 DEF HoldsList
    <2>2. S \ {t} \in SUBSET (L \ {t})
      OBVIOUS
    <2> QED BY <1>5, <2>1, <2>2 DEF ListFrom
  <1> QED BY <1>4, <1>5 DEF ListFrom

(* Only the links of the queue's own nodes matter. *)
LEMMA QueueFrame ==
    ASSUME NEW L, NEW first, NEW last, NEW nx, NEW ny, IsQueue(L, first, last, nx),
           \A t \in L : ny[t] = nx[t]
    PROVE  IsQueue(L, first, last, ny)
  BY ListFrame DEF IsQueue

(* The two branches of scheduler_add_to_ready_list. *)
LEMMA QueueAppend ==
    ASSUME NEW L \in SUBSET Nat, NEW first, NEW last, NEW nx, NEW ny,
           IsQueue(L, first, last, nx), last # Nil,
           NEW t \in Nat, t \notin L,
           ny[last] = t, ny[t] = Nil, \A u \in L \ {last} : ny[u] = nx[u]
    PROVE  IsQueue(L \union {t}, first, t, ny)
  <1>1. last \in L /\ first # Nil /\ nx[last] = Nil /\ IsList(L, first, nx)
    BY DEF IsQueue
  <1>2. IsList(L \union {t}, first, ny)
    BY <1>1, ListAppend
  <1>3. \A u \in L \union {t} : ny[u] = Nil <=> u = t
    BY <1>1 DEF IsQueue, Nil
  <1> QED BY <1>1, <1>2, <1>3 DEF IsQueue, Nil

(* Appending to the empty queue gives the queue of one element. *)
LEMMA QueueFirstAppend ==
    ASSUME NEW L \in SUBSET Nat, NEW first, NEW nx, NEW ny,
           IsQueue(L, first, Nil, nx), NEW t \in Nat, ny[t] = Nil
    PROVE  IsQueue(L \union {t}, t, t, ny)
  <1>1. L = {}
    BY EmptyList DEF IsQueue
  <1>2. IsList({t}, t, ny)
    BY SingletonList
  <1>3. L \union {t} = {t}
    BY <1>1
  <1> QED BY <1>2, <1>3 DEF IsQueue, Nil

(* scheduler_remove_first_ready on a queue that is not empty. *)
LEMMA QueueRemoveFirst ==
    ASSUME NEW L, NEW first, NEW last, NEW nx, IsQueue(L, first, last, nx), first # Nil
    PROVE  IsQueue(L \ {first}, nx[first], IF last = first THEN Nil ELSE last, nx)
  <1>1. IsList(L \ {first}, nx[first], nx)
    BY ListRemoveFirst DEF IsQueue
  <1>2. first \in L
    BY DEF IsQueue, IsList
  <1>3. CASE last = first
    <2>1. nx[first] = Nil
      BY <1>2, <1>3 DEF IsQueue
    <2>2. L \ {first} = {}
      BY <1>1, <2>1, EmptyList
    <2> QED BY <1>1, <1>3, <2>1, <2>2 DEF IsQueue
  <1>4. CASE last # first
    BY <1>1, <1>2, <1>4 DEF IsQueue
  <1> QED BY <1>3, <1>4

-----------------------------------------------------------------------------
(* Threads, CPUs and the idle thread are told apart; Nil and NoCtx are none of
   them. *)
LEMMA Contexts ==
    /\ Threads \subseteq Tid /\ Tid \subseteq Ctx /\ Cpus \subseteq Ctx
    /\ Threads \intersect Cpus = {} /\ Tid \intersect Cpus = {}
    /\ Idle \in Tid /\ Idle \notin Threads /\ 1 \in Threads
    /\ \A t \in Tid : t # Idle => t \in Threads
    /\ Threads \subseteq Nat /\ Nil \notin Tid
    /\ NoCtx \notin Ctx
  BY MaxThreadsAssumption, CpusAssumption DEF Threads, Tid, Ctx, Idle, Nil

(* The tests the code makes on the links of a list. *)
LEMMA Links ==
    ASSUME NEW x \in Threads \union {Nil}
    PROVE  /\ x < 0 <=> x = Nil
           /\ x <= 0 <=> x = Nil
           /\ x > 0 <=> x # Nil
           /\ x >= 0 <=> x # Nil
           /\ x # Nil => x \in Threads
  BY MaxThreadsAssumption DEF Threads, Tid, Idle, Nil

(* Labels at which a context owns a thread or is linked half-way. *)
OwnerLabels == {"none", "sleepq_append", "wake_ready", "wakeall_ready",
                "create_init", "create_run", "finish", "exit_finish", "returned", "panic"}

(* A running thread that is not in thread_finish is in state RUNNING, and    *)
(* sleeps on nothing unless it is between sleepq_add and thread_switch.      *)
LEMMA RunningThread ==
    ASSUME TableInv, NEW t \in Threads, Runs(t)
    PROVE  /\ state[t] \in {"RUNNING", "DYING"}
           /\ pc[t] \notin {"finish", "exit_finish", "returned", "panic"} => state[t] = "RUNNING"
           /\ ~SwitchedOff(t)
           /\ pc[t] \notin {"sleepq_append", "sleep_release", "sw0"} => sleeps_on[t] = NoRes
  <1>1. PICK cpu \in Cpus : current[cpu] = t /\ pc[cpu] = "none"
    BY DEF Runs
  <1>2. state[t] \in {"RUNNING", "DYING"} /\ ~SwitchedOff(t)
    BY <1>1, Contexts DEF TableInv, CurrentOK, SwitchedOff
  <1> QED BY <1>2 DEF TableInv, LifeOK, SleepLabelsOK

(* The chains of the sleep queue and the order of their threads stay as they *)
(* are.                                                                       *)
ChainsKept ==
    \A b \in Buckets : /\ Queued(b)' = Queued(b)
                       /\ \A u \in Queued(b) : next'[u] = next[u] /\ sleeps_on'[u] = sleeps_on[u]

(* A thread becomes the last one of a chain. *)
JoinsLast(b, t) ==
    /\ \A u \in Queued(b) : /\ t \in ListFrom(Queued(b)', u, next')
                            /\ u \notin ListFrom(Queued(b)', t, next')
    /\ \A u, v \in Queued(b) : v \in ListFrom(Queued(b)', u, next') <=> v \in ListFrom(Queued(b), u, next)

Joins(b, t) ==
    /\ t \notin Queued(b) /\ Queued(b)' = Queued(b) \union {t} /\ sleeps_on' = sleeps_on
    /\ \A a \in Buckets : a # b => Queued(a)' = Queued(a) /\ \A u \in Queued(a) : next'[u] = next[u]
    /\ JoinsLast(b, t)

(* A thread is taken out of its chain. *)
OthersKeepOrder(b, t) ==
    \A u, v \in Queued(b) \ {t} : v \in ListFrom(Queued(b)', u, next') <=> v \in ListFrom(Queued(b), u, next)

Leaves(b, t) ==
    /\ t \in Queued(b) /\ Queued(b)' = Queued(b) \ {t} /\ sleeps_on' = sleeps_on
    /\ \A a \in Buckets : a # b => Queued(a)' = Queued(a) /\ \A u \in Queued(a) : next'[u] = next[u]
    /\ OthersKeepOrder(b, t)

(* Steps that change no more than locks, counters and one label. *)
LEMMA LabelStep ==
    ASSUME TableInv, TypeOK', NEW c \in Ctx, NEW from, NEW to,
           At(c, from), Goto(c, to), OnlyPc,
           \A d \in Ctx : d # c => res'[d] = res[d],
           from \notin OwnerLabels, to \notin OwnerLabels,
           c \in Cpus => to \in HandlerLabels,
           c \notin Cpus => to # "intr_exit",
           from \notin {"sw0", "intr_exit"}, from = "sleep_release" => to = "sw0",
           to \in {"P_acquire", "V_acquire", "sem_release", "wake_find"} => res'[c] \in Sems,
           to \in {"join_acquire", "exit_acquire", "wakeall_find", "exit_release"}
             => res'[c] \in Events,
           to \in {"sleepq_mark", "sleep_release"} => res'[c] \in Resources
    PROVE  TableInv' /\ ChainsKept
  <1> USE Contexts DEF OnlyPc, Goto, tableVars, listVars, queueVars, OwnerLabels
  <1>0. pc \in [Ctx -> Labels] /\ pc[c] = from /\ (c \in Threads => Runs(c)) /\ c # Idle
        /\ (c \notin Cpus => c \in Threads)
    BY DEF TableInv, TypeOK, At, Runs, Ctx
  <1>1. c \in Threads => /\ state[c] = "RUNNING" /\ ~SwitchedOff(c)
                         /\ from # "sleep_release" => sleeps_on[c] = NoRes
    BY <1>0, RunningThread
  <1>2. ReadyListOK' /\ CurrentOK' /\ SleepStateOK'
    BY SMTT(20) DEF TableInv, ReadyListOK, CurrentOK, SleepStateOK, ReadyThreads, IsQueue, IsList, HoldsList
  <1>3. LabelsOK'
    BY <1>0 DEF TableInv, LabelsOK, HandlerLabels
  <1>4. ArgumentsOK'
    BY <1>0 DEF TableInv, ArgumentsOK
  <1>5. InterruptsOffOK'
    BY <1>0 DEF TableInv, InterruptsOffOK, Runs
  <1>6. \A t \in Threads : SwitchedOff(t) => SwitchedOff(t)'
    BY <1>0, <1>1 DEF SwitchedOff, At, HandlerLabels
  <1>7. SleepLabelsOK'
    BY <1>0, <1>1, <1>6 DEF TableInv, SleepLabelsOK
  <1>8. AppendOK'
    BY <1>0 DEF TableInv, AppendOK
  <1>9. WakingOK'
    BY <1>0 DEF TableInv, WakingOK
  <1>10. CreateOK'
    BY <1>0, <1>1 DEF TableInv, CreateOK
  <1>11. LifeOK'
    BY <1>0, <1>1, <1>6 DEF TableInv, LifeOK
  <1>12. SleepQueueOK' /\ ChainsKept
    <2>1. \A b \in Buckets : Queued(b)' = Queued(b)
      BY <1>0 DEF Queued, Waking
    <2>2. SleepQueueOK'
      BY <2>1 DEF TableInv, SleepQueueOK, IsList, HoldsList
    <2> QED BY <2>1, <2>2 DEF ChainsKept
  <1> QED BY <1>2, <1>3, <1>4, <1>5, <1>7, <1>8, <1>9, <1>10, <1>11, <1>12 DEF TableInv

(* semaphore_P, semaphore_V, process_join, process_finish and thread_switch  *)
(* as far as they only take and release locks.                               *)
LEMMA CallStep ==
    ASSUME TableInv, NEW t \in Threads, NEW s \in Resources \union {NoRes}, NEW label,
           Call(t, s, label),
           \/ label \in {"P_acquire", "V_acquire"} /\ s \in Sems
           \/ label \in {"join_acquire", "exit_acquire"} /\ s \in Events
           \/ label = "sw0" /\ s = NoRes
    PROVE  TableInv' /\ ChainsKept
  <1> USE Contexts
  <1>1. TypeOK'
    BY DEF Call, Goto, TableInv, TypeOK, ThreadTypeOK, Labels, Preemptible, tableVars,
           listVars, queueVars, semVars, procVars
  <1>2. At(t, "run") /\ Goto(t, label) /\ OnlyPc /\ res'[t] = s
        /\ \A d \in Ctx : d # t => res'[d] = res[d]
    <2>1. At(t, "run") /\ Goto(t, label) /\ OnlyPc
      BY DEF Call, OnlyPc
    <2>2. t \in DOMAIN res /\ res' = [res EXCEPT ![t] = s]
      BY DEF Call, TableInv, TypeOK, ThreadTypeOK
    <2> QED BY <2>1, <2>2
  <1> QED BY <1>1, <1>2, LabelStep, ZenonT(30) DEF OwnerLabels

(* P_Acquire, V_Acquire, SemRelease, SleepRelease, JoinAcquire, ExitAcquire and
   ExitRelease take or release a lock and keep TableInv. *)
LEMMA LockStep ==
    ASSUME TableInv, NEW c \in Ctx,
           \/ P_Acquire(c) /\ c \in Threads
           \/ V_Acquire(c) \/ SemRelease(c)
           \/ SleepRelease(c) /\ c \in Threads
           \/ (JoinAcquire(c) \/ ExitAcquire(c) \/ ExitRelease(c)) /\ c \in Threads
    PROVE  TableInv' /\ ChainsKept
  <1> USE Contexts, ResourcesAssumption DEF OwnerLabels, HandlerLabels
  <1> DEFINE Frame == OnlyPc /\ (\A d \in Ctx : d # c => res'[d] = res[d])
  <1>0. TableInv => TypeOK /\ ThreadTypeOK /\ ArgumentsOK
    BY DEF TableInv, TypeOK
  <1>t. ASSUME OnlyPc, NEW to \in Labels, Goto(c, to), res' \in [Ctx -> Resources \union {NoRes}],
               value' \in [Sems -> Int], slock' \in [Sems -> Ctx \union {NoCtx}],
               zombie' \in [Events -> BOOLEAN], ptable_slock' \in Ctx \union {NoCtx}
        PROVE  TypeOK'
    BY <1>0, <1>t DEF TypeOK, ThreadTypeOK, OnlyPc, Goto, tableVars, listVars, queueVars
  <1>1. CASE P_Acquire(c) /\ c \in Threads
    <2> DEFINE to == IF value[res[c]] - 1 < 0 THEN "sleepq_mark" ELSE "sem_release"
    <2>0. to \in {"sleepq_mark", "sem_release"} /\ to \in Labels
      BY DEF Labels, Preemptible
    <2>1. At(c, "P_acquire") /\ Goto(c, to) /\ Frame /\ res'[c] \in Sems
      BY <1>0, <1>1 DEF P_Acquire, At, ArgumentsOK
    <2> HIDE DEF to
    <2>2. TypeOK'
      BY <1>0, <1>1, <1>t, <2>0, <2>1 DEF P_Acquire, TypeOK, ThreadTypeOK, procVars
    <2> QED BY <1>1, <2>0, <2>1, <2>2, LabelStep
  <1>2. CASE V_Acquire(c)
    <2> DEFINE to == IF value[res[c]] + 1 <= 0 THEN "wake_find" ELSE "sem_release"
    <2>0. to \in {"wake_find", "sem_release"} /\ to \in Labels
      BY DEF Labels, Preemptible
    <2>1. At(c, "V_acquire") /\ Goto(c, to) /\ Frame /\ res'[c] \in Sems
      BY <1>0, <1>2 DEF V_Acquire, At, ArgumentsOK
    <2> HIDE DEF to
    <2>2. TypeOK'
      BY <1>0, <1>2, <1>t, <2>0, <2>1 DEF V_Acquire, TypeOK, ThreadTypeOK, procVars
    <2> QED BY <2>0, <2>1, <2>2, LabelStep
  <1>3. CASE SemRelease(c)
    <2> DEFINE to == IF c \in Cpus THEN "intr_exit" ELSE "run"
    <2>0. to \in {"intr_exit", "run"} /\ (c \in Cpus <=> to = "intr_exit") /\ to \in Labels
      BY DEF Labels, Preemptible
    <2>1. At(c, "sem_release") /\ Goto(c, to) /\ Frame
      BY <1>0, <1>3 DEF SemRelease, ThreadTypeOK
    <2> HIDE DEF to
    <2>2. TypeOK'
      BY <1>0, <1>3, <1>t, <2>0, <2>1
         DEF SemRelease, TypeOK, ThreadTypeOK, procVars
    <2> QED BY <2>0, <2>1, <2>2, LabelStep
  <1>4. CASE SleepRelease(c) /\ c \in Threads
    <2>1. At(c, "sleep_release") /\ Goto(c, "sw0") /\ Frame
      BY <1>4 DEF SleepRelease
    <2>t. "sw0" \in Labels /\ slock' \in [Sems -> Ctx \union {NoCtx}]
          /\ ptable_slock' \in Ctx \union {NoCtx}
      BY <1>0, <1>4 DEF SleepRelease, TypeOK, Labels, Preemptible
    <2>2. TypeOK'
      BY <1>0, <1>4, <1>t, <2>1, <2>t DEF SleepRelease, TypeOK, ThreadTypeOK
    <2> QED BY <1>4, <2>1, <2>2, LabelStep
  <1>5. CASE JoinAcquire(c) /\ c \in Threads
    <2> DEFINE to == IF zombie[res[c]] THEN "run" ELSE "sleepq_mark"
    <2>0. to \in {"run", "sleepq_mark"} /\ to \in Labels
      BY DEF Labels, Preemptible
    <2>1. At(c, "join_acquire") /\ Goto(c, to) /\ Frame
      <3>1. CASE zombie[res[c]]
        BY <1>0, <1>5, <3>1 DEF JoinAcquire, ThreadTypeOK
      <3>2. CASE ~zombie[res[c]]
        BY <1>0, <1>5, <3>2 DEF JoinAcquire, ThreadTypeOK
      <3> QED BY <3>1, <3>2
    <2>3. to = "sleepq_mark" => res'[c] \in Resources
      BY <1>0, <1>5 DEF JoinAcquire, At, ArgumentsOK
    <2> HIDE DEF to
    <2>t. /\ zombie' \in [Events -> BOOLEAN] /\ ptable_slock' \in Ctx \union {NoCtx}
          /\ res' \in [Ctx -> Resources \union {NoRes}]
          /\ value' = value /\ slock' = slock
      <3>1. CASE zombie[res[c]]
        <4>1. /\ zombie' = [zombie EXCEPT ![res[c]] = FALSE] /\ ptable_slock' = ptable_slock
              /\ res' = [res EXCEPT ![c] = NoRes] /\ value' = value /\ slock' = slock
          BY <1>5, <3>1 DEF JoinAcquire, semVars
        <4>2. zombie' \in [Events -> BOOLEAN]
          BY <1>0, <4>1, Zenon DEF TypeOK
        <4> QED BY <1>0, <4>1, <4>2 DEF TypeOK, ThreadTypeOK
      <3>2. CASE ~zombie[res[c]]
        BY <1>0, <1>5, <3>2 DEF JoinAcquire, TypeOK, ThreadTypeOK, semVars
      <3> QED BY <3>1, <3>2
    <2>2. TypeOK'
      BY <1>0, <1>t, <2>0, <2>1, <2>t DEF TypeOK
    <2> QED BY <2>0, <1>5, <2>1, <2>2, <2>3, LabelStep
  <1>6. CASE ExitAcquire(c) /\ c \in Threads
    <2>1. At(c, "exit_acquire") /\ Goto(c, "wakeall_find") /\ Frame /\ res'[c] \in Events
      BY <1>0, <1>6 DEF ExitAcquire, At, ArgumentsOK
    <2>2. TypeOK'
      BY <1>0, <1>6, <1>t, <2>1 DEF ExitAcquire, TypeOK, ThreadTypeOK, Labels, semVars
    <2> QED BY <1>6, <2>1, <2>2, LabelStep
  <1>7. CASE ExitRelease(c) /\ c \in Threads
    <2>1. At(c, "exit_release") /\ Goto(c, "thread_finish") /\ Frame
      BY <1>7 DEF ExitRelease
    <2>2. TypeOK'
      BY <1>0, <1>7, <1>t, <2>1
         DEF ExitRelease, TypeOK, ThreadTypeOK, Labels, Preemptible, semVars
    <2> QED BY <1>7, <2>1, <2>2, LabelStep
  <1> QED BY <1>1, <1>2, <1>3, <1>4, <1>5, <1>6, <1>7

----------------------------------------------------------------------------
(* The lists. *)

ReadyLists == [head : Threads \union {Nil}, tail : Threads \union {Nil},
               next : [Tid -> Threads \union {Nil}]]

(* q is a ready list that holds the threads of L. *)
ReadyQueue(L, q) == q \in ReadyLists /\ L \in SUBSET Threads /\ IsQueue(L, q.head, q.tail, q.next)

(* The links of the threads outside L are the same in q and r. *)
SameOutside(L, q, r) == \A u \in Tid : u \notin L => r.next[u] = q.next[u]

(* scheduler_add_to_ready_list adds one thread to a queue and changes no     *)
(* link outside it.                                                          *)
LEMMA AddReady ==
    ASSUME NEW q, NEW L, ReadyQueue(L, q), NEW t \in Threads, t \notin L,
           NEW r, r = scheduler_add_to_ready_list(q, t)
    PROVE  ReadyQueue(L \union {t}, r) /\ SameOutside(L \union {t}, q, r)
  <1> USE Contexts
  <1>0. q.head \in Threads \union {Nil} /\ q.tail \in Threads \union {Nil}
        /\ q.next \in [Tid -> Threads \union {Nil}]
    BY DEF ReadyLists, ReadyQueue
  <1>q. L \in SUBSET Threads /\ IsQueue(L, q.head, q.tail, q.next)
    BY DEF ReadyQueue
  <1>1. CASE q.tail < 0
    <2>1. q.tail = Nil
      BY <1>0, <1>1, Links
    <2>2. r = [head |-> t, tail |-> t, next |-> [q.next EXCEPT ![t] = Nil]]
      BY <1>1 DEF scheduler_add_to_ready_list
    <2>3. r \in ReadyLists /\ r.next[t] = Nil /\ r.head = t /\ r.tail = t
          /\ \A u \in Tid : u # t => r.next[u] = q.next[u]
      BY <1>0, <2>2 DEF ReadyLists
    <2>4. IsQueue(L \union {t}, t, t, r.next)
      BY <1>q, <2>1, <2>3, QueueFirstAppend
    <2> QED BY <1>q, <2>3, <2>4 DEF ReadyQueue, SameOutside
  <1>2. CASE ~(q.tail < 0)
    <2>1. q.tail # Nil /\ q.tail \in L
      BY <1>0, <1>q, <1>2, Links DEF IsQueue
    <2>2. r = [head |-> q.head, tail |-> t,
               next |-> [q.next EXCEPT ![q.tail] = t, ![t] = Nil]]
      BY <1>2 DEF scheduler_add_to_ready_list
    <2>3. r.head = q.head /\ r.tail = t /\ r.next = [q.next EXCEPT ![q.tail] = t, ![t] = Nil]
      BY <2>2
    <2>4. r.next[t] = Nil /\ r.next[q.tail] = t
          /\ r.next \in [Tid -> Threads \union {Nil}]
          /\ \A u \in Tid : u # t /\ u # q.tail => r.next[u] = q.next[u]
      BY <1>0, <2>1, <2>3
    <2>5. r \in ReadyLists
      BY <1>0, <2>2, <2>4 DEF ReadyLists
    <2>6. IsQueue(L \union {t}, q.head, t, r.next)
      BY <1>q, <2>1, <2>4, QueueAppend
    <2> QED BY <1>q, <2>1, <2>3, <2>4, <2>5, <2>6 DEF ReadyQueue, SameOutside
  <1> QED BY <1>1, <1>2

(* scheduler_remove_first_ready takes the first thread off, if there is one. *)
LEMMA RemoveReady ==
    ASSUME NEW q, NEW L, ReadyQueue(L, q), NEW r, r = scheduler_remove_first_ready(q)
    PROVE  /\ ReadyQueue(L \ {FirstReady(q)}, r) /\ r.next = q.next
           /\ FirstReady(q) \in L \union {Idle}
  <1> USE Contexts
  <1>0. q.head \in Threads \union {Nil} /\ q.tail \in Threads \union {Nil}
        /\ q.next \in [Tid -> Threads \union {Nil}]
        /\ L \subseteq Threads /\ IsQueue(L, q.head, q.tail, q.next) /\ q \in ReadyLists
    BY DEF ReadyLists, ReadyQueue
  <1>1. CASE q.head >= 0
    <2>1. q.head # Nil /\ FirstReady(q) = q.head /\ q.head \in L
      <3>1. q.head # Nil /\ ~(q.head < 0)
        BY <1>0, <1>1, Links
      <3> QED BY <1>0, <3>1 DEF FirstReady, IsQueue, IsList
    <2>2. r = [head |-> q.next[q.head], tail |-> IF q.tail = q.head THEN Nil ELSE q.tail,
               next |-> q.next]
      BY <1>1 DEF scheduler_remove_first_ready
    <2>3. r \in ReadyLists
      <3>1. q.next[q.head] \in Threads \union {Nil}
        BY <1>0, <2>1
      <3> QED BY <1>0, <3>1, <2>2 DEF ReadyLists
    <2>4. IsQueue(L \ {q.head}, q.next[q.head], IF q.tail = q.head THEN Nil ELSE q.tail, q.next)
      BY <1>0, <2>1, QueueRemoveFirst
    <2> QED BY <1>0, <2>1, <2>2, <2>3, <2>4 DEF ReadyQueue
  <1>2. CASE ~(q.head >= 0)
    <2>1. q.head = Nil /\ FirstReady(q) = Idle /\ r = q
      BY <1>0, <1>2, Links DEF FirstReady, scheduler_remove_first_ready
    <2>2. L \ {Idle} = L
      BY <1>0
    <2> QED BY <1>0, <2>1, <2>2 DEF ReadyQueue
  <1> QED BY <1>1, <1>2

(* The ready list is made of READY threads, the chains of threads that are   *)
(* not: a link of one list is never a link of another.                       *)
LEMMA Disjoint ==
    ASSUME TableInv
    PROVE  /\ ReadyThreads \subseteq Threads
           /\ \A b \in Buckets : /\ Queued(b) \subseteq Threads
                                 /\ Queued(b) \intersect ReadyThreads = {}
                                 /\ \A u \in Queued(b) : sleeps_on[u] \in Resources
           /\ \A a, b \in Buckets : a # b => Queued(a) \intersect Queued(b) = {}
           /\ \A b \in Buckets : hashtable[b] # Nil <=> hashtable[b] > 0
           /\ \A u \in Tid : next[u] # Nil <=> next[u] > 0
  <1>1. /\ \A b \in Buckets : hashtable[b] \in Threads \union {Nil}
        /\ \A u \in Tid : next[u] \in Threads \union {Nil}
        /\ \A u \in Threads : sleeps_on[u] # NoRes => sleeps_on[u] \in Resources
    BY Contexts DEF TableInv, TypeOK, ThreadTypeOK
  <1>2. \A b \in Buckets : hashtable[b] # Nil <=> hashtable[b] > 0
    BY <1>1, Links
  <1>3. \A u \in Tid : next[u] # Nil <=> next[u] > 0
    BY <1>1, Links
  <1>4. \A u \in Threads : sleeps_on[u] # NoRes => state[u] # "READY"
    BY DEF TableInv, SleepStateOK
  <1> QED BY <1>1, <1>2, <1>3, <1>4 DEF Queued, ReadyThreads

(* A traversal of a chain meets only threads of that chain. *)
LEMMA WalkInChain ==
    ASSUME TableInv, NEW b \in Buckets, NEW stop
    PROVE  Walk(b, stop) \subseteq Queued(b)
  <1>1. Follows(Queued(b), b, stop)
    BY Disjoint, Contexts DEF Follows, TableInv, SleepQueueOK, IsList
  <1>2. Queued(b) \in SUBSET Threads
    BY Disjoint
  <1> QED BY <1>1, <1>2 DEF Walk

----------------------------------------------------------------------------
(* sleepq_add, first half: the caller is on no list and is linked to none. *)
LEMMA MarkStep ==
    ASSUME TableInv, NEW t \in Threads, SleepqMark(t), UNCHANGED <<semVars, procVars>>
    PROVE  TableInv' /\ ChainsKept
  <1> USE Contexts, Disjoint DEF SleepqMark, Goto, listVars, queueVars
  <1>0. /\ pc \in [Ctx -> Labels] /\ pc[t] = "sleepq_mark" /\ Runs(t) /\ TypeOK
        /\ ThreadTypeOK /\ res[t] \in Resources /\ res[t] # NoRes
    BY NoResAssumption DEF TableInv, TypeOK, At, ArgumentsOK
  <1>1. state[t] = "RUNNING" /\ ~SwitchedOff(t) /\ sleeps_on[t] = NoRes
    BY <1>0, RunningThread
  <1>2. TypeOK'
    BY <1>0 DEF TypeOK, ThreadTypeOK, Labels, semVars, procVars
  <1>3. ReadyListOK'
    <2>1. ReadyThreads' = ReadyThreads /\ t \notin ReadyThreads
      BY <1>1 DEF ReadyThreads
    <2>2. \A u \in ReadyThreads : next'[u] = next[u]
      BY <1>0, <2>1 DEF ThreadTypeOK
    <2> QED BY <2>1, <2>2, QueueFrame DEF TableInv, ReadyListOK
  <1>4. SleepQueueOK' /\ ChainsKept
    <2>1. ASSUME NEW b \in Buckets
          PROVE  Queued(b)' = Queued(b) /\ t \notin Queued(b)
      BY <1>0, <1>1 DEF Queued, Waking, TypeOK, ThreadTypeOK
    <2>2. \A b \in Buckets : \A u \in Queued(b) : next'[u] = next[u]
      BY <1>0, <2>1 DEF ThreadTypeOK
    <2>3. SleepQueueOK'
      BY <2>1, <2>2, ListFrame, ZenonT(30) DEF TableInv, SleepQueueOK
    <2>4. \A b \in Buckets : \A u \in Queued(b) : sleeps_on'[u] = sleeps_on[u]
      BY <1>0, <2>1 DEF ThreadTypeOK
    <2> QED BY <2>1, <2>2, <2>3, <2>4 DEF ChainsKept
  <1>5. CurrentOK' /\ SleepStateOK'
    BY <1>0, <1>1 DEF TableInv, CurrentOK, SleepStateOK, ThreadTypeOK
  <1>6. LabelsOK' /\ ArgumentsOK' /\ InterruptsOffOK'
    BY <1>0 DEF TableInv, LabelsOK, HandlerLabels, ArgumentsOK, InterruptsOffOK, Runs
  <1>7. \A u \in Threads : SwitchedOff(u) => SwitchedOff(u)'
    BY <1>0 DEF SwitchedOff
  <1>8. SleepLabelsOK' /\ AppendOK'
    BY <1>0, <1>7 DEF TableInv, SleepLabelsOK, AppendOK, ThreadTypeOK
  <1>9. WakingOK'
    BY <1>0, <1>1 DEF TableInv, WakingOK, ThreadTypeOK
  <1>10. CreateOK' /\ LifeOK'
    BY <1>0, <1>1, <1>7 DEF TableInv, CreateOK, LifeOK
  <1> QED BY <1>2, <1>3, <1>4, <1>5, <1>6, <1>8, <1>9, <1>10 DEF TableInv

(* sleepq_add, second half: the caller becomes the last of its chain. *)
LEMMA AppendStep ==
    ASSUME TableInv, NEW t \in Threads, SleepqAppend(t), UNCHANGED <<semVars, procVars>>
    PROVE  TableInv' /\ Joins(Hash[res[t]], t)
  <1> USE Contexts, Disjoint
  <1>b. PICK b \in Buckets : b = Hash[res[t]]
    BY HashAssumption, ResourcesAssumption DEF SleepqAppend, TableInv, At, ArgumentsOK
  <1>0. /\ pc \in [Ctx -> Labels] /\ pc[t] = "sleepq_append" /\ Runs(t) /\ TypeOK
        /\ ThreadTypeOK /\ res[t] \in Resources
        /\ sleeps_on[t] = res[t] /\ next[t] = Nil /\ sleeps_on[t] # NoRes
    BY NoResAssumption, HashAssumption
       DEF SleepqAppend, TableInv, TypeOK, At, ArgumentsOK, AppendOK
  <1>1. state[t] = "RUNNING" /\ ~SwitchedOff(t)
    BY <1>0, RunningThread
  <1>2. /\ pc' = [pc EXCEPT ![t] = "sleep_release"] /\ sleepq_slock = NoCtx
        /\ UNCHANGED <<state, sleeps_on, head, tail, sleepq_slock, current, next_tid,
                       in_interrupt, res, tid, resched, value, slock, zombie, ptable_slock>>
    BY DEF SleepqAppend, Goto, listVars, semVars, procVars
  <1>3. \A c \in Ctx : pc[c] \notin {"wake_ready", "wakeall_ready"}
                        /\ pc'[c] \notin {"wake_ready", "wakeall_ready"}
    BY <1>0, <1>2 DEF TableInv, WakingOK
  <1>4. /\ Queued(b)' = Queued(b) \union {t} /\ t \notin Queued(b)
        /\ \A a \in Buckets : a # b => Queued(a)' = Queued(a)
    BY <1>0, <1>2, <1>3, <1>b DEF Queued, Waking
  <1>5. IsList(Queued(b), hashtable[b], next)
    BY <1>0 DEF TableInv, SleepQueueOK
  <1>6. \/ /\ hashtable[b] = Nil /\ next' = next
           /\ hashtable' = [hashtable EXCEPT ![b] = t]
        \/ /\ hashtable[b] # Nil /\ hashtable' = hashtable
           /\ \E last \in Queued(b) : next[last] = Nil /\ next' = [next EXCEPT ![last] = t]
    <2>1. hashtable[b] <= 0 <=> hashtable[b] = Nil
      BY <1>0, Links DEF ThreadTypeOK
    <2>2. \A u \in Threads : next[u] <= 0 <=> next[u] = Nil
      BY <1>0, Links DEF ThreadTypeOK
    <2>3. Walk(b, NoRes) \subseteq Queued(b)
      BY <1>0, WalkInChain
    <2> QED BY <1>b, <2>1, <2>2, <2>3 DEF SleepqAppend
  <1> DEFINE Linked ==
        /\ IsList(Queued(b)', hashtable'[b], next')
        /\ \A u \in Tid : u \notin Queued(b) => next'[u] = next[u]
        /\ next' \in [Tid -> Threads \union {Nil}]
        /\ hashtable' \in [Buckets -> Threads \union {Nil}]
        /\ \A a \in Buckets : a # b => hashtable'[a] = hashtable[a]
        /\ JoinsLast(b, t)
  <1>7. Linked
    <2>1. CASE hashtable[b] = Nil /\ next' = next /\ hashtable' = [hashtable EXCEPT ![b] = t]
      <3>1. Queued(b) = {}
        BY <1>5, <2>1, EmptyList
      <3>2. IsList({t}, t, next)
        BY <1>0, SingletonList
      <3>3. Queued(b)' = {t} /\ hashtable'[b] = t
        BY <1>0, <1>4, <2>1, <3>1 DEF ThreadTypeOK
      <3> QED BY <1>0, <2>1, <3>1, <3>2, <3>3 DEF ThreadTypeOK, JoinsLast
    <2>2. ASSUME hashtable[b] # Nil, hashtable' = hashtable,
                 NEW last \in Queued(b), next[last] = Nil, next' = [next EXCEPT ![last] = t]
          PROVE  Linked
      <3>1. /\ next'[last] = t /\ next'[t] = Nil
            /\ \A u \in Tid : u # last => next'[u] = next[u]
        BY <1>0, <1>4, <2>2 DEF ThreadTypeOK
      <3>2. /\ Queued(b) \in SUBSET Nat /\ t \in Nat /\ last \in Queued(b) /\ t \notin Queued(b)
            /\ hashtable[b] # Nil /\ next[last] = Nil /\ next'[last] = t /\ next'[t] = Nil
            /\ \A u \in Queued(b) \ {last} : next'[u] = next[u]
        BY <1>4, <2>2, <3>1
      <3>3. IsList(Queued(b) \union {t}, hashtable[b], next') /\ JoinsLast(b, t)
        <4> HIDE Contexts, Disjoint
        <4>1. IsList(Queued(b) \union {t}, hashtable[b], next')
          BY <1>5, <3>2, ListAppend
        <4>2. LastInOrder(Queued(b), t, next, next')
          BY <1>5, <3>2, FromAppend
        <4> QED BY <1>4, <4>1, <4>2 DEF JoinsLast, LastInOrder
      <3> QED BY <1>0, <1>4, <2>2, <3>1, <3>3 DEF ThreadTypeOK
    <2> QED BY <1>6, <2>1, <2>2
  <1>8. TypeOK'
    BY <1>0, <1>2, <1>7 DEF TypeOK, ThreadTypeOK, Labels
  <1>9. ReadyListOK'
    <2>1. ReadyThreads' = ReadyThreads
      BY <1>2 DEF ReadyThreads
    <2>2. \A u \in ReadyThreads : next'[u] = next[u]
      BY <1>0, <1>7
    <2> QED BY <1>2, <2>1, <2>2, QueueFrame DEF TableInv, ReadyListOK
  <1>10. SleepQueueOK'
    <2>1. ASSUME NEW a \in Buckets, a # b
          PROVE  IsList(Queued(a)', hashtable'[a], next')
      <3>1. \A u \in Queued(a) : next'[u] = next[u]
        BY <1>0, <1>7, <2>1
      <3> QED BY <1>4, <1>7, <2>1, <3>1, ListFrame DEF TableInv, SleepQueueOK
    <2> QED BY <1>7, <2>1 DEF SleepQueueOK
  <1>j. Joins(Hash[res[t]], t)
    BY <1>0, <1>2, <1>4, <1>7, <1>b DEF Joins
  <1>11. CurrentOK' /\ SleepStateOK'
    BY <1>2 DEF TableInv, CurrentOK, SleepStateOK
  <1>12. LabelsOK' /\ ArgumentsOK' /\ InterruptsOffOK'
    BY <1>0, <1>2 DEF TableInv, LabelsOK, HandlerLabels, ArgumentsOK, InterruptsOffOK, Runs
  <1>13. \A u \in Threads : SwitchedOff(u) => SwitchedOff(u)'
    BY <1>0, <1>2 DEF SwitchedOff
  <1>14. SleepLabelsOK'
    BY <1>0, <1>2, <1>13 DEF TableInv, SleepLabelsOK
  <1>15. AppendOK'
    BY <1>0, <1>2, <1>7 DEF TableInv, AppendOK, Queued
  <1>16. WakingOK'
    BY <1>3 DEF WakingOK
  <1>17. CreateOK' /\ LifeOK'
    BY <1>0, <1>1, <1>2, <1>13 DEF TableInv, CreateOK, LifeOK
  <1> QED BY <1>8, <1>9, <1>10, <1>11, <1>12, <1>14, <1>15, <1>16, <1>17, <1>j DEF TableInv

----------------------------------------------------------------------------
(* The labels of sleepq_wake, called by semaphore_V, and of sleepq_wake_all, *)
(* called by process_finish.                                                 *)
FindLabels(c, label, found, done) ==
    \/ label = "wake_find" /\ found = "wake_ready" /\ done = "sem_release"
    \/ label = "wakeall_find" /\ found = "wakeall_ready" /\ done = "exit_release" /\ c \in Threads

(* The search when it finds a thread: it leaves its chain, and nothing else  *)
(* does.                                                                     *)
LEMMA FoundStep ==
    ASSUME TableInv, NEW c \in Ctx, NEW label, NEW found, NEW done,
           FindLabels(c, label, found, done), At(c, label), sleepq_slock \in {NoCtx, c},
           NEW first \in Threads, Sleeper(c, first), Unlink(c, first), Goto(c, found),
           UNCHANGED <<state, sleeps_on, listVars, current, next_tid, in_interrupt, res, resched>>,
           UNCHANGED <<semVars, procVars>>
    PROVE  TableInv' /\ Leaves(Hash[res[c]], first)
  <1> USE Contexts, Disjoint
  <1>0. /\ pc \in [Ctx -> Labels] /\ pc[c] = label /\ TypeOK /\ ThreadTypeOK
        /\ (c \in Threads => Runs(c)) /\ res[c] \in Resources /\ c # Idle
        /\ label \in {"wake_find", "wakeall_find"} /\ found \in {"wake_ready", "wakeall_ready"}
        /\ (c \in Threads \/ c \in Cpus)
    BY ResourcesAssumption DEF TableInv, TypeOK, At, Runs, ArgumentsOK, FindLabels, Ctx
  <1>b. PICK b \in Buckets : b = Hash[res[c]]
    BY <1>0, HashAssumption
  <1>1. c \in Threads => state[c] = "RUNNING" /\ ~SwitchedOff(c) /\ sleeps_on[c] = NoRes
    BY <1>0, RunningThread
  <1>2. /\ pc' = [pc EXCEPT ![c] = found] /\ tid' = [tid EXCEPT ![c] = first]
        /\ sleepq_slock' = c
        /\ UNCHANGED <<state, sleeps_on, head, tail, current, next_tid,
                       in_interrupt, res, resched, value, slock, zombie, ptable_slock>>
    BY DEF Unlink, Goto, listVars, semVars, procVars
  <1>3. \A d \in Ctx : pc[d] \notin {"wake_ready", "wakeall_ready"}
    BY <1>0 DEF TableInv, WakingOK
  <1>4. first \in Queued(b) /\ sleeps_on[first] # NoRes /\ first # c
    BY <1>0, <1>1, <1>b, WalkInChain, NoResAssumption DEF Sleeper
  <1>5. /\ Queued(b)' = Queued(b) \ {first}
        /\ \A a \in Buckets : a # b => Queued(a)' = Queued(a)
    <2>1. \A u \in Threads : ~Waking(u) /\ (Waking(u)' <=> u = first)
      BY <1>0, <1>2, <1>3 DEF Waking, ThreadTypeOK
    <2>2. \A u \in Threads : pc'[u] = "sleepq_append" <=> pc[u] = "sleepq_append"
      BY <1>0, <1>2
    <2> QED BY <1>2, <1>4, <2>1, <2>2 DEF Queued
  <1>6. IsList(Queued(b), hashtable[b], next)
    BY DEF TableInv, SleepQueueOK
  <1> DEFINE Linked ==
        /\ IsList(Queued(b)', hashtable'[b], next')
        /\ \A u \in Tid : u \notin Queued(b) => next'[u] = next[u]
        /\ next' \in [Tid -> Threads \union {Nil}]
        /\ hashtable' \in [Buckets -> Threads \union {Nil}]
        /\ \A a \in Buckets : a # b => hashtable'[a] = hashtable[a]
        /\ OthersKeepOrder(b, first)
  <1>7. Linked
    <2>0. first # Nil /\ next[first] \in Threads \union {Nil}
      BY <1>0 DEF ThreadTypeOK
    <2>1. CASE hashtable[b] = first
      <3>1. hashtable' = [hashtable EXCEPT ![b] = next[first]] /\ next' = next
        BY <1>b, <2>1 DEF Unlink
      <3>2. IsList(Queued(b) \ {first}, next[first], next)
        BY <1>6, <2>0, <2>1, ListRemoveFirst
      <3>3. hashtable'[b] = next[first]
        BY <1>0, <3>1 DEF ThreadTypeOK
      <3>4. \A u, v \in Queued(b) \ {first} :
               v \in ListFrom(Queued(b) \ {first}, u, next) <=> v \in ListFrom(Queued(b), u, next)
        BY <1>6, <2>0, <2>1, FromRemoveFirst
      <3>5. OthersKeepOrder(b, first)
        BY <1>5, <3>1, <3>4 DEF OthersKeepOrder
      <3> QED BY <1>0, <1>5, <2>0, <3>1, <3>2, <3>3, <3>5 DEF ThreadTypeOK
    <2>2. CASE hashtable[b] # first
      <3>1. PICK prev \in Walk(b, res[c]) :
              next[prev] = first /\ next' = [next EXCEPT ![prev] = next[first]]
        BY <1>b, <2>2 DEF Unlink
      <3>2. prev \in Queued(b) /\ hashtable' = hashtable
        BY <1>b, <2>2, WalkInChain DEF Unlink
      <3>3. next'[prev] = next[first] /\ \A u \in Tid : u # prev => next'[u] = next[u]
        BY <1>0, <3>1, <3>2 DEF ThreadTypeOK
      <3>4. \A u \in Queued(b) \ {prev} : next'[u] = next[u]
        BY <3>3
      <3>5. IsList(Queued(b) \ {first}, hashtable[b], next')
        <4>1. /\ prev \in Queued(b) /\ first \in Queued(b) /\ next[prev] = first
              /\ first # Nil /\ first # hashtable[b] /\ next'[prev] = next[first]
          BY <1>4, <2>0, <2>2, <3>1, <3>2, <3>3
        <4> HIDE Contexts, Disjoint
        <4> QED BY <1>6, <3>4, <4>1, ListRemove
      <3>6. OthersKeepOrder(b, first)
        <4>1. /\ prev \in Queued(b) /\ first \in Queued(b) /\ next[prev] = first
              /\ first # Nil /\ first # hashtable[b] /\ next'[prev] = next[first]
          BY <1>4, <2>0, <2>2, <3>1, <3>2, <3>3
        <4> HIDE Contexts, Disjoint
        <4>2. \A u, v \in Queued(b) \ {first} :
                 v \in ListFrom(Queued(b) \ {first}, u, next') <=> v \in ListFrom(Queued(b), u, next)
          BY <1>6, <3>4, <4>1, FromRemove
        <4> QED BY <1>5, <4>2 DEF OthersKeepOrder
      <3>7. \A u \in Tid : u \notin Queued(b) => next'[u] = next[u]
        BY <3>2, <3>3
      <3>8. next' \in [Tid -> Threads \union {Nil}]
        BY <1>0, <2>0, <3>1, <3>2 DEF ThreadTypeOK
      <3>9. IsList(Queued(b)', hashtable'[b], next')
        BY <1>5, <3>2, <3>5
      <3>10. hashtable' \in [Buckets -> Threads \union {Nil}]
        BY <1>0, <3>2 DEF ThreadTypeOK
      <3> QED BY <3>2, <3>6, <3>7, <3>8, <3>9, <3>10
    <2> QED BY <2>1, <2>2
  <1>8. TypeOK'
    BY <1>0, <1>2, <1>7 DEF TypeOK, ThreadTypeOK, Labels
  <1>9. ReadyListOK'
    <2>1. ReadyThreads' = ReadyThreads
      BY <1>2 DEF ReadyThreads
    <2>2. \A u \in ReadyThreads : next'[u] = next[u]
      BY <1>7
    <2> QED BY <1>2, <2>1, <2>2, QueueFrame DEF TableInv, ReadyListOK
  <1>10. SleepQueueOK'
    <2>1. ASSUME NEW a \in Buckets, a # b
          PROVE  IsList(Queued(a)', hashtable'[a], next')
      <3>1. \A u \in Queued(a) : next'[u] = next[u]
        BY <1>7, <2>1
      <3> QED BY <1>5, <1>7, <2>1, <3>1, ListFrame DEF TableInv, SleepQueueOK
    <2> QED BY <1>7, <2>1 DEF SleepQueueOK
  <1>j. Leaves(Hash[res[c]], first)
    BY <1>2, <1>4, <1>5, <1>7, <1>b DEF Leaves
  <1>11. CurrentOK' /\ SleepStateOK'
    BY <1>2 DEF TableInv, CurrentOK, SleepStateOK
  <1>12. LabelsOK'
    BY <1>0, <1>2 DEF TableInv, LabelsOK, HandlerLabels, FindLabels
  <1>13. ArgumentsOK'
    BY <1>0, <1>2 DEF TableInv, ArgumentsOK, FindLabels
  <1>14. InterruptsOffOK'
    BY <1>0, <1>2 DEF TableInv, InterruptsOffOK, Runs
  <1>15. \A u \in Threads : SwitchedOff(u) => SwitchedOff(u)'
    BY <1>0, <1>2 DEF SwitchedOff
  <1>16. SleepLabelsOK' /\ AppendOK'
    <2>1. \A u \in Threads : pc[u] = "sleepq_append" => next'[u] = next[u]
      BY <1>7 DEF Queued
    <2> QED BY <1>0, <1>1, <1>2, <1>15, <2>1 DEF TableInv, SleepLabelsOK, AppendOK
  <1>17. WakingOK'
    BY <1>0, <1>2, <1>3, <1>4 DEF WakingOK, Queued, ThreadTypeOK
  <1>18. CreateOK'
    BY <1>0, <1>1, <1>2 DEF TableInv, CreateOK, ThreadTypeOK
  <1>19. LifeOK'
    BY <1>0, <1>1, <1>2, <1>15 DEF TableInv, LifeOK
  <1> QED BY <1>8, <1>9, <1>10, <1>11, <1>12, <1>13, <1>14, <1>16, <1>17, <1>18, <1>19, <1>j DEF TableInv

(* The search when nobody sleeps on the resource: a step of the lock only.   *)
LEMMA NotFoundStep ==
    ASSUME TableInv, NEW c \in Ctx, NEW label, NEW found, NEW done,
           FindLabels(c, label, found, done), At(c, label), sleepq_slock \in {NoCtx, c},
           sleepq_slock' = NoCtx, Goto(c, done), UNCHANGED <<hashtable, next, tid>>,
           UNCHANGED <<state, sleeps_on, listVars, current, next_tid, in_interrupt, res, resched>>,
           UNCHANGED <<semVars, procVars>>
    PROVE  TableInv' /\ ChainsKept
  <1> USE Contexts DEF Goto, listVars, semVars, procVars
  <1>0. /\ pc \in [Ctx -> Labels] /\ pc[c] = label /\ TypeOK /\ ThreadTypeOK
        /\ (c \in Threads => Runs(c)) /\ c # Idle /\ (c \in Threads \/ c \in Cpus)
        /\ label \in {"wake_find", "wakeall_find"} /\ done \in {"sem_release", "exit_release"}
    BY DEF TableInv, TypeOK, At, Runs, FindLabels, Ctx
  <1>1. c \in Threads => state[c] = "RUNNING" /\ ~SwitchedOff(c) /\ sleeps_on[c] = NoRes
    BY <1>0, RunningThread
  <1>3. \A d \in Ctx : /\ pc[d] \notin {"wake_ready", "wakeall_ready"}
                       /\ pc'[d] \notin {"wake_ready", "wakeall_ready"}
    BY <1>0 DEF TableInv, WakingOK
  <1>4. TypeOK'
    BY <1>0 DEF TypeOK, ThreadTypeOK, Labels
  <1>5. ReadyListOK' /\ CurrentOK' /\ SleepStateOK'
    BY DEF TableInv, ReadyListOK, CurrentOK, SleepStateOK, ReadyThreads, IsQueue, IsList, HoldsList
  <1>6. SleepQueueOK' /\ ChainsKept
    <2>1. \A b \in Buckets : Queued(b)' = Queued(b)
      BY <1>0, <1>3 DEF Queued, Waking
    <2>2. SleepQueueOK'
      BY <2>1 DEF TableInv, SleepQueueOK, IsList, HoldsList
    <2> QED BY <2>1, <2>2 DEF ChainsKept
  <1>7. LabelsOK' /\ ArgumentsOK' /\ InterruptsOffOK'
    BY <1>0 DEF TableInv, LabelsOK, HandlerLabels, ArgumentsOK, InterruptsOffOK, Runs, FindLabels
  <1>8. \A u \in Threads : SwitchedOff(u) => SwitchedOff(u)'
    BY <1>0 DEF SwitchedOff
  <1>9. SleepLabelsOK' /\ AppendOK'
    BY <1>0, <1>1, <1>8 DEF TableInv, SleepLabelsOK, AppendOK
  <1>10. WakingOK'
    BY <1>3 DEF WakingOK
  <1>11. CreateOK' /\ LifeOK'
    BY <1>0, <1>1, <1>8 DEF TableInv, CreateOK, LifeOK
  <1> QED BY <1>4, <1>5, <1>6, <1>7, <1>9, <1>10, <1>11 DEF TableInv

(* The search of sleepq_wake and sleepq_wake_all (WakeFind) keeps TableInv,
   whether or not it finds a thread. *)
LEMMA FindStep ==
    ASSUME TableInv, NEW c \in Ctx, NEW label, NEW found, NEW done,
           FindLabels(c, label, found, done), WakeFind(c, label, found, done),
           UNCHANGED <<semVars, procVars>>
    PROVE  /\ TableInv'
           /\ \/ ChainsKept
              \/ \E first \in Threads : Sleeper(c, first) /\ Leaves(Hash[res[c]], first)
  <1>1. CASE \E first \in Threads : Sleeper(c, first) /\ Unlink(c, first) /\ Goto(c, found)
    BY <1>1, FoundStep DEF WakeFind
  <1>2. CASE /\ \A t \in Threads : ~Sleeper(c, t)
             /\ sleepq_slock' = NoCtx /\ Goto(c, done) /\ UNCHANGED <<hashtable, next, tid>>
    BY <1>2, NotFoundStep DEF WakeFind
  <1> QED BY <1>1, <1>2 DEF WakeFind

(* A thread being woken is on no list, so it can be put on the ready list if *)
(* it already sleeps; if it still runs it will find that it need not sleep.  *)
LEMMA WakeStep ==
    ASSUME TableInv, NEW c \in Ctx, NEW label, NEW done, NEW holder \in {NoCtx, c},
           WakeReady(c, label, done, holder), UNCHANGED <<semVars, procVars>>,
           \/ label = "wake_ready" /\ done = "sem_release"
           \/ label = "wakeall_ready" /\ done = "wakeall_find" /\ c \in Threads
    PROVE  TableInv' /\ ChainsKept
  <1> USE Contexts, Disjoint
  <1>0. /\ pc \in [Ctx -> Labels] /\ pc[c] = label /\ TypeOK /\ ThreadTypeOK
        /\ (c \in Threads => Runs(c)) /\ c # Idle /\ (c \in Threads \/ c \in Cpus)
        /\ label \in {"wake_ready", "wakeall_ready"} /\ done \in {"sem_release", "wakeall_find"}
    BY DEF TableInv, TypeOK, WakeReady, At, Runs, Ctx
  <1>1. c \in Threads => state[c] = "RUNNING" /\ ~SwitchedOff(c) /\ sleeps_on[c] = NoRes
    BY <1>0, RunningThread
  <1>w. PICK w \in Threads : w = tid[c]
    BY <1>0 DEF TableInv, WakingOK
  <1>2. /\ pc' = [pc EXCEPT ![c] = done] /\ tid' = [tid EXCEPT ![c] = Nil]
        /\ sleepq_slock' = holder /\ sleeps_on' = [sleeps_on EXCEPT ![w] = NoRes]
        /\ UNCHANGED <<hashtable, current, next_tid, in_interrupt, res, resched,
                       value, slock, zombie, ptable_slock>>
    BY <1>w DEF WakeReady, Goto, semVars, procVars
  <1>3. /\ sleeps_on[w] # NoRes /\ pc[w] # "sleepq_append" /\ w # c /\ Waking(w)
        /\ \A d \in Ctx : pc[d] \in {"wake_ready", "wakeall_ready"} => d = c
        /\ \A d \in Ctx : pc'[d] \notin {"wake_ready", "wakeall_ready"}
    BY <1>0, <1>1, <1>2, <1>w DEF TableInv, WakingOK, Waking
  <1>4. /\ w \notin ReadyThreads /\ \A b \in Buckets : w \notin Queued(b) /\ Queued(b)' = Queued(b)
        /\ state[w] \in {"RUNNING", "SLEEPING"}
    <2>1. state[w] \in {"RUNNING", "SLEEPING"}
      BY <1>3 DEF TableInv, SleepStateOK
    <2>2. \A u \in Threads : /\ ~Waking(u)' /\ (Waking(u) <=> u = w)
                             /\ pc'[u] = "sleepq_append" <=> pc[u] = "sleepq_append"
      BY <1>0, <1>2, <1>3, <1>w DEF Waking
    <2>3. \A u \in Threads : u # w => sleeps_on'[u] = sleeps_on[u]
      BY <1>0, <1>2 DEF ThreadTypeOK
    <2>4. sleeps_on'[w] = NoRes
      BY <1>0, <1>2 DEF ThreadTypeOK
    <2> QED BY <2>1, <2>2, <2>3, <2>4, ZenonT(30) DEF Queued, ReadyThreads
  <1> DEFINE cleared == [next EXCEPT ![w] = Nil]
             q == [head |-> head, tail |-> tail, next |-> cleared]
  <1>5. /\ cleared \in [Tid -> Threads \union {Nil}] /\ cleared[w] = Nil
        /\ \A u \in Tid : u # w => cleared[u] = next[u]
    BY <1>0 DEF ThreadTypeOK
  <1>6. IsQueue(ReadyThreads, head, tail, cleared)
    <2>1. \A u \in ReadyThreads : cleared[u] = next[u]
      BY <1>4, <1>5
    <2> QED BY <2>1, QueueFrame DEF TableInv, ReadyListOK
  <1> DEFINE Moved ==
        /\ IsQueue(ReadyThreads', head', tail', next')
        /\ head' \in Threads \union {Nil} /\ tail' \in Threads \union {Nil}
        /\ next' \in [Tid -> Threads \union {Nil}]
        /\ \A u \in Tid : u # w /\ u \notin ReadyThreads => next'[u] = next[u]
        /\ state' \in [Tid -> ThreadStates]
        /\ \A u \in Tid : u # w => state'[u] = state[u]
        /\ state[w] = "SLEEPING" => state'[w] = "READY"
        /\ state[w] # "SLEEPING" => state'[w] = state[w]
  <1>7. Moved
    <2>1. CASE state[w] = "SLEEPING"
      <3>1. PICK r : r = scheduler_add_to_ready_list(q, w)
        OBVIOUS
      <3>2. head' = r.head /\ tail' = r.tail /\ next' = r.next
            /\ state' = [state EXCEPT ![w] = "READY"]
        BY <1>w, <2>1, <3>1 DEF WakeReady, SetReadyList
      <3>3. q \in ReadyLists /\ q.head = head /\ q.tail = tail /\ q.next = cleared
        BY <1>0, <1>5 DEF ReadyLists, ThreadTypeOK
      <3>4. ReadyThreads' = ReadyThreads \union {w}
        BY <1>0, <3>2 DEF ReadyThreads, ThreadTypeOK
      <3> HIDE DEF q, cleared
      <3>5. /\ r \in ReadyLists /\ IsQueue(ReadyThreads \union {w}, r.head, r.tail, r.next)
            /\ \A u \in Tid : u \notin ReadyThreads \union {w} => r.next[u] = cleared[u]
        <4>1. w \notin ReadyThreads /\ ReadyQueue(ReadyThreads, q)
          BY <1>4, <1>6, <3>3 DEF ReadyQueue
        <4>2. ReadyQueue(ReadyThreads \union {w}, r) /\ SameOutside(ReadyThreads \union {w}, q, r)
          BY <3>1, <4>1, AddReady
        <4> QED BY <3>3, <4>2 DEF ReadyQueue, SameOutside
      <3>6. r.head \in Threads \union {Nil} /\ r.tail \in Threads \union {Nil}
            /\ r.next \in [Tid -> Threads \union {Nil}]
        BY <3>5 DEF ReadyLists
      <3>7. /\ state' \in [Tid -> ThreadStates] /\ state'[w] = "READY"
            /\ \A u \in Tid : u # w => state'[u] = state[u]
        BY <1>0, <3>2 DEF ThreadTypeOK, ThreadStates
      <3> QED BY <1>5, <2>1, <3>2, <3>4, <3>5, <3>6, <3>7
    <2>2. CASE state[w] # "SLEEPING"
      <3>1. next' = cleared /\ UNCHANGED <<state, head, tail>>
        BY <1>w, <2>2 DEF WakeReady, listVars
      <3>2. ReadyThreads' = ReadyThreads
        BY <3>1 DEF ReadyThreads
      <3> HIDE DEF cleared
      <3> QED BY <1>0, <1>5, <1>6, <2>2, <3>1, <3>2 DEF ThreadTypeOK
    <2> QED BY <2>1, <2>2
  <1> HIDE DEF q, cleared
  <1>8. TypeOK'
    BY <1>0, <1>2, <1>7 DEF TypeOK, ThreadTypeOK, Labels
  <1>9. ReadyListOK'
    BY <1>7 DEF ReadyListOK
  <1>10. SleepQueueOK' /\ ChainsKept
    <2>1. \A b \in Buckets : \A u \in Queued(b) : next'[u] = next[u]
      BY <1>4, <1>7
    <2>2. \A b \in Buckets : \A u \in Queued(b) : sleeps_on'[u] = sleeps_on[u]
      BY <1>0, <1>2, <1>4 DEF ThreadTypeOK
    <2>3. SleepQueueOK'
      BY <1>2, <1>4, <2>1, ListFrame DEF TableInv, SleepQueueOK
    <2> QED BY <1>4, <2>1, <2>2, <2>3 DEF ChainsKept
  <1>11. CurrentOK'
    BY <1>0, <1>2, <1>7, ZenonT(30) DEF TableInv, CurrentOK, ThreadTypeOK
  <1>12. SleepStateOK'
    BY <1>0, <1>2, <1>4, <1>7 DEF TableInv, SleepStateOK, ThreadTypeOK
  <1>13. LabelsOK' /\ InterruptsOffOK'
    BY <1>0, <1>2 DEF TableInv, LabelsOK, HandlerLabels, InterruptsOffOK, Runs
  <1>14. ArgumentsOK'
    BY <1>0, <1>2 DEF TableInv, ArgumentsOK
  <1>15. \A u \in Threads : SwitchedOff(u) => SwitchedOff(u)'
    BY <1>0, <1>2 DEF SwitchedOff
  <1>16. SleepLabelsOK'
    BY <1>0, <1>1, <1>2, <1>7, <1>15 DEF TableInv, SleepLabelsOK, ThreadTypeOK
  <1>17. AppendOK'
    <2>1. \A u \in Threads : pc[u] = "sleepq_append" => u # w /\ u \notin ReadyThreads
      BY <1>3, NoResAssumption DEF TableInv, AppendOK, ArgumentsOK, ReadyThreads, SleepStateOK
    <2> QED BY <1>0, <1>2, <1>7, <2>1 DEF TableInv, AppendOK, ThreadTypeOK
  <1>18. WakingOK'
    BY <1>3 DEF WakingOK
  <1>19. CreateOK'
    <2>1. \A d \in Ctx : pc'[d] \in {"create_init", "create_run"} =>
            d # c /\ pc[d] = pc'[d] /\ tid'[d] = tid[d]
      BY <1>0, <1>2 DEF ThreadTypeOK
    <2>2. \A d \in Ctx : pc[d] \in {"create_init", "create_run"} =>
            tid[d] # w /\ tid[d] # c /\ tid[d] \in Threads
      BY <1>1, <1>4 DEF TableInv, CreateOK
    <2>3. \A d \in Ctx : pc[d] \in {"create_init", "create_run"} =>
            state'[tid[d]] = state[tid[d]] /\ pc'[tid[d]] = pc[tid[d]]
      BY <1>0, <1>2, <1>7, <2>2
    <2> QED BY <2>1, <2>3 DEF TableInv, CreateOK
  <1>20. LifeOK'
    <2>1. pc'[w] = pc[w] /\ state[w] # "DYING" /\ pc[w] \notin {"finish", "exit_finish", "returned", "panic"}
      BY <1>0, <1>2, <1>3, <1>4 DEF TableInv, LifeOK
    <2> QED BY <1>0, <1>1, <1>2, <1>7, <1>15, <2>1 DEF TableInv, LifeOK
  <1> QED BY <1>8, <1>9, <1>10, <1>11, <1>12, <1>13, <1>14, <1>16, <1>17, <1>18, <1>19, <1>20
          DEF TableInv

----------------------------------------------------------------------------
(* thread_create, thread_run, thread_finish. *)
LEMMA ReserveStep ==
    ASSUME TableInv, NEW c \in Threads, CreateReserve(c), UNCHANGED <<semVars, procVars>>
    PROVE  TableInv' /\ ChainsKept
  <1> USE Contexts
  <1>0. /\ pc \in [Ctx -> Labels] /\ pc[c] = "run" /\ TypeOK /\ ThreadTypeOK /\ Runs(c)
    BY DEF TableInv, TypeOK, CreateReserve, At
  <1>1. state[c] = "RUNNING" /\ ~SwitchedOff(c) /\ sleeps_on[c] = NoRes
    BY <1>0, RunningThread
  <1>2. PICK n \in Tid : /\ n # Idle /\ state[n] = "FREE" /\ tid' = [tid EXCEPT ![c] = n]
                         /\ state' = [state EXCEPT ![n] = "NONREADY"]
                         /\ next_tid' = (n + 1) % MaxThreads
    <2>1. PICK i \in Tid : /\ FreeAt(i) /\ tid' = [tid EXCEPT ![c] = Candidate(i)]
                           /\ state' = [state EXCEPT ![Candidate(i)] = "NONREADY"]
                           /\ next_tid' = (Candidate(i) + 1) % MaxThreads
      BY DEF CreateReserve, TidAfter
    <2>2. Candidate(i) \in Tid
      BY <1>0, MaxThreadsAssumption DEF Candidate, Tid, ThreadTypeOK
    <2> QED BY <2>1, <2>2 DEF FreeAt
  <1>3. /\ pc' = [pc EXCEPT ![c] = "create_init"]
        /\ UNCHANGED <<sleeps_on, next, head, tail, hashtable, sleepq_slock, current,
                       in_interrupt, res, resched, value, slock, zombie, ptable_slock>>
    BY DEF CreateReserve, Goto, listVars, queueVars, semVars, procVars
  <1>4. /\ n \in Threads /\ n # c /\ state'[n] = "NONREADY" /\ sleeps_on[n] = NoRes
        /\ \A u \in Tid : u # n => state'[u] = state[u]
    BY <1>0, <1>1, <1>2 DEF TableInv, SleepStateOK, ThreadTypeOK
  <1>5. TypeOK'
    <2>1. next_tid' \in Tid
      BY <1>2, MaxThreadsAssumption DEF Tid
    <2> QED BY <1>0, <1>2, <1>3, <1>4, <2>1 DEF TypeOK, ThreadTypeOK, Labels, Preemptible, ThreadStates
  <1>6. ReadyListOK'
    <2>1. ReadyThreads' = ReadyThreads
      BY <1>2, <1>4 DEF ReadyThreads
    <2> QED BY <1>3, <2>1 DEF TableInv, ReadyListOK, IsQueue, IsList, HoldsList
  <1>7. CurrentOK' /\ SleepStateOK'
    BY <1>0, <1>2, <1>3, <1>4 DEF TableInv, CurrentOK, SleepStateOK, ThreadTypeOK
  <1>8. SleepQueueOK' /\ ChainsKept
    <2>1. \A b \in Buckets : Queued(b)' = Queued(b)
      BY <1>0, <1>2, <1>3 DEF Queued, Waking, ThreadTypeOK
    <2>2. SleepQueueOK'
      BY <1>3, <2>1 DEF TableInv, SleepQueueOK, IsList, HoldsList
    <2> QED BY <1>3, <2>1, <2>2 DEF ChainsKept
  <1>9. LabelsOK' /\ ArgumentsOK' /\ InterruptsOffOK'
    BY <1>0, <1>3 DEF TableInv, LabelsOK, ArgumentsOK, InterruptsOffOK, Runs, Preemptible
  <1>10. \A u \in Threads : SwitchedOff(u) => SwitchedOff(u)'
    BY <1>0, <1>3 DEF SwitchedOff
  <1>11. SleepLabelsOK' /\ AppendOK'
    BY <1>0, <1>1, <1>3, <1>4, <1>10 DEF TableInv, SleepLabelsOK, AppendOK
  <1>12. WakingOK'
    BY <1>0, <1>2, <1>3 DEF TableInv, WakingOK, ThreadTypeOK
  <1>13. CreateOK'
    <2>1. \A d \in Ctx : d # c => pc'[d] = pc[d] /\ tid'[d] = tid[d]
      BY <1>0, <1>2, <1>3 DEF ThreadTypeOK
    <2>2. \A d \in Ctx : pc[d] \in {"create_init", "create_run"} =>
            tid[d] # n /\ tid[d] # c /\ tid[d] \in Threads
      BY <1>1, <1>2 DEF TableInv, CreateOK
    <2>c. CreateOK
      BY DEF TableInv
    <2>3. tid'[c] = n /\ pc'[c] = "create_init"
      BY <1>0, <1>2, <1>3 DEF ThreadTypeOK
    <2>4. \A d \in Ctx : pc'[d] \in {"create_init", "create_run"} =>
            /\ tid'[d] \in Threads /\ state'[tid'[d]] = "NONREADY"
            /\ pc'[d] = "create_run" => pc'[tid'[d]] = "run"
      <3> SUFFICES ASSUME NEW d \in Ctx, pc'[d] \in {"create_init", "create_run"}
                   PROVE  /\ tid'[d] \in Threads /\ state'[tid'[d]] = "NONREADY"
                          /\ pc'[d] = "create_run" => pc'[tid'[d]] = "run"
        OBVIOUS
      <3>1. CASE d = c
        BY <1>4, <2>3, <3>1
      <3>2. CASE d # c
        <4>1. /\ pc[d] = pc'[d] /\ tid'[d] = tid[d] /\ state[tid[d]] = "NONREADY"
              /\ tid[d] \in Threads /\ tid[d] # n /\ tid[d] # c
              /\ pc[d] = "create_run" => pc[tid[d]] = "run"
          BY <2>1, <2>2, <2>c, <3>2 DEF CreateOK
        <4>2. state'[tid[d]] = "NONREADY" /\ pc'[tid[d]] = pc[tid[d]]
          BY <1>4, <2>1, <4>1
        <4> QED BY <4>1, <4>2
      <3> QED BY <3>1, <3>2
    <2>5. \A d, e \in Ctx : /\ pc'[d] \in {"create_init", "create_run"}
                            /\ pc'[e] \in {"create_init", "create_run"}
                            /\ tid'[d] = tid'[e]
                            => d = e
      BY <2>1, <2>2, <2>3, <2>c DEF CreateOK
    <2> QED BY <2>4, <2>5 DEF CreateOK
  <1>14. LifeOK'
    BY <1>0, <1>1, <1>2, <1>3, <1>4, <1>10 DEF TableInv, LifeOK
  <1> QED BY <1>5, <1>6, <1>7, <1>8, <1>9, <1>11, <1>12, <1>13, <1>14 DEF TableInv

(* thread_create keeps TableInv when it fills in the entry it has reserved
   (CreateInit). *)
LEMMA InitStep ==
    ASSUME TableInv, NEW c \in Threads, CreateInit(c), UNCHANGED <<semVars, procVars>>
    PROVE  TableInv' /\ ChainsKept
  <1> USE Contexts, Disjoint
  <1>0. /\ pc \in [Ctx -> Labels] /\ pc[c] = "create_init" /\ TypeOK /\ ThreadTypeOK /\ Runs(c)
    BY DEF TableInv, TypeOK, CreateInit, At
  <1>1. state[c] = "RUNNING" /\ ~SwitchedOff(c) /\ sleeps_on[c] = NoRes
    BY <1>0, RunningThread
  <1>n. PICK n \in Threads : n = tid[c]
    BY <1>0 DEF TableInv, CreateOK
  <1>2. state[n] = "NONREADY" /\ sleeps_on[n] = NoRes /\ n # c
    BY <1>0, <1>1, <1>n DEF TableInv, CreateOK, SleepStateOK
  <1>3. /\ sleeps_on' = [sleeps_on EXCEPT ![n] = NoRes] /\ next' = [next EXCEPT ![n] = Nil]
        /\ pc' = [pc EXCEPT ![n] = "run", ![c] = "create_run"]
        /\ UNCHANGED <<state, head, tail, hashtable, sleepq_slock, current, next_tid, tid,
                       in_interrupt, res, resched, value, slock, zombie, ptable_slock>>
    BY <1>n DEF CreateInit, listVars, queueVars, semVars, procVars
  <1>4. /\ sleeps_on' = sleeps_on /\ pc'[n] = "run" /\ pc'[c] = "create_run"
        /\ \A d \in Ctx : d # c /\ d # n => pc'[d] = pc[d]
        /\ \A u \in Tid : u # n => next'[u] = next[u]
        /\ pc[n] \in {"run", "finish", "exit_finish", "returned", "panic"}
    BY <1>0, <1>2, <1>3 DEF ThreadTypeOK, TableInv, LifeOK
  <1>w. \A d \in Ctx :
          /\ pc'[d] \in {"wake_ready", "wakeall_ready"} <=> pc[d] \in {"wake_ready", "wakeall_ready"}
          /\ pc'[d] = "sleepq_append" <=> pc[d] = "sleepq_append"
    BY <1>0, <1>4
  <1>5. TypeOK'
    BY <1>0, <1>3 DEF TypeOK, ThreadTypeOK, Labels, Preemptible
  <1>6. ReadyListOK'
    <2>1. ReadyThreads' = ReadyThreads /\ n \notin ReadyThreads
      BY <1>2, <1>3 DEF ReadyThreads
    <2>2. \A u \in ReadyThreads : next'[u] = next[u]
      BY <1>4, <2>1
    <2> QED BY <1>3, <2>1, <2>2, QueueFrame DEF TableInv, ReadyListOK
  <1>7. CurrentOK' /\ SleepStateOK'
    BY <1>3, <1>4 DEF TableInv, CurrentOK, SleepStateOK
  <1>8. SleepQueueOK' /\ ChainsKept
    <2>1. \A b \in Buckets : Queued(b)' = Queued(b) /\ n \notin Queued(b)
      <3>1. \A u \in Threads : Waking(u)' <=> Waking(u)
        BY <1>3, <1>w DEF Waking
      <3>2. \A u \in Threads : pc'[u] = "sleepq_append" <=> pc[u] = "sleepq_append"
        BY <1>w
      <3> QED BY <1>2, <1>4, <3>1, <3>2 DEF Queued
    <2>2. \A b \in Buckets : \A u \in Queued(b) : next'[u] = next[u]
      BY <1>4, <2>1
    <2>3. SleepQueueOK'
      BY <1>3, <2>1, <2>2, ListFrame, ZenonT(30) DEF TableInv, SleepQueueOK
    <2> QED BY <1>4, <2>1, <2>2, <2>3 DEF ChainsKept
  <1>9. LabelsOK' /\ ArgumentsOK' /\ InterruptsOffOK'
    BY <1>0, <1>3, <1>4 DEF TableInv, LabelsOK, ArgumentsOK, InterruptsOffOK, Runs, Preemptible
  <1>10. \A u \in Threads : SwitchedOff(u) => SwitchedOff(u)'
    BY <1>0, <1>3, <1>4 DEF SwitchedOff
  <1>11. SleepLabelsOK' /\ AppendOK'
    BY <1>0, <1>1, <1>2, <1>3, <1>4, <1>10 DEF TableInv, SleepLabelsOK, AppendOK
  <1>12. WakingOK'
    BY <1>3, <1>4, <1>w DEF TableInv, WakingOK
  <1>13. CreateOK'
    <2>1. \A d \in Ctx : pc'[d] \in {"create_init", "create_run"} =>
            pc[d] \in {"create_init", "create_run"}
      BY <1>0, <1>4
    <2>c. CreateOK
      BY DEF TableInv
    <2>2. \A d \in Ctx : d # c /\ pc[d] \in {"create_init", "create_run"} =>
            tid[d] # n /\ tid[d] # c /\ tid[d] \in Threads
      BY <1>0, <1>1, <1>n DEF TableInv, CreateOK
    <2>3. \A d \in Ctx : pc'[d] \in {"create_init", "create_run"} =>
            /\ tid'[d] \in Threads /\ state'[tid'[d]] = "NONREADY"
            /\ pc'[d] = "create_run" => pc'[tid'[d]] = "run"
      <3> SUFFICES ASSUME NEW d \in Ctx, pc'[d] \in {"create_init", "create_run"}
                   PROVE  /\ tid'[d] \in Threads /\ state'[tid'[d]] = "NONREADY"
                          /\ pc'[d] = "create_run" => pc'[tid'[d]] = "run"
        OBVIOUS
      <3>1. CASE d = c
        BY <1>2, <1>3, <1>4, <1>n, <3>1
      <3>2. CASE d # c
        <4>1. d # n
          BY <1>4
        <4>2. /\ pc[d] = pc'[d] /\ tid'[d] = tid[d] /\ state[tid[d]] = "NONREADY"
              /\ tid[d] \in Threads /\ tid[d] # n /\ tid[d] # c
              /\ pc[d] = "create_run" => pc[tid[d]] = "run"
          BY <1>3, <1>4, <2>1, <2>2, <2>c, <3>2, <4>1 DEF CreateOK
        <4>3. state'[tid[d]] = "NONREADY" /\ pc'[tid[d]] = pc[tid[d]]
          BY <1>3, <1>4, <4>2
        <4> QED BY <4>2, <4>3
      <3> QED BY <3>1, <3>2
    <2>4. \A d, e \in Ctx : /\ pc'[d] \in {"create_init", "create_run"}
                            /\ pc'[e] \in {"create_init", "create_run"}
                            /\ tid'[d] = tid'[e]
                            => d = e
      BY <1>3, <2>1, <2>c DEF CreateOK
    <2> QED BY <2>3, <2>4 DEF CreateOK
  <1>14. LifeOK'
    BY <1>0, <1>1, <1>2, <1>3, <1>4, <1>10 DEF TableInv, LifeOK
  <1> QED BY <1>5, <1>6, <1>7, <1>8, <1>9, <1>11, <1>12, <1>13, <1>14 DEF TableInv

(* What a step must leave alone for the threads under creation. *)
LEMMA CreateFrame ==
    ASSUME CreateOK,
           \A d \in Ctx : pc'[d] \in {"create_init", "create_run"} =>
               /\ pc[d] = pc'[d] /\ tid'[d] = tid[d]
               /\ state'[tid[d]] = state[tid[d]]
               /\ pc[tid[d]] = "run" => pc'[tid[d]] = "run"
    PROVE  CreateOK'
  BY DEF CreateOK

(* thread_run keeps TableInv: the thread that was created becomes ready
   (CreateRun). *)
LEMMA RunStep ==
    ASSUME TableInv, NEW c \in Threads, CreateRun(c), UNCHANGED <<semVars, procVars>>
    PROVE  TableInv' /\ ChainsKept
  <1> USE Contexts, Disjoint
  <1>0. /\ pc \in [Ctx -> Labels] /\ pc[c] = "create_run" /\ TypeOK /\ ThreadTypeOK /\ Runs(c)
    BY DEF TableInv, TypeOK, CreateRun, At
  <1>1. state[c] = "RUNNING" /\ ~SwitchedOff(c) /\ sleeps_on[c] = NoRes
    BY <1>0, RunningThread
  <1>n. PICK n \in Threads : n = tid[c]
    BY <1>0 DEF TableInv, CreateOK
  <1>2. state[n] = "NONREADY" /\ sleeps_on[n] = NoRes /\ n # c /\ pc[n] = "run"
    BY <1>0, <1>1, <1>n DEF TableInv, CreateOK, SleepStateOK
  <1>3. /\ state' = [state EXCEPT ![n] = "READY"] /\ tid' = [tid EXCEPT ![c] = Nil]
        /\ pc' = [pc EXCEPT ![c] = "run"]
        /\ SetReadyList(scheduler_add_to_ready_list(ReadyList, n))
        /\ UNCHANGED <<sleeps_on, hashtable, sleepq_slock, current, next_tid,
                       in_interrupt, res, resched, value, slock, zombie, ptable_slock>>
    BY <1>n DEF CreateRun, Goto, listVars, queueVars, semVars, procVars
  <1>4. /\ pc'[c] = "run" /\ state'[n] = "READY" /\ tid'[c] = Nil
        /\ \A d \in Ctx : d # c => pc'[d] = pc[d] /\ tid'[d] = tid[d]
        /\ \A u \in Tid : u # n => state'[u] = state[u]
    BY <1>0, <1>2, <1>3 DEF ThreadTypeOK
  <1>5. PICK r : r = scheduler_add_to_ready_list(ReadyList, n)
    OBVIOUS
  <1>6. head' = r.head /\ tail' = r.tail /\ next' = r.next
    BY <1>3, <1>5 DEF SetReadyList
  <1>7. ReadyList \in ReadyLists /\ ReadyList.head = head /\ ReadyList.tail = tail
        /\ ReadyList.next = next
    BY <1>0 DEF ReadyLists, ReadyList, ThreadTypeOK
  <1>8. n \notin ReadyThreads /\ ReadyThreads' = ReadyThreads \union {n}
        /\ \A b \in Buckets : n \notin Queued(b)
    BY <1>2, <1>4 DEF ReadyThreads, Queued
  <1>9. /\ r \in ReadyLists /\ IsQueue(ReadyThreads \union {n}, r.head, r.tail, r.next)
        /\ \A u \in Tid : u \notin ReadyThreads \union {n} => r.next[u] = next[u]
    <2>1. ReadyQueue(ReadyThreads, ReadyList)
      BY <1>7 DEF TableInv, ReadyListOK, ReadyQueue
    <2>2. ReadyQueue(ReadyThreads \union {n}, r) /\ SameOutside(ReadyThreads \union {n}, ReadyList, r)
      BY <1>5, <1>8, <2>1, AddReady
    <2> QED BY <1>7, <2>2 DEF ReadyQueue, SameOutside
  <1>10. TypeOK'
    <2>1. r.head \in Threads \union {Nil} /\ r.tail \in Threads \union {Nil}
          /\ r.next \in [Tid -> Threads \union {Nil}]
      BY <1>9 DEF ReadyLists
    <2> QED BY <1>0, <1>3, <1>6, <2>1 DEF TypeOK, ThreadTypeOK, Labels, Preemptible, ThreadStates
  <1>11. ReadyListOK'
    BY <1>6, <1>8, <1>9 DEF ReadyListOK
  <1>12. CurrentOK' /\ SleepStateOK'
    BY <1>0, <1>2, <1>3, <1>4 DEF TableInv, CurrentOK, SleepStateOK, ThreadTypeOK
  <1>w. \A d \in Ctx :
          /\ pc'[d] \in {"wake_ready", "wakeall_ready"} =>
                d # c /\ pc[d] = pc'[d] /\ tid'[d] = tid[d]
          /\ pc[d] \in {"wake_ready", "wakeall_ready"} =>
                d # c /\ pc[d] = pc'[d] /\ tid'[d] = tid[d]
          /\ pc'[d] = "sleepq_append" <=> pc[d] = "sleepq_append"
    BY <1>0, <1>4
  <1>13. SleepQueueOK' /\ ChainsKept
    <2>1. \A b \in Buckets : Queued(b)' = Queued(b)
      BY <1>3, <1>w DEF Queued, Waking
    <2>2. \A b \in Buckets : \A u \in Queued(b) : next'[u] = next[u]
      BY <1>6, <1>8, <1>9
    <2>3. SleepQueueOK'
      BY <1>3, <2>1, <2>2, ListFrame DEF TableInv, SleepQueueOK
    <2> QED BY <1>3, <2>1, <2>2, <2>3 DEF ChainsKept
  <1>14. LabelsOK' /\ ArgumentsOK' /\ InterruptsOffOK'
    BY <1>0, <1>3 DEF TableInv, LabelsOK, ArgumentsOK, InterruptsOffOK, Runs, Preemptible
  <1>15. \A u \in Threads : SwitchedOff(u) => SwitchedOff(u)'
    BY <1>0, <1>3 DEF SwitchedOff
  <1>16. SleepLabelsOK'
    BY <1>0, <1>1, <1>2, <1>3, <1>4, <1>15 DEF TableInv, SleepLabelsOK
  <1>17. AppendOK'
    <2>1. \A u \in Threads : pc[u] = "sleepq_append" => u # n /\ u \notin ReadyThreads
      BY <1>2, NoResAssumption DEF TableInv, AppendOK, ArgumentsOK, ReadyThreads, SleepStateOK
    <2> QED BY <1>3, <1>6, <1>9, <1>w, <2>1 DEF TableInv, AppendOK
  <1>18. WakingOK'
    BY <1>3, <1>w DEF TableInv, WakingOK
  <1>19. CreateOK'
    <2>c. CreateOK
      BY DEF TableInv
    <2>1. \A d \in Ctx : d # c /\ pc[d] \in {"create_init", "create_run"} =>
            tid[d] # n /\ tid[d] # c /\ tid[d] \in Threads
      BY <1>0, <1>1, <1>n, <2>c DEF CreateOK
    <2>2. \A d \in Ctx : pc'[d] \in {"create_init", "create_run"} =>
               /\ pc[d] = pc'[d] /\ tid'[d] = tid[d]
               /\ state'[tid[d]] = state[tid[d]]
               /\ pc[tid[d]] = "run" => pc'[tid[d]] = "run"
      BY <1>4, <2>1
    <2> QED BY <2>c, <2>2, CreateFrame
  <1>20. LifeOK'
    BY <1>0, <1>1, <1>2, <1>3, <1>4, <1>15 DEF TableInv, LifeOK
  <1> QED BY <1>10, <1>11, <1>12, <1>13, <1>14, <1>16, <1>17, <1>18, <1>19, <1>20 DEF TableInv

(* thread_finish keeps TableInv when it marks the thread DYING (FinishMark). *)
LEMMA FinishStep ==
    ASSUME TableInv, NEW c \in Threads, NEW label \in {"run", "thread_finish"},
           NEW to \in {"finish", "exit_finish"}, FinishMark(c, label, to), UNCHANGED <<semVars, procVars>>
    PROVE  TableInv' /\ ChainsKept
  <1> USE Contexts
  <1>0. /\ pc \in [Ctx -> Labels] /\ pc[c] = label /\ TypeOK /\ ThreadTypeOK /\ Runs(c)
    BY DEF TableInv, TypeOK, FinishMark, At
  <1>1. state[c] = "RUNNING" /\ ~SwitchedOff(c) /\ sleeps_on[c] = NoRes
    BY <1>0, RunningThread
  <1>2. /\ state' = [state EXCEPT ![c] = "DYING"] /\ pc' = [pc EXCEPT ![c] = to]
        /\ res' = [res EXCEPT ![c] = NoRes]
        /\ UNCHANGED <<sleeps_on, next, head, tail, hashtable, sleepq_slock, current, next_tid,
                       in_interrupt, tid, resched, value, slock, zombie, ptable_slock>>
    BY DEF FinishMark, Goto, listVars, queueVars, semVars, procVars
  <1>3. /\ pc'[c] = to /\ state'[c] = "DYING"
        /\ \A d \in Ctx : d # c => pc'[d] = pc[d] /\ res'[d] = res[d]
        /\ \A u \in Tid : u # c => state'[u] = state[u]
    BY <1>0, <1>2 DEF ThreadTypeOK
  <1>4. TypeOK'
    BY <1>0, <1>2 DEF TypeOK, ThreadTypeOK, Labels, Preemptible, ThreadStates
  <1>5. ReadyListOK'
    <2>1. ReadyThreads' = ReadyThreads
      BY <1>1, <1>3 DEF ReadyThreads
    <2> QED BY <1>2, <2>1 DEF TableInv, ReadyListOK, IsQueue, IsList, HoldsList
  <1>6. CurrentOK' /\ SleepStateOK'
    BY <1>0, <1>1, <1>2, <1>3 DEF TableInv, CurrentOK, SleepStateOK, ThreadTypeOK
  <1>w. \A d \in Ctx :
          /\ pc'[d] \in {"wake_ready", "wakeall_ready"} <=> pc[d] \in {"wake_ready", "wakeall_ready"}
          /\ pc'[d] = "sleepq_append" <=> pc[d] = "sleepq_append"
    BY <1>0, <1>3
  <1>7. SleepQueueOK' /\ ChainsKept
    <2>1. \A b \in Buckets : Queued(b)' = Queued(b)
      BY <1>2, <1>w DEF Queued, Waking
    <2>2. SleepQueueOK'
      BY <1>2, <2>1 DEF TableInv, SleepQueueOK, IsList, HoldsList
    <2> QED BY <1>2, <2>1, <2>2 DEF ChainsKept
  <1>8. LabelsOK' /\ ArgumentsOK' /\ InterruptsOffOK'
    BY <1>0, <1>2, <1>3 DEF TableInv, LabelsOK, ArgumentsOK, InterruptsOffOK, Runs, Preemptible
  <1>9. \A u \in Threads : SwitchedOff(u) => SwitchedOff(u)'
    BY <1>0, <1>2 DEF SwitchedOff
  <1>10. SleepLabelsOK' /\ AppendOK'
    BY <1>0, <1>1, <1>2, <1>3, <1>9 DEF TableInv, SleepLabelsOK, AppendOK
  <1>11. WakingOK'
    BY <1>2, <1>w DEF TableInv, WakingOK
  <1>12. CreateOK'
    <2>c. CreateOK
      BY DEF TableInv
    <2>1. \A d \in Ctx : pc[d] \in {"create_init", "create_run"} => tid[d] # c /\ tid[d] \in Threads
      BY <1>1, <2>c DEF CreateOK
    <2> QED BY <1>2, <1>3, <2>c, <2>1, CreateFrame
  <1>13. LifeOK'
    BY <1>0, <1>1, <1>2, <1>3, <1>9 DEF TableInv, LifeOK
  <1> QED BY <1>4, <1>5, <1>6, <1>7, <1>8, <1>10, <1>11, <1>12, <1>13 DEF TableInv

----------------------------------------------------------------------------
(* interrupt_handle. *)

(* An interrupt is taken on a CPU, by a thread that stays where it is, or    *)
(* that raised it in thread_switch or thread_finish and will resume there.   *)
Enters(cpu, s, t, resume, label) ==
    /\ InterruptEnter(cpu, s, TRUE) \/ InterruptEnter(cpu, s, FALSE)
    /\ t = current[cpu]
    /\ pc' = [pc EXCEPT ![t] = resume, ![cpu] = label]

(* An interrupt keeps TableInv when a CPU takes it, at whatever label its
   handler starts and its thread will resume. *)
LEMMA EnterStep ==
    ASSUME TableInv, NEW cpu \in Cpus, NEW s \in Resources \union {NoRes},
           NEW t \in Tid, NEW resume \in Labels, NEW label,
           Enters(cpu, s, t, resume, label), UNCHANGED <<semVars, procVars>>,
           \/ resume = pc[t]
           \/ /\ t \in Threads /\ InterruptEnter(cpu, s, TRUE) /\ label = "intr_exit"
              /\ \/ pc[t] = "sw0" /\ resume = "run"
                 \/ pc[t] = "sw0" /\ resume = "join_acquire" /\ res[t] \in Events
                 \/ pc[t] \in {"finish", "exit_finish"} /\ resume = "panic",
           label = "intr_exit" \/ (label = "V_acquire" /\ s \in Sems)
    PROVE  TableInv' /\ ChainsKept
  <1> USE Contexts
  <1>0. /\ pc \in [Ctx -> Labels] /\ TypeOK /\ ThreadTypeOK /\ pc[cpu] = "none"
        /\ pc[t] \in Preemptible
        /\ pc'[cpu] = label /\ pc'[t] = resume /\ cpu # t
        /\ \A d \in Ctx : d # cpu /\ d # t => pc'[d] = pc[d]
    BY DEF Enters, TableInv, TypeOK, InterruptEnter
  <1>1. /\ t = current[cpu]
        /\ res' = [res EXCEPT ![cpu] = s]
        /\ \/ resched' = [resched EXCEPT ![cpu] = TRUE]
           \/ resched' = [resched EXCEPT ![cpu] = FALSE]
        /\ in_interrupt' = TRUE
        /\ UNCHANGED <<state, sleeps_on, next, head, tail, hashtable, sleepq_slock, current,
                       next_tid, tid, value, slock, zombie, ptable_slock>>
    BY DEF Enters, InterruptEnter, tableVars, listVars, queueVars, semVars, procVars
  <1>2. /\ res'[cpu] = s
        /\ resched' \in [Cpus -> BOOLEAN]
        /\ \A d \in Ctx : d # cpu => res'[d] = res[d]
        /\ \A p \in Cpus : p # cpu => resched'[p] = resched[p]
    BY <1>0, <1>1 DEF ThreadTypeOK, InterruptEnter
  <1>3. TypeOK'
    <2>1. pc' \in [Ctx -> Labels]
      BY <1>0 DEF Enters, Labels
    <2> QED BY <1>0, <1>1, <1>2, <2>1 DEF TypeOK, ThreadTypeOK
  <1>4. ReadyListOK' /\ CurrentOK' /\ SleepStateOK'
    <2>1. ReadyListOK /\ CurrentOK /\ SleepStateOK
      BY DEF TableInv
    <2>2. /\ state' = state /\ sleeps_on' = sleeps_on /\ next' = next /\ head' = head
          /\ tail' = tail /\ current' = current
      BY <1>1
    <2>3. ReadyThreads' = ReadyThreads
      BY <2>2 DEF ReadyThreads
    <2>4. ReadyListOK'
      BY <2>1, <2>2, <2>3, QueueFrame DEF ReadyListOK
    <2> QED BY <2>1, <2>2, <2>4 DEF CurrentOK, SleepStateOK
  <1>w. \A d \in Ctx :
          /\ pc'[d] \in {"wake_ready", "wakeall_ready"} <=> pc[d] \in {"wake_ready", "wakeall_ready"}
          /\ pc'[d] = "sleepq_append" <=> pc[d] = "sleepq_append"
          /\ pc'[d] \in {"create_init", "create_run"} => pc'[d] = pc[d]
    BY <1>0 DEF Preemptible
  <1>5. SleepQueueOK' /\ ChainsKept
    <2>1. tid' = tid /\ sleeps_on' = sleeps_on /\ next' = next /\ hashtable' = hashtable
      BY <1>1
    <2>2. \A u \in Threads : Waking(u)' <=> Waking(u)
      BY <1>w, <2>1 DEF Waking
    <2>3. \A b \in Buckets : Queued(b)' = Queued(b)
      BY <1>w, <2>1, <2>2 DEF Queued
    <2>4. SleepQueueOK'
      BY <2>1, <2>3, ListFrame DEF TableInv, SleepQueueOK
    <2> QED BY <2>1, <2>3, <2>4 DEF ChainsKept
  <1>6. LabelsOK'
    BY <1>0 DEF TableInv, LabelsOK, HandlerLabels, Preemptible
  <1>7. ArgumentsOK'
    <2>1. ArgumentsOK
      BY DEF TableInv
    <2>2. \A d \in Ctx : d # cpu => res'[d] = res[d]
      BY <1>2
    <2>3. /\ pc'[t] = resume /\ res'[t] = res[t]
          /\ resume = pc[t] \/ resume \in {"run", "panic"} \/ (resume = "join_acquire" /\ res[t] \in Events)
      BY <1>0, <1>2
    <2>4. pc'[cpu] = label /\ res'[cpu] = s /\ (label = "intr_exit" \/ (label = "V_acquire" /\ s \in Sems))
      BY <1>0, <1>2
    <2>5. \A d \in Ctx : d # cpu /\ d # t => pc'[d] = pc[d]
      BY <1>0
    <2> QED BY <2>1, <2>2, <2>3, <2>4, <2>5 DEF ArgumentsOK
  <1>8. InterruptsOffOK'
    <2> SUFFICES ASSUME NEW u \in Threads, pc'[u] \notin Preemptible \union {"join_acquire"}
                 PROVE  Runs(u)'
      BY DEF InterruptsOffOK
    <2>1. u # t /\ pc'[u] = pc[u]
      BY <1>0 DEF Preemptible
    <2>2. PICK p \in Cpus : current[p] = u /\ pc[p] = "none"
      BY <2>1 DEF TableInv, InterruptsOffOK, Runs
    <2>3. p # cpu /\ p # t
      BY <1>1, <2>1, <2>2
    <2> QED BY <1>0, <1>1, <2>2, <2>3 DEF Runs
  <1>9. \A u \in Threads : SwitchedOff(u) => SwitchedOff(u)'
    BY <1>0, <1>1, <1>2 DEF SwitchedOff
  <1>10. ASSUME t \in Threads, InterruptEnter(cpu, s, TRUE), label = "intr_exit"
         PROVE  SwitchedOff(t)'
    <2>1. resched' = [resched EXCEPT ![cpu] = TRUE]
      BY <1>10 DEF InterruptEnter
    <2>2. resched'[cpu] = TRUE
      BY <1>0, <2>1 DEF ThreadTypeOK
    <2> QED BY <1>0, <1>1, <1>10, <2>2 DEF SwitchedOff
  <1>11. SleepLabelsOK'
    BY <1>0, <1>1, <1>9, <1>10, ZenonT(30) DEF TableInv, SleepLabelsOK, LifeOK, SleepStateOK
  <1>12. AppendOK' /\ WakingOK'
    <2>1. /\ AppendOK /\ WakingOK /\ tid' = tid /\ sleeps_on' = sleeps_on /\ next' = next
          /\ sleepq_slock' = sleepq_slock
      BY <1>1 DEF TableInv
    <2>2. AppendOK'
      BY <1>2, <1>w, <2>1 DEF AppendOK
    <2>3. WakingOK'
      BY <1>w, <2>1 DEF WakingOK
    <2> QED BY <2>2, <2>3
  <1>13. state[t] # "NONREADY" \/ t \notin Threads
    BY <1>1 DEF TableInv, CurrentOK
  <1>14. CreateOK'
    <2>c. CreateOK
      BY DEF TableInv
    <2>1. \A d \in Ctx : pc[d] \in {"create_init", "create_run"} =>
            tid[d] # t /\ tid[d] # cpu /\ tid[d] \in Threads
      BY <1>13, <2>c DEF CreateOK
    <2> QED BY <1>0, <1>1, <1>w, <2>c, <2>1, CreateFrame
  <1>15. LifeOK'
    <2>1. t \in Threads => state[t] \in {"RUNNING", "DYING"}
      BY <1>1 DEF TableInv, CurrentOK
    <2> QED BY <1>0, <1>1, <1>9, <1>10, <2>1, ZenonT(30) DEF TableInv, LifeOK
  <1> QED BY <1>3, <1>4, <1>5, <1>6, <1>7, <1>8, <1>11, <1>12, <1>14, <1>15 DEF TableInv

(* The timer interrupt keeps TableInv. *)
LEMMA TimerStep ==
    ASSUME TableInv, NEW cpu \in Cpus, TimerInterrupt(cpu), UNCHANGED <<semVars, procVars>>
    PROVE  TableInv' /\ ChainsKept
  <1>1. PICK t \in Tid : t = current[cpu]
    BY DEF TableInv, TypeOK, ThreadTypeOK
  <1>2. pc \in [Ctx -> Labels] /\ pc[t] \in Labels
    BY <1>1, Contexts DEF TableInv, TypeOK
  <1>3. pc' = [pc EXCEPT ![t] = pc[t], ![cpu] = "intr_exit"]
    BY <1>2 DEF TimerInterrupt, Goto
  <1>4. Enters(cpu, NoRes, t, pc[t], "intr_exit")
    BY <1>1, <1>3 DEF TimerInterrupt, Enters
  <1> QED BY <1>2, <1>4, EnterStep

(* A device interrupt keeps TableInv. *)
LEMMA DeviceStep ==
    ASSUME TableInv, NEW cpu \in Cpus, DeviceInterrupt(cpu)
    PROVE  TableInv' /\ ChainsKept
  <1>1. PICK t \in Tid : t = current[cpu]
    BY DEF TableInv, TypeOK, ThreadTypeOK
  <1>2. pc \in [Ctx -> Labels] /\ pc[t] \in Labels
    BY <1>1, Contexts DEF TableInv, TypeOK
  <1>3. pc' = [pc EXCEPT ![t] = pc[t], ![cpu] = "V_acquire"]
    BY <1>2 DEF DeviceInterrupt, Goto
  <1>4. PICK s \in DeviceSems, timer \in BOOLEAN : InterruptEnter(cpu, s, timer)
    BY DEF DeviceInterrupt
  <1>5. s \in Sems /\ s \in Resources \union {NoRes}
    BY DeviceSemsAssumption, ResourcesAssumption
  <1>6. UNCHANGED <<semVars, procVars>>
    BY DEF DeviceInterrupt
  <1>7. Enters(cpu, s, t, pc[t], "V_acquire")
    BY <1>1, <1>3, <1>4 DEF Enters
  <1> QED BY <1>2, <1>5, <1>6, <1>7, EnterStep

(* The software interrupt of thread_switch and thread_finish keeps TableInv. *)
LEMMA SoftwareStep ==
    ASSUME TableInv, NEW cpu \in Cpus, NEW t \in Threads, UNCHANGED <<semVars, procVars>>,
           NEW resume, SoftwareInterrupt(cpu, t, resume),
           \/ pc[t] = "sw0" /\ resume = "run"
           \/ pc[t] = "sw0" /\ resume = "join_acquire" /\ res[t] \in Events
           \/ pc[t] \in {"finish", "exit_finish"} /\ resume = "panic"
    PROVE  TableInv' /\ ChainsKept
  <1>1. t \in Tid /\ resume \in Labels
    BY Contexts DEF Labels, Preemptible
  <1>2. Enters(cpu, NoRes, t, resume, "intr_exit") /\ InterruptEnter(cpu, NoRes, TRUE)
    BY DEF SoftwareInterrupt, Enters
  <1> QED BY <1>1, <1>2, EnterStep

(* What the end of interrupt_handle does to the rest, whether or not it      *)
(* schedules.                                                                *)
ExitFrame(cpu) ==
    /\ pc[cpu] = "intr_exit" /\ pc'[cpu] = "none"
    /\ \A d \in Ctx : d # cpu => pc'[d] = pc[d] /\ res'[d] = res[d]
    /\ res' \in [Ctx -> Resources \union {NoRes}]
    /\ resched' \in [Cpus -> BOOLEAN]
    /\ \A p \in Cpus : p # cpu => resched'[p] = resched[p]
    /\ in_interrupt' = FALSE
    /\ pc' \in [Ctx -> Labels]
    /\ UNCHANGED <<sleeps_on, hashtable, sleepq_slock, next_tid, tid, value, slock,
                   zombie, ptable_slock>>

(* What the end of interrupt_handle leaves alone, whether it schedules or not. *)
LEMMA ExitFrameStep ==
    ASSUME TableInv, NEW cpu \in Cpus, InterruptExit(cpu), UNCHANGED <<semVars, procVars>>
    PROVE  ExitFrame(cpu)
  <1> USE Contexts
  <1>1. /\ pc \in [Ctx -> Labels] /\ res \in [Ctx -> Resources \union {NoRes}]
        /\ resched \in [Cpus -> BOOLEAN] /\ "none" \in Labels
    BY DEF TableInv, TypeOK, ThreadTypeOK, Labels
  <1>2. /\ pc' = [pc EXCEPT ![cpu] = "none"] /\ pc[cpu] = "intr_exit"
        /\ res' = [res EXCEPT ![cpu] = NoRes]
        /\ resched' = [resched EXCEPT ![cpu] = FALSE]
        /\ in_interrupt' = FALSE
        /\ UNCHANGED <<sleeps_on, hashtable, sleepq_slock, next_tid, tid, value, slock,
                       zombie, ptable_slock>>
    BY DEF InterruptExit, Goto, queueVars, semVars, procVars
  <1>3. /\ pc' \in [Ctx -> Labels] /\ pc'[cpu] = "none"
        /\ \A d \in Ctx : d # cpu => pc'[d] = pc[d]
    BY <1>1, <1>2
  <1>4. /\ res' \in [Ctx -> Resources \union {NoRes}]
        /\ \A d \in Ctx : d # cpu => res'[d] = res[d]
    BY <1>1, <1>2
  <1>5. resched' \in [Cpus -> BOOLEAN] /\ \A p \in Cpus : p # cpu => resched'[p] = resched[p]
    BY <1>1, <1>2, Zenon
  <1> QED BY <1>2, <1>3, <1>4, <1>5 DEF ExitFrame

(* The parts of the invariant that scheduling does not touch. *)
LEMMA ExitRest ==
    ASSUME TableInv, NEW cpu \in Cpus, ExitFrame(cpu),
           \A p \in Cpus : p # cpu => current'[p] = current[p]
    PROVE  /\ LabelsOK' /\ ArgumentsOK' /\ InterruptsOffOK' /\ WakingOK'
           /\ \A b \in Buckets : Queued(b)' = Queued(b)
           /\ \A u \in Threads : u # current[cpu] /\ SwitchedOff(u) => SwitchedOff(u)'
  <1> USE Contexts
  <1>0. /\ LabelsOK /\ ArgumentsOK /\ InterruptsOffOK /\ WakingOK
    BY DEF TableInv
  <1>1. /\ pc[cpu] = "intr_exit" /\ pc'[cpu] = "none"
        /\ \A d \in Ctx : d # cpu => pc'[d] = pc[d] /\ res'[d] = res[d]
    BY DEF ExitFrame
  <1>2. /\ sleeps_on' = sleeps_on /\ sleepq_slock' = sleepq_slock /\ tid' = tid
    BY DEF ExitFrame
  <1>3. LabelsOK' /\ ArgumentsOK'
    BY <1>0, <1>1 DEF LabelsOK, ArgumentsOK, HandlerLabels
  <1>4. InterruptsOffOK'
    <2> SUFFICES ASSUME NEW u \in Threads, pc'[u] \notin Preemptible \union {"join_acquire"}
                 PROVE  Runs(u)'
      BY DEF InterruptsOffOK
    <2>1. PICK p \in Cpus : current[p] = u /\ pc[p] = "none"
      BY <1>0, <1>1 DEF InterruptsOffOK, Runs
    <2> QED BY <1>1, <2>1 DEF Runs
  <1>5. \A d \in Ctx :
          /\ pc'[d] \in {"wake_ready", "wakeall_ready"} <=> pc[d] \in {"wake_ready", "wakeall_ready"}
          /\ pc'[d] = "sleepq_append" <=> pc[d] = "sleepq_append"
    BY <1>1
  <1>6. WakingOK'
    BY <1>0, <1>2, <1>5 DEF WakingOK
  <1>7. \A b \in Buckets : Queued(b)' = Queued(b)
    BY <1>2, <1>5 DEF Queued, Waking
  <1>8. ASSUME NEW u \in Threads, u # current[cpu], SwitchedOff(u)
        PROVE  SwitchedOff(u)'
    <2>1. PICK p \in Cpus : current[p] = u /\ pc[p] = "intr_exit" /\ resched[p]
      BY <1>8 DEF SwitchedOff
    <2>2. p # cpu
      BY <1>8, <2>1
    <2>3. resched'[p] = resched[p] /\ current'[p] = u /\ pc'[p] = "intr_exit"
      BY <1>1, <2>1, <2>2 DEF ExitFrame
    <2> QED BY <2>1, <2>3 DEF SwitchedOff
  <1> QED BY <1>3, <1>4, <1>6, <1>7, <1>8

(* The current thread goes on. *)
LEMMA ResumeStep ==
    ASSUME TableInv, NEW cpu \in Cpus, ExitFrame(cpu), resched[cpu] = FALSE,
           UNCHANGED <<tableVars, listVars, current>>
    PROVE  TableInv' /\ ChainsKept
  <1> USE Contexts
  <1>1. /\ state' = state /\ sleeps_on' = sleeps_on /\ next' = next /\ head' = head
        /\ tail' = tail /\ current' = current /\ hashtable' = hashtable
    BY DEF tableVars, listVars, ExitFrame
  <1>2. /\ pc[cpu] = "intr_exit" /\ pc'[cpu] = "none" /\ tid' = tid
        /\ \A d \in Ctx : d # cpu => pc'[d] = pc[d] /\ res'[d] = res[d]
    BY DEF ExitFrame
  <1>3. /\ LabelsOK' /\ ArgumentsOK' /\ InterruptsOffOK' /\ WakingOK'
        /\ \A b \in Buckets : Queued(b)' = Queued(b)
        /\ \A u \in Threads : u # current[cpu] /\ SwitchedOff(u) => SwitchedOff(u)'
    BY <1>1, ExitRest
  <1>4. TypeOK'
    BY <1>1 DEF TableInv, TypeOK, ThreadTypeOK, ExitFrame
  <1>5. ReadyListOK'
    <2>1. ReadyThreads' = ReadyThreads
      BY <1>1 DEF ReadyThreads
    <2> QED BY <1>1, <2>1, QueueFrame DEF TableInv, ReadyListOK
  <1>6. CurrentOK' /\ SleepStateOK'
    BY <1>1 DEF TableInv, CurrentOK, SleepStateOK
  <1>7. SleepQueueOK' /\ ChainsKept
    BY <1>1, <1>3, ListFrame DEF TableInv, SleepQueueOK, ChainsKept
  <1>8. \A u \in Threads : SwitchedOff(u) => SwitchedOff(u)'
    <2>1. SUFFICES ASSUME SwitchedOff(current[cpu]), current[cpu] \in Threads
                   PROVE  FALSE
      BY <1>3
    <2>2. PICK p \in Cpus : current[p] = current[cpu] /\ resched[p]
      BY <2>1 DEF SwitchedOff
    <2>3. p = cpu
      BY <2>1, <2>2 DEF TableInv, CurrentOK
    <2> QED BY <2>2, <2>3
  <1>9. SleepLabelsOK' /\ AppendOK' /\ LifeOK'
    <2>1. SleepLabelsOK /\ AppendOK /\ LifeOK
      BY DEF TableInv
    <2>2. \A u \in Threads : pc'[u] = pc[u] /\ res'[u] = res[u]
      BY <1>2
    <2> QED BY <1>1, <1>8, <2>1, <2>2 DEF SleepLabelsOK, AppendOK, LifeOK
  <1>10. CreateOK'
    <2>c. CreateOK
      BY DEF TableInv
    <2>1. \A d \in Ctx : pc'[d] \in {"create_init", "create_run"} =>
               /\ pc[d] = pc'[d] /\ tid'[d] = tid[d]
               /\ state'[tid[d]] = state[tid[d]]
               /\ pc[tid[d]] = "run" => pc'[tid[d]] = "run"
      BY <1>1, <1>2, <2>c DEF CreateOK
    <2> QED BY <2>c, <2>1, CreateFrame
  <1> QED BY <1>3, <1>4, <1>5, <1>6, <1>7, <1>9, <1>10 DEF TableInv

(* What scheduler_schedule does, with t the thread taken off, A the state it *)
(* is left in and u the thread put on: t is READY and on the list only if it *)
(* neither dies nor sleeps.                                                  *)
Scheduled(cpu, t, A, u) ==
    /\ A \in {"FREE", "SLEEPING", "READY"}
    /\ A = "FREE" <=> state[t] = "DYING"
    /\ A = "SLEEPING" => sleeps_on[t] # NoRes
    /\ A = "READY" => sleeps_on[t] = NoRes
    /\ u \in ReadyThreads \/ u = Idle \/ (u = t /\ A = "READY")
    /\ state' = [state EXCEPT ![t] = A, ![u] = "RUNNING"]
    /\ current' = [current EXCEPT ![cpu] = u]
    /\ head' \in Threads \union {Nil} /\ tail' \in Threads \union {Nil}
    /\ next' \in [Tid -> Threads \union {Nil}]
    /\ ReadyListOK'
    /\ \A v \in Threads : state[v] # "READY" /\ (v = t => A # "READY") => next'[v] = next[v]

(* What scheduler_schedule does to the thread it takes off, to the one it picks
   and to the ready list. *)
LEMMA ScheduleEffect ==
    ASSUME TableInv, NEW cpu \in Cpus, scheduler_schedule(cpu),
           NEW t \in Tid, t = current[cpu]
    PROVE  \E A, u : Scheduled(cpu, t, A, u)
  <1> USE Contexts
  <1>1. PICK A : A = StateAfter(t)
    OBVIOUS
  <1>2. PICK q : q = IF A = "READY" /\ t # Idle
                     THEN scheduler_add_to_ready_list(ReadyList, t) ELSE ReadyList
    OBVIOUS
  <1>3. PICK u : u = FirstReady(q)
    OBVIOUS
  <1>4. PICK r : r = scheduler_remove_first_ready(q)
    OBVIOUS
  <1>5. /\ state' = [state EXCEPT ![t] = A, ![u] = "RUNNING"]
        /\ head' = r.head /\ tail' = r.tail /\ next' = r.next
        /\ current' = [current EXCEPT ![cpu] = u]
    BY <1>1, <1>2, <1>3, <1>4 DEF scheduler_schedule, SetReadyList
  <1>6. /\ A \in {"FREE", "SLEEPING", "READY"}
        /\ A = "FREE" <=> state[t] = "DYING"
        /\ A = "SLEEPING" => sleeps_on[t] # NoRes
        /\ A = "READY" => sleeps_on[t] = NoRes
    BY <1>1 DEF StateAfter
  <1>7. /\ ReadyQueue(ReadyThreads, ReadyList) /\ ReadyList.next = next
        /\ ReadyThreads \in SUBSET Threads /\ state \in [Tid -> ThreadStates]
    BY DEF TableInv, TypeOK, ThreadTypeOK, ReadyListOK, ReadyList, ReadyLists, ReadyThreads, ReadyQueue
  <1>8. t \in Threads => state[t] \in {"RUNNING", "DYING"} /\ t \notin ReadyThreads
    BY DEF TableInv, CurrentOK, ReadyThreads
  <1>9. PICK L \in SUBSET Threads : L = IF A = "READY" /\ t # Idle
                                        THEN ReadyThreads \union {t} ELSE ReadyThreads
    BY <1>7
  <1>10. ReadyQueue(L, q) /\ \A v \in Tid : v \notin L => q.next[v] = next[v]
    <2>1. CASE A = "READY" /\ t # Idle
      <3>1. q = scheduler_add_to_ready_list(ReadyList, t) /\ L = ReadyThreads \union {t}
            /\ t \in Threads
        BY <1>2, <1>9, <2>1
      <3>2. ReadyQueue(L, q) /\ SameOutside(L, ReadyList, q)
        BY <1>7, <1>8, <3>1, AddReady
      <3> QED BY <1>7, <3>2 DEF SameOutside
    <2>2. CASE ~(A = "READY" /\ t # Idle)
      <3>1. q = ReadyList /\ L = ReadyThreads
        BY <1>2, <1>9, <2>2
      <3> QED BY <1>7, <3>1
    <2> QED BY <2>1, <2>2
  <1>r. ReadyQueue(L \ {u}, r) /\ r.next = q.next /\ u \in L \union {Idle}
    BY <1>3, <1>4, <1>10, RemoveReady
  <1>11. /\ r \in ReadyLists /\ r.next = q.next
         /\ IsQueue(L \ {u}, r.head, r.tail, r.next)
         /\ u \in L \union {Idle}
    BY <1>r DEF ReadyQueue
  <1>12. ReadyThreads' = L \ {u}
    <2>1. u \in Tid
      BY <1>11
    <2>2. \A v \in Threads : state'[v] = IF v = u THEN "RUNNING" ELSE IF v = t THEN A ELSE state[v]
      BY <1>5, <1>7, <2>1
    <2>3. ReadyThreads' = {v \in Threads : state'[v] = "READY"}
      BY DEF ReadyThreads
    <2>4. \A v \in Threads : v \in ReadyThreads <=> state[v] = "READY"
      BY DEF ReadyThreads
    <2>5. \A v \in Threads : state'[v] = "READY" <=> v \in L \ {u}
      BY <1>8, <1>9, <2>2, <2>4
    <2> QED BY <2>3, <2>5
  <1>13. ReadyListOK'
    BY <1>5, <1>11, <1>12 DEF ReadyListOK
  <1>14. /\ head' \in Threads \union {Nil} /\ tail' \in Threads \union {Nil}
         /\ next' \in [Tid -> Threads \union {Nil}]
    BY <1>5, <1>11 DEF ReadyLists
  <1>15. \A v \in Threads : state[v] # "READY" /\ (v = t => A # "READY") => next'[v] = next[v]
    BY <1>5, <1>9, <1>10, <1>11 DEF ReadyThreads
  <1>16. u \in ReadyThreads \/ u = Idle \/ (u = t /\ A = "READY")
    BY <1>9, <1>11
  <1>17. Scheduled(cpu, t, A, u)
    BY <1>5, <1>6, <1>13, <1>14, <1>15, <1>16 DEF Scheduled
  <1> QED BY <1>17

(* The current thread is replaced. *)
LEMMA ScheduleStep ==
    ASSUME TableInv, NEW cpu \in Cpus, ExitFrame(cpu), scheduler_schedule(cpu)
    PROVE  TableInv' /\ ChainsKept
  <1> USE Contexts
  <1>t. PICK t \in Tid : t = current[cpu]
    BY DEF TableInv, TypeOK, ThreadTypeOK
  <1>u. PICK A, u : Scheduled(cpu, t, A, u)
    BY <1>t, ScheduleEffect
  <1>0. TypeOK /\ ThreadTypeOK /\ u \in Tid /\ A \in ThreadStates
    BY <1>u DEF TableInv, TypeOK, Scheduled, ReadyThreads, ThreadStates
  <1>1. /\ t \in Threads => state[t] \in {"RUNNING", "DYING"}
        /\ \A p \in Cpus : p # cpu /\ current[p] # Idle => current[p] # t
        /\ u \in Threads => (u # t => state[u] = "READY") /\ (u = t => A = "READY")
    BY <1>t, <1>u DEF TableInv, CurrentOK, Scheduled, ReadyThreads
  <1>2. /\ \A v \in Tid : state'[v] = IF v = u THEN "RUNNING" ELSE IF v = t THEN A ELSE state[v]
        /\ current'[cpu] = u /\ \A p \in Cpus : p # cpu => current'[p] = current[p]
        /\ state' \in [Tid -> ThreadStates] /\ current' \in [Cpus -> Tid]
    BY <1>0, <1>u DEF Scheduled, ThreadTypeOK, ThreadStates
  <1>3. /\ A \in {"FREE", "SLEEPING", "READY"}
        /\ A = "FREE" <=> state[t] = "DYING"
        /\ A = "SLEEPING" => sleeps_on[t] # NoRes
        /\ A = "READY" => sleeps_on[t] = NoRes
    BY <1>u DEF Scheduled
  <1>4. /\ pc[cpu] = "intr_exit" /\ pc'[cpu] = "none" /\ tid' = tid
        /\ sleeps_on' = sleeps_on /\ hashtable' = hashtable
        /\ \A d \in Ctx : d # cpu => pc'[d] = pc[d] /\ res'[d] = res[d]
    BY DEF ExitFrame
  <1>5. /\ LabelsOK' /\ ArgumentsOK' /\ InterruptsOffOK' /\ WakingOK'
        /\ \A b \in Buckets : Queued(b)' = Queued(b)
        /\ \A v \in Threads : v # t /\ SwitchedOff(v) => SwitchedOff(v)'
    BY <1>t, <1>2, ExitRest
  <1>6. TypeOK'
    BY <1>0, <1>2, <1>u DEF Scheduled, TypeOK, ThreadTypeOK, ExitFrame
  <1>7. ReadyListOK'
    BY <1>u DEF Scheduled
  <1>8. CurrentOK'
    <2>1. \A p \in Cpus : p # cpu /\ current[p] # Idle =>
            /\ current[p] \in Threads /\ current[p] # t /\ current[p] # u
            /\ state[current[p]] \in {"RUNNING", "DYING"}
      BY <1>0, <1>1, ZenonT(30) DEF TableInv, CurrentOK, ThreadTypeOK
    <2>2. ASSUME NEW p \in Cpus, current'[p] # Idle
          PROVE  state'[current'[p]] \in {"RUNNING", "DYING"}
      <3>1. CASE p = cpu
        BY <1>0, <1>2, <2>2, <3>1
      <3>2. CASE p # cpu
        BY <1>0, <1>2, <2>1, <2>2, <3>2
      <3> QED BY <3>1, <3>2
    <2>3. \A p1, p2 \in Cpus : current'[p1] = current'[p2] /\ current'[p1] # Idle => p1 = p2
      BY <1>2, <2>1 DEF TableInv, CurrentOK
    <2>4. ASSUME NEW v \in Threads, state'[v] \in {"RUNNING", "DYING"}
          PROVE  \E p \in Cpus : current'[p] = v
      <3>1. CASE v = u
        BY <1>2, <3>1
      <3>2. CASE v # u
        <4>1. v # t /\ state[v] \in {"RUNNING", "DYING"}
          BY <1>2, <1>3, <2>4, <3>2
        <4>2. PICK p \in Cpus : current[p] = v
          BY <4>1 DEF TableInv, CurrentOK
        <4>3. p # cpu
          BY <1>t, <4>1, <4>2
        <4> QED BY <1>2, <4>2, <4>3
      <3> QED BY <3>1, <3>2
    <2> QED BY <2>2, <2>3, <2>4 DEF CurrentOK
  <1>9. SleepStateOK'
    <2>1. SleepStateOK
      BY DEF TableInv
    <2> QED BY <1>1, <1>2, <1>3, <1>4, <2>1 DEF SleepStateOK
  <1>n. \A v \in Threads : sleeps_on[v] # NoRes => next'[v] = next[v] /\ v # u
    <2>1. \A v \in Threads : sleeps_on[v] # NoRes => state[v] # "READY"
      BY DEF TableInv, SleepStateOK
    <2>2. \A v \in Threads : state[v] # "READY" /\ (v = t => A # "READY") => next'[v] = next[v]
      BY <1>u DEF Scheduled
    <2> QED BY <1>1, <1>3, <2>1, <2>2
  <1>10. SleepQueueOK'
    <2> SUFFICES ASSUME NEW b \in Buckets PROVE IsList(Queued(b)', hashtable'[b], next')
      BY DEF SleepQueueOK
    <2>1. IsList(Queued(b), hashtable[b], next)
      BY DEF TableInv, SleepQueueOK
    <2>2. \A v \in Queued(b) : next'[v] = next[v]
      BY <1>n DEF Queued
    <2>3. IsList(Queued(b), hashtable[b], next')
      BY <2>1, <2>2, ListFrame
    <2> QED BY <1>4, <1>5, <2>3
  <1>k. ChainsKept
    BY <1>4, <1>5, <1>n DEF ChainsKept, Queued
  <1>11. SleepLabelsOK'
    <2> SUFFICES ASSUME NEW v \in Threads, sleeps_on[v] # NoRes
                 PROVE  \/ pc'[v] \in {"sleepq_append", "sleep_release", "sw0"}
                        \/ pc'[v] \in {"run", "join_acquire"} /\ (state'[v] = "SLEEPING" \/ SwitchedOff(v)')
      BY <1>4 DEF SleepLabelsOK
    <2>1. pc'[v] = pc[v] /\ v # u /\ v \in Tid
      BY <1>4, <1>n
    <2>2. \/ pc[v] \in {"sleepq_append", "sleep_release", "sw0"}
          \/ pc[v] \in {"run", "join_acquire"} /\ (state[v] = "SLEEPING" \/ SwitchedOff(v))
      BY DEF TableInv, SleepLabelsOK
    <2>3. CASE v = t
      <3>1. state[v] # "DYING"
        BY DEF TableInv, SleepStateOK
      <3>2. state'[v] = "SLEEPING"
        BY <1>2, <1>3, <2>1, <2>3, <3>1
      <3> QED BY <2>1, <2>2, <3>2
    <2>4. CASE v # t
      <3>1. state'[v] = state[v] /\ (SwitchedOff(v) => SwitchedOff(v)')
        BY <1>2, <1>5, <2>1, <2>4
      <3> QED BY <2>1, <2>2, <3>1
    <2> QED BY <2>3, <2>4
  <1>12. AppendOK'
    <2> SUFFICES ASSUME NEW v \in Threads, pc'[v] = "sleepq_append"
                 PROVE  sleeps_on'[v] = res'[v] /\ next'[v] = Nil
      BY DEF AppendOK
    <2>1. pc[v] = "sleepq_append" /\ res'[v] = res[v]
      BY <1>4
    <2>2. res[v] \in Resources /\ sleeps_on[v] = res[v] /\ next[v] = Nil
      BY <2>1 DEF TableInv, ArgumentsOK, AppendOK
    <2> QED BY <1>4, <1>n, <2>1, <2>2, NoResAssumption
  <1>13. CreateOK'
    <2>c. CreateOK
      BY DEF TableInv
    <2>1. \A d \in Ctx : pc[d] \in {"create_init", "create_run"} =>
            tid[d] \in Threads /\ tid[d] # t /\ tid[d] # u
      BY <1>1, <2>c DEF CreateOK
    <2>2. \A d \in Ctx : pc'[d] \in {"create_init", "create_run"} =>
               /\ pc[d] = pc'[d] /\ tid'[d] = tid[d]
               /\ state'[tid[d]] = state[tid[d]]
               /\ pc[tid[d]] = "run" => pc'[tid[d]] = "run"
      BY <1>2, <1>4, <2>1
    <2> QED BY <2>c, <2>2, CreateFrame
  <1>14. LifeOK'
    <2> SUFFICES ASSUME NEW v \in Threads
                 PROVE  /\ pc'[v] \notin {"run", "finish", "exit_finish", "returned", "panic"}
                             => state'[v] \in {"RUNNING", "READY", "SLEEPING"}
                        /\ pc'[v] \in {"finish", "exit_finish", "returned", "panic"} => state'[v] \in {"DYING", "FREE", "NONREADY"}
                        /\ state'[v] = "DYING" => pc'[v] \in {"finish", "exit_finish", "returned", "panic"}
                        /\ pc'[v] = "panic" /\ state'[v] = "DYING" => SwitchedOff(v)'
      BY DEF LifeOK
    <2>1. pc'[v] = pc[v] /\ v \in Tid
      BY <1>4
    <2>2. /\ pc[v] \notin {"run", "finish", "exit_finish", "returned", "panic"} => state[v] \in {"RUNNING", "READY", "SLEEPING"}
          /\ pc[v] \in {"finish", "exit_finish", "returned", "panic"} => state[v] \in {"DYING", "FREE", "NONREADY"}
          /\ state[v] = "DYING" => pc[v] \in {"finish", "exit_finish", "returned", "panic"}
          /\ pc[v] = "panic" /\ state[v] = "DYING" => SwitchedOff(v)
      BY DEF TableInv, LifeOK
    <2>3. CASE v = u
      BY <1>1, <1>2, <1>3, <2>1, <2>2, <2>3
    <2>4. CASE v # u /\ v = t
      BY <1>1, <1>2, <1>3, <2>1, <2>2, <2>4
    <2>5. CASE v # u /\ v # t
      BY <1>2, <1>5, <2>1, <2>2, <2>5
    <2> QED BY <2>3, <2>4, <2>5
  <1> QED BY <1>5, <1>6, <1>7, <1>8, <1>9, <1>10, <1>11, <1>12, <1>13, <1>14, <1>k DEF TableInv

(* The end of interrupt_handle preserves the invariant. *)
LEMMA ExitStep ==
    ASSUME TableInv, NEW cpu \in Cpus, InterruptExit(cpu), UNCHANGED <<semVars, procVars>>
    PROVE  TableInv' /\ ChainsKept
  <1>1. ExitFrame(cpu)
    BY ExitFrameStep
  <1>2. CASE resched[cpu] \/ current[cpu] = Idle
    <2>1. scheduler_schedule(cpu)
      BY <1>2 DEF InterruptExit
    <2> QED BY <1>1, <2>1, ScheduleStep
  <1>3. CASE ~(resched[cpu] \/ current[cpu] = Idle)
    <2>1. UNCHANGED <<tableVars, listVars, current>>
      BY <1>3 DEF InterruptExit
    <2>2. resched \in [Cpus -> BOOLEAN]
      BY DEF TableInv, TypeOK, ThreadTypeOK
    <2>3. resched[cpu] = FALSE
      BY <1>3, <2>2, Zenon
    <2> QED BY <1>1, <2>1, <2>3, ResumeStep
  <1> QED BY <1>2, <1>3

----------------------------------------------------------------------------
(* The theorems. *)

(* The invariant holds at boot: one thread on the ready list, empty chains,  *)
(* every CPU at the idle thread.                                             *)
LEMMA InitInv == Init => TableInv
  <1> SUFFICES ASSUME Init PROVE TableInv
    OBVIOUS
  <1> USE Contexts
  <1>1. /\ state = [t \in Tid |-> IF t \in {Idle, 1} THEN "READY" ELSE "FREE"]
        /\ sleeps_on = [t \in Tid |-> NoRes] /\ next = [t \in Tid |-> Nil]
        /\ head = 1 /\ tail = 1 /\ current = [cpu \in Cpus |-> Idle]
        /\ hashtable = [b \in Buckets |-> Nil]
        /\ pc = [c \in Ctx |-> IF c \in Tid THEN "run" ELSE "none"]
    BY DEF Init, InitThreads
  <1>2. /\ \A t \in Threads : /\ state[t] = IF t = 1 THEN "READY" ELSE "FREE"
                              /\ sleeps_on[t] = NoRes /\ next[t] = Nil /\ pc[t] = "run"
        /\ \A cpu \in Cpus : current[cpu] = Idle /\ pc[cpu] = "none"
        /\ \A b \in Buckets : hashtable[b] = Nil
        /\ \A c \in Ctx : pc[c] \in {"run", "none"}
    BY <1>1
  <1>3. TypeOK
    <2>1. next_tid \in Tid
      BY MaxThreadsAssumption DEF Init, InitThreads, Tid
    <2>2. state \in [Tid -> ThreadStates] /\ pc \in [Ctx -> Labels]
      BY <1>1 DEF ThreadStates, Labels, Preemptible
    <2>3. sleepq_slock \in Ctx \union {NoCtx} /\ in_interrupt \in BOOLEAN
          /\ res \in [Ctx -> Resources \union {NoRes}] /\ tid \in [Ctx -> Threads \union {Nil}]
      BY DEF Init, InitThreads
    <2>4. resched \in [Cpus -> BOOLEAN] /\ zombie \in [Events -> BOOLEAN]
      BY DEF Init, InitThreads
    <2>5. ThreadTypeOK
      BY <1>1, <2>1, <2>2, <2>3, <2>4 DEF ThreadTypeOK
    <2>6. value \in [Sems -> Int] /\ slock \in [Sems -> Ctx \union {NoCtx}]
          /\ ptable_slock \in Ctx \union {NoCtx}
      BY InitValueAssumption DEF Init
    <2> QED BY <2>2, <2>4, <2>5, <2>6 DEF TypeOK
  <1>4. ReadyListOK
    <2>1. ReadyThreads = {1}
      <3>1. \A t \in Threads : state[t] = "READY" <=> t = 1
        BY <1>2
      <3>2. 1 \in Threads
        OBVIOUS
      <3> HIDE Contexts
      <3> QED BY <3>1, <3>2 DEF ReadyThreads
    <2>2. IsList({1}, 1, next)
      BY <1>2, SingletonList
    <2> QED BY <1>1, <1>2, <2>1, <2>2, ZenonT(30) DEF ReadyListOK, IsQueue
  <1>5. CurrentOK /\ SleepStateOK
    BY <1>2 DEF CurrentOK, SleepStateOK
  <1>6. SleepQueueOK
    <2>1. \A b \in Buckets : Queued(b) = {}
      BY <1>2 DEF Queued
    <2> QED BY <1>2, <2>1 DEF SleepQueueOK, IsList, HoldsList
  <1>7. LabelsOK
    BY <1>1, <1>2 DEF LabelsOK, HandlerLabels
  <1>8. ArgumentsOK /\ InterruptsOffOK /\ SleepLabelsOK /\ AppendOK /\ WakingOK
    BY <1>2 DEF ArgumentsOK, InterruptsOffOK, SleepLabelsOK, AppendOK, WakingOK, Preemptible
  <1>9. CreateOK /\ LifeOK
    BY <1>2 DEF CreateOK, LifeOK
  <1> QED BY <1>3, <1>4, <1>5, <1>6, <1>7, <1>8, <1>9 DEF TableInv

(* thread_finish keeps TableInv when it leaves the CPU, in a kernel thread or *)
(* in a process.                                                              *)
LEMMA FinishSwitchStep ==
    ASSUME TableInv, NEW t \in Threads, NEW label \in {"finish", "exit_finish"},
           \E cpu \in Cpus : FinishSwitch(cpu, t, label), UNCHANGED <<semVars, procVars>>
    PROVE  TableInv' /\ ChainsKept
  <1>1. PICK cpu \in Cpus : FinishSwitch(cpu, t, label)
    OBVIOUS
  <1>2. SoftwareInterrupt(cpu, t, "panic") /\ pc[t] \in {"finish", "exit_finish"}
    BY <1>1 DEF FinishSwitch, At
  <1> QED BY <1>2, SoftwareStep

(* thread_finish keeps TableInv when it returns to userland: the thread stays *)
(* DYING, so that the next time slice ends it.                                *)
LEMMA ReturnStep ==
    ASSUME TableInv, NEW c \in Threads, FinishReturn(c), UNCHANGED <<semVars, procVars>>
    PROVE  TableInv' /\ ChainsKept
  <1> USE Contexts
  <1>0. /\ pc \in [Ctx -> Labels] /\ pc[c] = "exit_finish" /\ TypeOK /\ ThreadTypeOK /\ Runs(c)
    BY DEF TableInv, TypeOK, FinishReturn, At
  <1>1. state[c] = "DYING" /\ ~SwitchedOff(c) /\ sleeps_on[c] = NoRes
    BY <1>0, RunningThread DEF TableInv, LifeOK
  <1>2. /\ pc' = [pc EXCEPT ![c] = "returned"]
        /\ UNCHANGED <<state, sleeps_on, next, head, tail, hashtable, sleepq_slock, current,
                       next_tid, in_interrupt, res, tid, resched, value, slock, zombie, ptable_slock>>
    BY DEF FinishReturn, Goto, tableVars, listVars, queueVars, semVars, procVars
  <1>3. pc'[c] = "returned" /\ \A d \in Ctx : d # c => pc'[d] = pc[d]
    BY <1>0, <1>2
  <1>4. TypeOK'
    BY <1>0, <1>2 DEF TypeOK, ThreadTypeOK, Labels, Preemptible
  <1>5. ReadyListOK' /\ CurrentOK' /\ SleepStateOK'
    BY <1>2, SMTT(20) DEF TableInv, ReadyListOK, CurrentOK, SleepStateOK, ReadyThreads, IsQueue, IsList, HoldsList
  <1>w. \A d \in Ctx :
          /\ pc'[d] \in {"wake_ready", "wakeall_ready"} <=> pc[d] \in {"wake_ready", "wakeall_ready"}
          /\ pc'[d] = "sleepq_append" <=> pc[d] = "sleepq_append"
    BY <1>0, <1>3
  <1>7. SleepQueueOK' /\ ChainsKept
    <2>1. \A b \in Buckets : Queued(b)' = Queued(b)
      BY <1>2, <1>w DEF Queued, Waking
    <2>2. SleepQueueOK'
      BY <1>2, <2>1 DEF TableInv, SleepQueueOK, IsList, HoldsList
    <2> QED BY <1>2, <2>1, <2>2 DEF ChainsKept
  <1>8. LabelsOK' /\ ArgumentsOK' /\ InterruptsOffOK'
    BY <1>0, <1>2, <1>3 DEF TableInv, LabelsOK, ArgumentsOK, InterruptsOffOK, Runs, Preemptible
  <1>9. \A u \in Threads : SwitchedOff(u) => SwitchedOff(u)'
    BY <1>0, <1>2 DEF SwitchedOff
  <1>10. SleepLabelsOK' /\ AppendOK'
    BY <1>0, <1>1, <1>2, <1>3, <1>9 DEF TableInv, SleepLabelsOK, AppendOK
  <1>11. WakingOK'
    BY <1>2, <1>w DEF TableInv, WakingOK
  <1>12. CreateOK'
    <2>c. CreateOK
      BY DEF TableInv
    <2>1. \A d \in Ctx : pc[d] \in {"create_init", "create_run"} => tid[d] # c /\ tid[d] \in Threads
      BY <1>1, <2>c DEF CreateOK
    <2> QED BY <1>2, <1>3, <2>c, <2>1, CreateFrame
  <1>13. LifeOK'
    BY <1>0, <1>1, <1>2, <1>3, <1>9 DEF TableInv, LifeOK
  <1> QED BY <1>4, <1>5, <1>7, <1>8, <1>10, <1>11, <1>12, <1>13 DEF TableInv

(* A step of a thread preserves the invariant. *)
LEMMA ThreadStepInv ==
    ASSUME TableInv, NEW t \in Threads, ThreadStep(t)
    PROVE  TableInv'
  <1> USE Contexts, ResourcesAssumption
  <1>2. CASE semaphore_P(t)
    BY <1>2, CallStep, LockStep DEF semaphore_P
  <1>3. CASE semaphore_V(t)
    <2>1. CASE \E s \in Sems : value[s] < MaxValue /\ Call(t, s, "V_acquire")
      BY <2>1, CallStep
    <2>2. CASE V_Acquire(t)
      BY <2>2, LockStep
    <2>3. CASE WakeFind(t, "wake_find", "wake_ready", "sem_release") /\ UNCHANGED <<semVars, procVars>>
      BY <2>3, FindStep DEF FindLabels
    <2>4. CASE WakeReady(t, "wake_ready", "sem_release", NoCtx) /\ UNCHANGED <<semVars, procVars>>
      BY <2>4, WakeStep
    <2> QED BY <1>3, <2>1, <2>2, <2>3, <2>4 DEF semaphore_V
  <1>4. CASE sleepq_add(t)
    BY <1>4, MarkStep, AppendStep DEF sleepq_add
  <1>5. CASE SleepRelease(t) \/ SemRelease(t)
    BY <1>5, LockStep
  <1>6. CASE process_join(t)
    BY <1>6, CallStep, LockStep DEF process_join
  <1>7. CASE process_finish(t)
    <2>1. CASE \E e \in Events : ~zombie[e] /\ Call(t, e, "exit_acquire")
      BY <2>1, CallStep
    <2>2. CASE ExitAcquire(t) \/ ExitRelease(t)
      BY <2>2, LockStep
    <2>3. CASE WakeFind(t, "wakeall_find", "wakeall_ready", "exit_release")
               /\ UNCHANGED <<semVars, procVars>>
      BY <2>3, FindStep DEF FindLabels
    <2>4. CASE WakeReady(t, "wakeall_ready", "wakeall_find", t) /\ UNCHANGED <<semVars, procVars>>
      BY <2>4, WakeStep
    <2>5. CASE FinishMark(t, "thread_finish", "exit_finish") /\ UNCHANGED <<semVars, procVars>>
      BY <2>5, FinishStep
    <2>6. CASE (\E cpu \in Cpus : FinishSwitch(cpu, t, "exit_finish")) /\ UNCHANGED <<semVars, procVars>>
      BY <2>6, FinishSwitchStep
    <2>7. CASE FinishReturn(t) /\ UNCHANGED <<semVars, procVars>>
      BY <2>7, ReturnStep
    <2> QED BY <1>7, <2>1, <2>2, <2>3, <2>4, <2>5, <2>6, <2>7 DEF process_finish
  <1>8. CASE thread_create(t)
    BY <1>8, ReserveStep, InitStep, RunStep DEF thread_create
  <1>9. CASE thread_switch(t)
    <2>1. CASE Call(t, NoRes, "sw0")
      BY <2>1, CallStep
    <2>2. CASE \E cpu \in Cpus : Switch(cpu, t)
      <3>1. PICK cpu \in Cpus : Switch(cpu, t)
        BY <2>2
      <3>2. PICK resume : resume = IF res[t] \in Events THEN "join_acquire" ELSE "run"
        OBVIOUS
      <3>3. /\ SoftwareInterrupt(cpu, t, resume) /\ pc[t] = "sw0"
            /\ UNCHANGED <<semVars, procVars>>
        BY <3>1, <3>2 DEF Switch, At
      <3> QED BY <3>2, <3>3, SoftwareStep
    <2> QED BY <1>9, <2>1, <2>2 DEF thread_switch
  <1>10. CASE thread_finish(t)
    <2>1. CASE FinishMark(t, "run", "finish") /\ UNCHANGED <<semVars, procVars>>
      BY <2>1, FinishStep
    <2>2. CASE (\E cpu \in Cpus : FinishSwitch(cpu, t, "finish")) /\ UNCHANGED <<semVars, procVars>>
      BY <2>2, FinishSwitchStep
    <2> QED BY <1>10, <2>1, <2>2 DEF thread_finish
  <1> QED BY <1>2, <1>3, <1>4, <1>5, <1>6, <1>7, <1>8, <1>9, <1>10 DEF ThreadStep

(* A step of a CPU, inside a device handler or of interrupt_handle itself,   *)
(* preserves the invariant.                                                  *)
LEMMA CpuStepInv ==
    ASSUME TableInv, NEW cpu \in Cpus, HandlerStep(cpu) \/ interrupt_handle(cpu)
    PROVE  TableInv'
  <1> USE Contexts
  <1>1. CASE \E s \in Sems : value[s] < MaxValue /\ Call(cpu, s, "V_acquire")
    BY <1>1 DEF Call, At, TableInv, LabelsOK, HandlerLabels
  <1>2. CASE V_Acquire(cpu) \/ SemRelease(cpu)
    BY <1>2, LockStep
  <1>3. CASE WakeFind(cpu, "wake_find", "wake_ready", "sem_release") /\ UNCHANGED <<semVars, procVars>>
    BY <1>3, FindStep DEF FindLabels
  <1>4. CASE WakeReady(cpu, "wake_ready", "sem_release", NoCtx) /\ UNCHANGED <<semVars, procVars>>
    BY <1>4, WakeStep
  <1>5. CASE (TimerInterrupt(cpu) \/ InterruptExit(cpu)) /\ UNCHANGED <<semVars, procVars>>
    BY <1>5, TimerStep, ExitStep
  <1>6. CASE DeviceInterrupt(cpu)
    BY <1>6, DeviceStep
  <1> QED BY <1>1, <1>2, <1>3, <1>4, <1>5, <1>6 DEF HandlerStep, interrupt_handle, semaphore_V

(* A step that changes nothing preserves the invariant. *)
LEMMA StutterInv == TableInv /\ UNCHANGED vars => TableInv'
  BY DEF vars, TableInv, TypeOK, ThreadTypeOK, ReadyListOK, ReadyThreads, CurrentOK, SleepQueueOK,
         Queued, Waking, SleepStateOK, LabelsOK, ArgumentsOK, InterruptsOffOK, Runs, SleepLabelsOK,
         SwitchedOff, AppendOK, WakingOK, CreateOK, LifeOK

----------------------------------------------------------------------------
(* Who waits for what.  The labels at which a context holds a lock. *)
Inside == SleepLabels \union SemLabels \union TableLabels

(* The threads asleep on a resource can be counted. *)
LEMMA FinitelyManySleep ==
    \A r : IsFiniteSet(Sleeping(r)) /\ Cardinality(Sleeping(r)) \in Nat
  <1>1. IsFiniteSet(Tid)
    BY MaxThreadsAssumption, FS_Interval DEF Tid
  <1>2. \A r : IsFiniteSet(Sleeping(r))
    BY <1>1, FS_Subset DEF Sleeping, Threads
  <1> QED BY <1>2, FS_CardinalityType

(* A lock has one holder, and a context inside a section holds its lock. *)
LEMMA LockHolder ==
    ASSUME TableInv, WaitInv, NEW c \in Ctx
    PROVE  /\ pc[c] \in SemLabels \union SleepLabels /\ res[c] \in Sems => slock[res[c]] = c
           /\ pc[c] \in SemLabels => res[c] \in Sems
           /\ pc[c] \in TableLabels => res[c] \in Events /\ ptable_slock = c
           /\ pc[c] \in SleepLabels => res[c] \in Resources
           /\ pc[c] \in SleepLabels /\ res[c] \in Events => ptable_slock = c
  BY DEF TableInv, WaitInv, ArgumentsOK, LocksOK, HoldsSem, HoldsTable, SemLabels, TableLabels, SleepLabels

(* Steps that leave the sections of the locks alone. *)
LEMMA OutsideStep ==
    ASSUME TableInv, WaitInv, UNCHANGED <<semVars, procVars>>,
           \A t \in Threads : sleeps_on'[t] = sleeps_on[t],
           \A c \in Ctx : \/ pc'[c] = pc[c] /\ res'[c] = res[c] /\ tid'[c] = tid[c]
                          \/ pc[c] \notin Inside /\ pc'[c] \notin Inside
                          \/ pc[c] = "sleepq_append" /\ pc'[c] = "sleep_release" /\ res'[c] = res[c]
    PROVE  WaitInv'
  <1> USE DEF Inside
  <1>1. UNCHANGED <<value, slock, zombie, ptable_slock>>
    BY DEF semVars, procVars
  <1>2. /\ \A c \in Ctx, s \in Sems : HoldsSem(c, s)' <=> HoldsSem(c, s)
        /\ \A c \in Ctx : HoldsTable(c)' <=> HoldsTable(c)
    BY DEF HoldsSem, HoldsTable, SleepLabels, SemLabels, TableLabels
  <1>3. \A r : Sleeping(r)' = Sleeping(r)
    BY DEF Sleeping
  <1>4. \A s \in Sems : Owed(s)' = Owed(s)
    BY <1>1 DEF Owed
  <1>5. \A c \in Ctx : Pending(c)' = Pending(c)
    BY DEF Pending, SleepLabels, SemLabels, TableLabels
  <1>6. LocksOK'
    BY <1>1, <1>2 DEF WaitInv, LocksOK
  <1>7. CountsOK'
    BY <1>1, <1>3, <1>4, <1>5 DEF WaitInv, CountsOK
  <1>8. WokenOK'
    <2>1. ASSUME NEW c \in Ctx, pc'[c] \in {"wake_ready", "wakeall_ready"}
          PROVE  sleeps_on'[tid'[c]] = res'[c]
      <3>1. pc'[c] = pc[c] /\ res'[c] = res[c] /\ tid'[c] = tid[c]
        BY <2>1 DEF SemLabels, TableLabels
      <3> QED BY <2>1, <3>1 DEF TableInv, WakingOK, WaitInv, WokenOK
    <2> QED BY <2>1 DEF WokenOK
  <1>9. JoinersOK'
    <2>1. ASSUME NEW e \in Events, zombie'[e]
          PROVE  /\ \/ Sleeping(e)' = {}
                    \/ \E c \in Ctx : pc'[c] \in {"wakeall_find", "wakeall_ready"} /\ res'[c] = e
                 /\ \A c \in Ctx : pc'[c] \in SleepLabels => res'[c] # e
      <3>1. /\ \/ Sleeping(e) = {}
               \/ \E c \in Ctx : pc[c] \in {"wakeall_find", "wakeall_ready"} /\ res[c] = e
            /\ \A c \in Ctx : pc[c] \in SleepLabels => res[c] # e
        BY <1>1, <2>1 DEF WaitInv, JoinersOK
      <3>2. \A c \in Ctx : pc'[c] \in SleepLabels => res'[c] # e
        BY <3>1 DEF SleepLabels
      <3>3. \A c \in Ctx : pc[c] \in {"wakeall_find", "wakeall_ready"} => pc'[c] = pc[c] /\ res'[c] = res[c]
        BY DEF TableLabels
      <3> QED BY <1>3, <3>1, <3>2, <3>3
    <2> QED BY <2>1 DEF JoinersOK
  <1> QED BY <1>6, <1>7, <1>8, <1>9 DEF WaitInv

(* One context moves. *)
LEMMA OneMoves ==
    ASSUME TableInv, WaitInv, NEW c \in Ctx, NEW to, Goto(c, to),
           \A d \in Ctx : d # c => res'[d] = res[d]
    PROVE  /\ pc'[c] = to /\ \A d \in Ctx : d # c => pc'[d] = pc[d]
           /\ \A d \in Ctx, s \in Sems : d # c => (HoldsSem(d, s)' <=> slock[s] = d)
           /\ \A d \in Ctx : d # c => (HoldsTable(d)' <=> ptable_slock = d)
           /\ \A d \in Ctx : d # c => Pending(d)' = Pending(d)
  <1>1. pc'[c] = to /\ \A d \in Ctx : d # c => pc'[d] = pc[d]
    BY DEF TableInv, TypeOK, Goto
  <1>2. \A d \in Ctx, s \in Sems : d # c => (HoldsSem(d, s)' <=> HoldsSem(d, s))
    BY <1>1 DEF HoldsSem
  <1>3. \A d \in Ctx : d # c => (HoldsTable(d)' <=> HoldsTable(d))
    BY <1>1 DEF HoldsTable
  <1> QED BY <1>1, <1>2, <1>3 DEF WaitInv, LocksOK, Pending

(* What a step that wakes nobody and puts nobody to sleep has to keep. *)
LEMMA NobodyWoken ==
    ASSUME TableInv, WaitInv, NEW c \in Ctx, NEW to, Goto(c, to), UNCHANGED <<sleeps_on, tid>>,
           \A d \in Ctx : d # c => res'[d] = res[d],
           to \notin {"wake_ready", "wakeall_ready"}
    PROVE  WokenOK'
  BY OneMoves DEF WaitInv, WokenOK

(* semaphore_P and semaphore_V take the lock and change the value. *)
LEMMA SemAcquireStep ==
    ASSUME TableInv, WaitInv, NEW c \in Ctx, P_Acquire(c) \/ V_Acquire(c)
    PROVE  WaitInv'
  <1>1. PICK s \in Sems, to \in {"sleepq_mark", "sem_release", "wake_find"} :
          /\ s = res[c] /\ slock[s] = NoCtx /\ slock' = [slock EXCEPT ![s] = c]
          /\ Goto(c, to) /\ UNCHANGED <<sleeps_on, tid, res, zombie, ptable_slock>>
          /\ \/ value' = [value EXCEPT ![s] = @ - 1]
                 /\ to = IF value[s] - 1 < 0 THEN "sleepq_mark" ELSE "sem_release"
             \/ value' = [value EXCEPT ![s] = @ + 1]
                 /\ to = IF value[s] + 1 <= 0 THEN "wake_find" ELSE "sem_release"
          /\ pc[c] \in {"P_acquire", "V_acquire"}
    <2>1. pc[c] \in {"P_acquire", "V_acquire"} /\ res[c] \in Sems
      BY DEF P_Acquire, V_Acquire, At, TableInv, ArgumentsOK
    <2>2. CASE P_Acquire(c)
      BY <2>1, <2>2 DEF P_Acquire, OnlyPc, tableVars, procVars
    <2>3. CASE V_Acquire(c)
      BY <2>1, <2>3 DEF V_Acquire, OnlyPc, tableVars, procVars
    <2> QED BY <2>2, <2>3
  <1>2. /\ slock'[s] = c /\ \A r \in Sems : r # s => slock'[r] = slock[r] /\ value'[r] = value[r]
        /\ value[s] \in Int /\ s \notin Events /\ c # NoCtx
        /\ \/ value'[s] = value[s] - 1 /\ to = IF value[s] - 1 < 0 THEN "sleepq_mark" ELSE "sem_release"
           \/ value'[s] = value[s] + 1 /\ to = IF value[s] + 1 <= 0 THEN "wake_find" ELSE "sem_release"
    BY <1>1, ResourcesAssumption, Contexts DEF TableInv, TypeOK
  <1>3. /\ pc'[c] = to /\ \A d \in Ctx : d # c => pc'[d] = pc[d]
        /\ \A d \in Ctx, r \in Sems : d # c => (HoldsSem(d, r)' <=> slock[r] = d)
        /\ \A d \in Ctx : d # c => (HoldsTable(d)' <=> ptable_slock = d)
        /\ \A d \in Ctx : d # c => Pending(d)' = Pending(d)
    BY <1>1, OneMoves
  <1>4. \A r \in Sems : slock[r] # c
    BY <1>1 DEF WaitInv, LocksOK, HoldsSem, SleepLabels, SemLabels
  <1>5. ptable_slock # c
    BY <1>1 DEF WaitInv, LocksOK, HoldsTable, SleepLabels, TableLabels
  <1>6. LocksOK'
    <2>1. \A r \in Sems : HoldsSem(c, r)' <=> r = s
      BY <1>1, <1>3 DEF HoldsSem, SleepLabels, SemLabels
    <2>2. ~HoldsTable(c)'
      BY <1>1, <1>2, <1>3 DEF HoldsTable, TableLabels
    <2>3. \A r \in Sems, d \in Ctx : HoldsSem(d, r)' <=> slock'[r] = d
      <3>1. ASSUME NEW r \in Sems, NEW d \in Ctx, d # c PROVE HoldsSem(d, r)' <=> slock'[r] = d
        <4>1. HoldsSem(d, r)' <=> slock[r] = d
          BY <1>3, <3>1
        <4> QED BY <1>1, <1>2, <3>1, <4>1, Contexts
      <3> QED BY <1>2, <1>4, <2>1, <3>1
    <2>4. \A d \in Ctx : HoldsTable(d)' <=> ptable_slock' = d
      BY <1>1, <1>3, <1>5, <2>2
    <2> QED BY <2>3, <2>4 DEF LocksOK
  <1>7. \A r : Sleeping(r)' = Sleeping(r)
    BY <1>1 DEF Sleeping
  <1>8. CountsOK'
    <2>1. Cardinality(Sleeping(s)) = Owed(s)
      BY <1>1 DEF WaitInv, CountsOK
    <2>2. Owed(s)' = Owed(s) + Pending(c)'
      BY <1>2, <1>3 DEF Owed, Pending
    <2>3. \A r \in Sems : r # s => Owed(r)' = Owed(r)
      BY <1>2 DEF Owed
    <2>4. ASSUME NEW r \in Sems, r # s
          PROVE  /\ slock'[r] = NoCtx => Cardinality(Sleeping(r)') = Owed(r)'
                 /\ \A d \in Ctx : slock'[r] = d => Cardinality(Sleeping(r)') + Pending(d)' = Owed(r)'
      BY <1>2, <1>3, <1>4, <1>7, <2>3, <2>4 DEF WaitInv, CountsOK
    <2>5. Cardinality(Sleeping(s)') + Pending(c)' = Owed(s)'
      BY <1>7, <2>1, <2>2
    <2> QED BY <1>2, <2>4, <2>5 DEF CountsOK
  <1>9. WokenOK'
    BY <1>1, NobodyWoken
  <1>10. JoinersOK'
    <2>1. \A d \in Ctx : pc'[d] \in SleepLabels => pc[d] \in SleepLabels \/ (d = c /\ res[d] \notin Events)
      BY <1>1, <1>2, <1>3
    <2>2. \A d \in Ctx : pc[d] \in {"wakeall_find", "wakeall_ready"} => pc'[d] = pc[d]
      BY <1>1, <1>3
    <2> QED BY <1>1, <1>7, <2>1, <2>2 DEF WaitInv, JoinersOK
  <1> QED BY <1>6, <1>8, <1>9, <1>10 DEF WaitInv

(* The lock of a semaphore is let go with the value right. *)
LEMMA SemReleaseStep ==
    ASSUME TableInv, WaitInv, NEW c \in Ctx, SemRelease(c) \/ (SleepRelease(c) /\ res[c] \in Sems)
    PROVE  WaitInv'
  <1>1. PICK s \in Sems, to \in {"intr_exit", "run", "sw0"} :
          /\ s = res[c] /\ pc[c] \in {"sem_release", "sleep_release"}
          /\ slock' = [slock EXCEPT ![s] = NoCtx] /\ Goto(c, to)
          /\ UNCHANGED <<sleeps_on, tid, value, zombie, ptable_slock>>
          /\ \A d \in Ctx : d # c => res'[d] = res[d]
    <2>1. pc[c] \in {"sem_release", "sleep_release"} /\ res[c] \in Sems
      BY DEF SemRelease, SleepRelease, At, TableInv, ArgumentsOK
    <2>2. CASE SemRelease(c)
      BY <2>1, <2>2 DEF SemRelease, OnlyPc, tableVars, procVars, TableInv, TypeOK, ThreadTypeOK
    <2>3. CASE SleepRelease(c)
      BY <2>1, <2>3 DEF SleepRelease, OnlyPc, tableVars, procVars, TableInv, TypeOK, ThreadTypeOK
    <2> QED BY <2>2, <2>3
  <1>2. /\ slock'[s] = NoCtx /\ \A r \in Sems : r # s => slock'[r] = slock[r]
        /\ s \notin Events /\ NoCtx \notin Ctx
    BY <1>1, ResourcesAssumption, Contexts DEF TableInv, TypeOK
  <1>3. /\ pc'[c] = to /\ \A d \in Ctx : d # c => pc'[d] = pc[d]
        /\ \A d \in Ctx, r \in Sems : d # c => (HoldsSem(d, r)' <=> slock[r] = d)
        /\ \A d \in Ctx : d # c => (HoldsTable(d)' <=> ptable_slock = d)
        /\ \A d \in Ctx : d # c => Pending(d)' = Pending(d)
    BY <1>1, OneMoves
  <1>4. \A r \in Sems : slock[r] = c <=> r = s
    BY <1>1 DEF WaitInv, LocksOK, HoldsSem, SleepLabels, SemLabels
  <1>5. ptable_slock # c
    BY <1>1, <1>2 DEF WaitInv, LocksOK, HoldsTable, SleepLabels, TableLabels
  <1>6. LocksOK'
    <2>1. \A r \in Sems : ~HoldsSem(c, r)'
      BY <1>1, <1>3 DEF HoldsSem, SleepLabels, SemLabels
    <2>2. ~HoldsTable(c)'
      BY <1>1, <1>3 DEF HoldsTable, TableLabels, SleepLabels
    <2> QED BY <1>1, <1>2, <1>3, <1>4, <1>5, <2>1, <2>2 DEF LocksOK
  <1>7. \A r : Sleeping(r)' = Sleeping(r)
    BY <1>1 DEF Sleeping
  <1>8. CountsOK'
    <2>1. Cardinality(Sleeping(s)) + 0 = Owed(s)
      BY <1>1, <1>4 DEF WaitInv, CountsOK, Pending
    <2>2. \A r \in Sems : Owed(r)' = Owed(r)
      BY <1>1 DEF Owed
    <2>3. ASSUME NEW r \in Sems, r # s
          PROVE  /\ slock'[r] = NoCtx => Cardinality(Sleeping(r)') = Owed(r)'
                 /\ \A d \in Ctx : slock'[r] = d => Cardinality(Sleeping(r)') + Pending(d)' = Owed(r)'
      BY <1>2, <1>3, <1>4, <1>7, <2>2, <2>3 DEF WaitInv, CountsOK
    <2>4. Cardinality(Sleeping(s)') = Owed(s)'
      BY <1>7, <2>1, <2>2, FinitelyManySleep
    <2> QED BY <1>2, <2>3, <2>4 DEF CountsOK
  <1>9. WokenOK'
    BY <1>1, NobodyWoken
  <1>10. JoinersOK'
    <2>1. \A d \in Ctx : pc'[d] \in SleepLabels => pc[d] \in SleepLabels /\ res'[d] = res[d]
      BY <1>1, <1>3 DEF SleepLabels
    <2>2. \A d \in Ctx : pc[d] \in {"wakeall_find", "wakeall_ready"} => pc'[d] = pc[d] /\ res'[d] = res[d]
      BY <1>1, <1>3
    <2> QED BY <1>1, <1>7, <2>1, <2>2 DEF WaitInv, JoinersOK
  <1> QED BY <1>6, <1>8, <1>9, <1>10 DEF WaitInv

(* process_join finds a zombie, or takes the lock to go to sleep. *)
LEMMA JoinAcquireStep ==
    ASSUME TableInv, WaitInv, NEW c \in Ctx, JoinAcquire(c)
    PROVE  WaitInv'
  <1>1. PICK e \in Events, to \in {"run", "sleepq_mark"} :
          /\ e = res[c] /\ pc[c] = "join_acquire" /\ ptable_slock = NoCtx /\ Goto(c, to)
          /\ UNCHANGED <<sleeps_on, tid, value, slock>>
          /\ \A d \in Ctx : d # c => res'[d] = res[d]
          /\ \/ to = "run" /\ zombie' = [zombie EXCEPT ![e] = FALSE] /\ ptable_slock' = NoCtx
             \/ to = "sleepq_mark" /\ ~zombie[e] /\ zombie' = zombie /\ ptable_slock' = c /\ res' = res
    <2>1. pc[c] = "join_acquire" /\ res[c] \in Events
      BY DEF JoinAcquire, At, TableInv, ArgumentsOK
    <2> QED BY <2>1 DEF JoinAcquire, OnlyPc, tableVars, semVars, TableInv, TypeOK, ThreadTypeOK
  <1>2. /\ pc'[c] = to /\ \A d \in Ctx : d # c => pc'[d] = pc[d]
        /\ \A d \in Ctx, r \in Sems : d # c => (HoldsSem(d, r)' <=> slock[r] = d)
        /\ \A d \in Ctx : d # c => (HoldsTable(d)' <=> ptable_slock = d)
        /\ \A d \in Ctx : d # c => Pending(d)' = Pending(d)
    BY <1>1, OneMoves
  <1>3. \A r \in Sems : slock[r] # c
    BY <1>1 DEF WaitInv, LocksOK, HoldsSem, SleepLabels, SemLabels
  <1>4. e \notin Sems /\ NoCtx \notin Ctx
    BY ResourcesAssumption, Contexts
  <1>5. LocksOK'
    <2>1. \A r \in Sems : ~HoldsSem(c, r)'
      BY <1>1, <1>2, <1>4 DEF HoldsSem, SleepLabels, SemLabels
    <2>2. HoldsTable(c)' <=> to = "sleepq_mark"
      BY <1>1, <1>2 DEF HoldsTable, TableLabels, SleepLabels
    <2>3. \A r \in Sems, d \in Ctx : HoldsSem(d, r)' <=> slock'[r] = d
      BY <1>1, <1>2, <1>3, <2>1
    <2>4. \A d \in Ctx : HoldsTable(d)' <=> ptable_slock' = d
      BY <1>1, <1>2, <1>4, <2>2
    <2> QED BY <2>3, <2>4 DEF LocksOK
  <1>6. \A r : Sleeping(r)' = Sleeping(r)
    BY <1>1 DEF Sleeping
  <1>7. CountsOK'
    <2>1. \A r \in Sems : Owed(r)' = Owed(r)
      BY <1>1 DEF Owed
    <2> QED BY <1>1, <1>2, <1>3, <1>6, <2>1 DEF WaitInv, CountsOK
  <1>8. WokenOK'
    BY <1>1, NobodyWoken
  <1>9. JoinersOK'
    <2>1. \A d \in Ctx : pc'[d] \in SleepLabels =>
            (pc[d] \in SleepLabels /\ res'[d] = res[d]) \/ (res'[d] = e /\ ~zombie[e])
      BY <1>1, <1>2 DEF SleepLabels
    <2>2. \A d \in Ctx : pc[d] \in {"wakeall_find", "wakeall_ready"} => pc'[d] = pc[d] /\ res'[d] = res[d]
      BY <1>1, <1>2
    <2>3. \A f \in Events : zombie'[f] => zombie[f]
      BY <1>1 DEF TableInv, TypeOK
    <2> QED BY <1>6, <2>1, <2>2, <2>3 DEF WaitInv, JoinersOK
  <1> QED BY <1>5, <1>7, <1>8, <1>9 DEF WaitInv

(* process_finish makes the zombie and goes to wake who sleeps on it. *)
LEMMA ExitAcquireStep ==
    ASSUME TableInv, WaitInv, NEW c \in Ctx, ExitAcquire(c)
    PROVE  WaitInv'
  <1>1. PICK e \in Events :
          /\ e = res[c] /\ pc[c] = "exit_acquire" /\ ptable_slock = NoCtx /\ Goto(c, "wakeall_find")
          /\ UNCHANGED <<sleeps_on, tid, value, slock, res>>
          /\ zombie' = [zombie EXCEPT ![e] = TRUE] /\ ptable_slock' = c
    <2>1. pc[c] = "exit_acquire" /\ res[c] \in Events
      BY DEF ExitAcquire, At, TableInv, ArgumentsOK
    <2> QED BY <2>1 DEF ExitAcquire, OnlyPc, tableVars, semVars
  <1>2. /\ pc'[c] = "wakeall_find" /\ \A d \in Ctx : d # c => pc'[d] = pc[d]
        /\ \A d \in Ctx, r \in Sems : d # c => (HoldsSem(d, r)' <=> slock[r] = d)
        /\ \A d \in Ctx : d # c => (HoldsTable(d)' <=> ptable_slock = d)
        /\ \A d \in Ctx : d # c => Pending(d)' = Pending(d)
    BY <1>1, OneMoves
  <1>3. \A r \in Sems : slock[r] # c
    BY <1>1 DEF WaitInv, LocksOK, HoldsSem, SleepLabels, SemLabels
  <1>4. NoCtx \notin Ctx
    BY Contexts
  <1>5. LocksOK'
    <2>1. \A r \in Sems : ~HoldsSem(c, r)'
      BY <1>2 DEF HoldsSem, SleepLabels, SemLabels
    <2>2. HoldsTable(c)'
      BY <1>2 DEF HoldsTable, TableLabels, SleepLabels
    <2>3. \A r \in Sems, d \in Ctx : HoldsSem(d, r)' <=> slock'[r] = d
      BY <1>1, <1>2, <1>3, <2>1
    <2>4. \A d \in Ctx : HoldsTable(d)' <=> ptable_slock' = d
      BY <1>1, <1>2, <1>4, <2>2
    <2> QED BY <2>3, <2>4 DEF LocksOK
  <1>6. \A r : Sleeping(r)' = Sleeping(r)
    BY <1>1 DEF Sleeping
  <1>7. CountsOK'
    <2>1. \A r \in Sems : Owed(r)' = Owed(r)
      BY <1>1 DEF Owed
    <2> QED BY <1>1, <1>2, <1>3, <1>6, <2>1 DEF WaitInv, CountsOK
  <1>8. WokenOK'
    BY <1>1, NobodyWoken
  <1>9. JoinersOK'
    <2>1. \A d \in Ctx : pc'[d] \in SleepLabels => pc[d] \in SleepLabels /\ res'[d] = res[d] /\ res[d] # e
      BY <1>1, <1>2, <1>4 DEF SleepLabels, WaitInv, LocksOK, HoldsTable
    <2>2. \A d \in Ctx : pc[d] \in {"wakeall_find", "wakeall_ready"} => pc'[d] = pc[d] /\ res'[d] = res[d]
      BY <1>1, <1>2
    <2>3. \A f \in Events : zombie'[f] => zombie[f] \/ f = e
      BY <1>1 DEF TableInv, TypeOK
    <2>4. pc'[c] \in {"wakeall_find", "wakeall_ready"} /\ res'[c] = e
      BY <1>1, <1>2
    <2> QED BY <1>6, <2>1, <2>2, <2>3, <2>4 DEF WaitInv, JoinersOK
  <1> QED BY <1>5, <1>7, <1>8, <1>9 DEF WaitInv

(* The process table's lock is let go, by process_finish and by a            *)
(* process_join that sleeps.                                                 *)
LEMMA TableReleaseStep ==
    ASSUME TableInv, WaitInv, NEW c \in Ctx, ExitRelease(c) \/ (SleepRelease(c) /\ res[c] \notin Sems)
    PROVE  WaitInv'
  <1>1. PICK to \in {"thread_finish", "sw0"} :
          /\ pc[c] \in {"exit_release", "sleep_release"} /\ res[c] \in Events
          /\ Goto(c, to) /\ ptable_slock' = NoCtx /\ UNCHANGED <<sleeps_on, tid, value, slock, res, zombie>>
    <2>1. pc[c] \in {"exit_release", "sleep_release"} /\ res[c] \in Events
      BY ResourcesAssumption DEF ExitRelease, SleepRelease, At, TableInv, ArgumentsOK
    <2>2. CASE ExitRelease(c)
      BY <2>1, <2>2 DEF ExitRelease, OnlyPc, tableVars, semVars
    <2>3. CASE SleepRelease(c) /\ res[c] \notin Sems
      BY <2>1, <2>3 DEF SleepRelease, OnlyPc, tableVars
    <2> QED BY <2>2, <2>3
  <1>2. /\ pc'[c] = to /\ \A d \in Ctx : d # c => pc'[d] = pc[d]
        /\ \A d \in Ctx, r \in Sems : d # c => (HoldsSem(d, r)' <=> slock[r] = d)
        /\ \A d \in Ctx : d # c => (HoldsTable(d)' <=> ptable_slock = d)
        /\ \A d \in Ctx : d # c => Pending(d)' = Pending(d)
    BY <1>1, OneMoves
  <1>3. (\A r \in Sems : slock[r] # c) /\ ptable_slock = c
    BY <1>1, ResourcesAssumption
       DEF WaitInv, LocksOK, HoldsSem, HoldsTable, SleepLabels, SemLabels, TableLabels
  <1>4. NoCtx \notin Ctx
    BY Contexts
  <1>5. LocksOK'
    <2>1. \A r \in Sems : ~HoldsSem(c, r)'
      BY <1>2 DEF HoldsSem, SleepLabels, SemLabels
    <2>2. ~HoldsTable(c)'
      BY <1>2 DEF HoldsTable, TableLabels, SleepLabels
    <2>3. \A r \in Sems, d \in Ctx : HoldsSem(d, r)' <=> slock'[r] = d
      BY <1>1, <1>2, <1>3, <2>1
    <2>4. \A d \in Ctx : HoldsTable(d)' <=> ptable_slock' = d
      BY <1>1, <1>2, <1>3, <1>4, <2>2
    <2> QED BY <2>3, <2>4 DEF LocksOK
  <1>6. \A r : Sleeping(r)' = Sleeping(r)
    BY <1>1 DEF Sleeping
  <1>7. CountsOK'
    <2>1. \A r \in Sems : Owed(r)' = Owed(r)
      BY <1>1 DEF Owed
    <2> QED BY <1>1, <1>2, <1>3, <1>6, <2>1 DEF WaitInv, CountsOK
  <1>8. WokenOK'
    BY <1>1, NobodyWoken
  <1>9. JoinersOK'
    <2>1. \A d \in Ctx : pc'[d] \in SleepLabels => pc[d] \in SleepLabels
      BY <1>1, <1>2 DEF SleepLabels
    <2>2. \A d \in Ctx : pc[d] \in {"wakeall_find", "wakeall_ready"} => pc'[d] = pc[d]
      BY <1>1, <1>2
    <2> QED BY <1>1, <1>6, <2>1, <2>2 DEF WaitInv, JoinersOK
  <1> QED BY <1>5, <1>7, <1>8, <1>9 DEF WaitInv

(* sleepq_add: the caller sleeps on what it holds the lock of. *)
LEMMA MarkWaitStep ==
    ASSUME TableInv, WaitInv, NEW t \in Threads, SleepqMark(t), UNCHANGED <<semVars, procVars>>
    PROVE  WaitInv'
  <1>1. /\ t \in Ctx /\ pc[t] = "sleepq_mark" /\ Runs(t) /\ res[t] \in Resources
        /\ Goto(t, "sleepq_append") /\ UNCHANGED <<tid, res, value, slock, zombie, ptable_slock>>
    BY Contexts DEF SleepqMark, At, TableInv, ArgumentsOK, semVars, procVars
  <1>2. sleeps_on[t] = NoRes
    BY <1>1, RunningThread
  <1>3. sleeps_on'[t] = res[t] /\ \A u \in Tid : u # t => sleeps_on'[u] = sleeps_on[u]
    BY Contexts DEF SleepqMark, TableInv, TypeOK, ThreadTypeOK
  <1>4. /\ pc'[t] = "sleepq_append" /\ \A d \in Ctx : d # t => pc'[d] = pc[d]
        /\ \A d \in Ctx, r \in Sems : d # t => (HoldsSem(d, r)' <=> slock[r] = d)
        /\ \A d \in Ctx : d # t => (HoldsTable(d)' <=> ptable_slock = d)
        /\ \A d \in Ctx : d # t => Pending(d)' = Pending(d)
    BY <1>1, OneMoves
  <1>5. LocksOK'
    <2>1. /\ \A r \in Sems : HoldsSem(t, r)' <=> HoldsSem(t, r)
          /\ HoldsTable(t)' <=> HoldsTable(t)
      BY <1>1, <1>4 DEF HoldsSem, HoldsTable, SleepLabels, SemLabels, TableLabels
    <2> QED BY <1>1, <1>4, <2>1 DEF WaitInv, LocksOK
  <1>6. /\ \A r \in Resources : r # res[t] => Sleeping(r)' = Sleeping(r)
        /\ Sleeping(res[t])' = Sleeping(res[t]) \union {t} /\ t \notin Sleeping(res[t])
    <2>1. PICK r \in Resources : r = res[t]
      BY <1>1
    <2>2. Sleeping(r)' = Sleeping(r) \union {t} /\ t \notin Sleeping(r)
      BY <1>2, <1>3, <2>1, Contexts, NoResAssumption DEF Sleeping
    <2>3. \A q \in Resources : q # r => Sleeping(q)' = Sleeping(q)
      BY <1>2, <1>3, <2>1, Contexts, NoResAssumption DEF Sleeping
    <2> QED BY <1>1, <2>1, <2>2, <2>3 DEF Sleeping
  <1>7. CountsOK'
    <2>1. \A r \in Sems : Owed(r)' = Owed(r)
      BY <1>1 DEF Owed
    <2>2. ASSUME NEW r \in Sems, r # res[t]
          PROVE  /\ slock'[r] = NoCtx => Cardinality(Sleeping(r)') = Owed(r)'
                 /\ \A d \in Ctx : slock'[r] = d => Cardinality(Sleeping(r)') + Pending(d)' = Owed(r)'
      <3>1. slock[r] # t
        BY <1>1, <2>2 DEF WaitInv, LocksOK, HoldsSem
      <3>2. Sleeping(r)' = Sleeping(r)
        BY <1>6, <2>2, ResourcesAssumption
      <3> QED BY <1>1, <1>4, <2>1, <3>1, <3>2 DEF WaitInv, CountsOK
    <2>3. ASSUME NEW r \in Sems, r = res[t]
          PROVE  slock[r] = t /\ Cardinality(Sleeping(r)') + Pending(t)' = Owed(r)'
      <3>1. slock[r] = t
        BY <1>1, <2>3 DEF WaitInv, LocksOK, HoldsSem, SleepLabels
      <3>2. Cardinality(Sleeping(r)) + 1 = Owed(r)
        BY <1>1, <3>1 DEF WaitInv, CountsOK, Pending
      <3>3. Sleeping(r)' = Sleeping(r) \union {t} /\ t \notin Sleeping(r)
        BY <1>2, <1>3, <2>3, Contexts, NoResAssumption, ResourcesAssumption DEF Sleeping
      <3>4. Cardinality(Sleeping(r)') = Cardinality(Sleeping(r)) + 1
        BY <3>3, FinitelyManySleep, FS_AddElement
      <3>5. Pending(t)' = 0
        BY <1>4 DEF Pending
      <3> QED BY <2>1, <3>1, <3>2, <3>4, <3>5, FinitelyManySleep
    <2> QED BY <1>1, <2>2, <2>3, Contexts DEF CountsOK
  <1>8. WokenOK'
    <2>1. ASSUME NEW d \in Ctx, pc'[d] \in {"wake_ready", "wakeall_ready"}
          PROVE  sleeps_on'[tid'[d]] = res'[d]
      <3>1. pc[d] \in {"wake_ready", "wakeall_ready"}
        BY <1>4, <2>1
      <3>2. tid[d] \in Threads /\ sleeps_on[tid[d]] # NoRes /\ sleeps_on[tid[d]] = res[d]
        BY <3>1 DEF TableInv, WakingOK, WaitInv, WokenOK
      <3> QED BY <1>1, <1>2, <1>3, <3>2, Contexts
    <2> QED BY <2>1 DEF WokenOK
  <1>9. JoinersOK'
    <2>1. \A d \in Ctx : pc'[d] \in SleepLabels => pc[d] \in SleepLabels
      BY <1>1, <1>4 DEF SleepLabels
    <2>2. \A d \in Ctx : pc[d] \in {"wakeall_find", "wakeall_ready"} => pc'[d] = pc[d]
      BY <1>1, <1>4
    <2>3. \A f \in Events : zombie[f] => f # res[t] /\ Sleeping(f)' = Sleeping(f)
      BY <1>1, <1>6, ResourcesAssumption DEF WaitInv, JoinersOK, SleepLabels
    <2> QED BY <1>1, <2>1, <2>2, <2>3 DEF WaitInv, JoinersOK
  <1> QED BY <1>5, <1>7, <1>8, <1>9 DEF WaitInv

(* A search of sleepq_wake that finds nobody has met every sleeper. *)
LEMMA NobodyLeft ==
    ASSUME TableInv, WaitInv, NEW c \in Ctx, pc[c] \in {"wake_find", "wakeall_find"},
           sleepq_slock \in {NoCtx, c}, \A t \in Threads : ~Sleeper(c, t)
    PROVE  Sleeping(res[c]) = {}
  <1>1. PICK r \in Resources : r = res[c] /\ r # NoRes
    BY ResourcesAssumption, NoResAssumption DEF TableInv, ArgumentsOK
  <1>2. PICK b \in Buckets : b = Hash[r]
    BY HashAssumption
  <1> DEFINE met == Walk(b, r)
  <1>3. met \subseteq Queued(b) /\ \A t \in met : sleeps_on[t] # r
    BY <1>1, <1>2, WalkInChain DEF Sleeper, Walk
  <1>4. HoldsList(met, hashtable[b], next)
    <2>1. hashtable[b] \in Threads \union {Nil} /\ \A t \in Threads : next[t] \in Threads \union {Nil}
      BY Contexts DEF TableInv, TypeOK, ThreadTypeOK
    <2>2. hashtable[b] # Nil => hashtable[b] \in met
      BY <2>1, Links DEF Walk, Follows
    <2>3. ASSUME NEW t \in met, next[t] # Nil PROVE next[t] \in met
      <3>1. t \in Threads /\ next[t] \in Threads /\ next[t] > 0 /\ sleeps_on[t] # r
        BY <1>3, <2>1, <2>3, Links DEF Walk
      <3> QED BY <3>1 DEF Walk, Follows
    <2> QED BY <2>2, <2>3 DEF HoldsList
  <1> HIDE DEF met
  <1>5. met = Queued(b)
    BY <1>3, <1>4 DEF TableInv, SleepQueueOK, IsList
  <1>6. ASSUME NEW t \in Threads, sleeps_on[t] = r PROVE FALSE
    <2>1. t \notin Queued(b)
      BY <1>3, <1>5, <1>6
    <2>2. ~Waking(t)
      BY Contexts DEF Waking, TableInv, WakingOK
    <2>3. pc[t] = "sleepq_append"
      BY <1>1, <1>2, <1>6, <2>1, <2>2 DEF Queued
    <2>4. res[t] = r /\ t \in Ctx /\ t # c
      BY <1>6, <2>3, Contexts DEF TableInv, AppendOK
    <2>5. CASE r \in Sems
      BY <1>1, <2>3, <2>4, <2>5, ResourcesAssumption
         DEF WaitInv, LocksOK, HoldsSem, SleepLabels, SemLabels, TableInv, ArgumentsOK
    <2>6. CASE r \in Events
      BY <1>1, <2>3, <2>4, <2>6, ResourcesAssumption
         DEF WaitInv, LocksOK, HoldsTable, SleepLabels, TableLabels, TableInv, ArgumentsOK
    <2> QED BY <2>5, <2>6, ResourcesAssumption
  <1> QED BY <1>1, <1>6 DEF Sleeping

(* sleepq_wake and sleepq_wake_all search.  semaphore_V always finds a       *)
(* thread, because the value it read counts one.                             *)
LEMMA FindWaitStep ==
    ASSUME TableInv, WaitInv, NEW c \in Ctx, NEW label, NEW found, NEW done,
           FindLabels(c, label, found, done), WakeFind(c, label, found, done),
           UNCHANGED <<semVars, procVars>>
    PROVE  WaitInv'
  <1>1. /\ pc[c] = label /\ sleepq_slock \in {NoCtx, c}
        /\ UNCHANGED <<sleeps_on, res, value, slock, zombie, ptable_slock>>
        /\ label \in {"wake_find", "wakeall_find"} /\ found \in {"wake_ready", "wakeall_ready"}
        /\ label = "wake_find" => found = "wake_ready"
        /\ label = "wakeall_find" => found = "wakeall_ready" /\ done = "exit_release"
    BY DEF WakeFind, At, FindLabels, semVars, procVars
  <1>2. \A r : Sleeping(r)' = Sleeping(r)
    BY <1>1 DEF Sleeping
  <1>3. \A r \in Sems : Owed(r)' = Owed(r)
    BY <1>1 DEF Owed
  <1>4. CASE \E first \in Threads : Sleeper(c, first) /\ Unlink(c, first) /\ Goto(c, found)
    <2>1. PICK first \in Threads :
            sleeps_on[first] = res[c] /\ tid' = [tid EXCEPT ![c] = first] /\ Goto(c, found)
      BY <1>4 DEF Sleeper, Unlink
    <2>2. /\ pc'[c] = found /\ \A d \in Ctx : d # c => pc'[d] = pc[d]
          /\ \A d \in Ctx, r \in Sems : d # c => (HoldsSem(d, r)' <=> slock[r] = d)
          /\ \A d \in Ctx : d # c => (HoldsTable(d)' <=> ptable_slock = d)
          /\ \A d \in Ctx : d # c => Pending(d)' = Pending(d)
      BY <1>1, <2>1, OneMoves
    <2>3. /\ \A r \in Sems : HoldsSem(c, r)' <=> HoldsSem(c, r)
          /\ HoldsTable(c)' <=> HoldsTable(c)
          /\ Pending(c)' = Pending(c)
      BY <1>1, <2>2 DEF HoldsSem, HoldsTable, Pending, SleepLabels, SemLabels, TableLabels
    <2>4. LocksOK'
      BY <1>1, <2>2, <2>3 DEF WaitInv, LocksOK
    <2>5. CountsOK'
      BY <1>1, <1>2, <1>3, <2>2, <2>3 DEF WaitInv, CountsOK
    <2>6. tid'[c] = first /\ \A d \in Ctx : d # c => tid'[d] = tid[d]
      BY <2>1 DEF TableInv, TypeOK, ThreadTypeOK
    <2>7. WokenOK'
      BY <1>1, <2>1, <2>2, <2>6 DEF WaitInv, WokenOK
    <2>8. JoinersOK'
      <3>1. \A d \in Ctx : pc'[d] \in SleepLabels => pc[d] \in SleepLabels
        BY <1>1, <2>2 DEF SleepLabels
      <3>2. \A d \in Ctx : pc[d] \in {"wakeall_find", "wakeall_ready"} =>
              pc'[d] \in {"wakeall_find", "wakeall_ready"}
        BY <1>1, <2>2
      <3> QED BY <1>1, <1>2, <3>1, <3>2 DEF WaitInv, JoinersOK
    <2> QED BY <2>4, <2>5, <2>7, <2>8 DEF WaitInv
  <1>5. CASE (\A t \in Threads : ~Sleeper(c, t)) /\ Goto(c, done) /\ UNCHANGED tid
    <2>1. Sleeping(res[c]) = {}
      BY <1>1, <1>5, NobodyLeft
    <2>2. label # "wake_find"
      <3>1. SUFFICES ASSUME label = "wake_find" PROVE FALSE
        OBVIOUS
      <3>2. PICK s \in Sems : s = res[c] /\ slock[s] = c
        BY <1>1, <3>1, LockHolder DEF SemLabels
      <3>3. Cardinality(Sleeping(s)) + (-1) = Owed(s)
        BY <1>1, <3>1, <3>2 DEF WaitInv, CountsOK, Pending
      <3>4. Cardinality(Sleeping(s)) = 0
        BY <2>1, <3>2, FS_EmptySet
      <3>5. value[s] \in Int
        BY DEF TableInv, TypeOK
      <3> QED BY <3>3, <3>4, <3>5 DEF Owed
    <2>3. pc[c] = "wakeall_find" /\ Goto(c, "exit_release") /\ res[c] \in Events
      BY <1>1, <1>5, <2>2, LockHolder DEF TableLabels
    <2>4. /\ pc'[c] = "exit_release" /\ \A d \in Ctx : d # c => pc'[d] = pc[d]
          /\ \A d \in Ctx, r \in Sems : d # c => (HoldsSem(d, r)' <=> slock[r] = d)
          /\ \A d \in Ctx : d # c => (HoldsTable(d)' <=> ptable_slock = d)
          /\ \A d \in Ctx : d # c => Pending(d)' = Pending(d)
      BY <1>1, <2>3, OneMoves
    <2>5. /\ \A r \in Sems : HoldsSem(c, r)' <=> HoldsSem(c, r)
          /\ HoldsTable(c)' <=> HoldsTable(c)
          /\ Pending(c)' = Pending(c)
      BY <2>3, <2>4 DEF HoldsSem, HoldsTable, Pending, SleepLabels, SemLabels, TableLabels
    <2>6. LocksOK'
      BY <1>1, <2>4, <2>5 DEF WaitInv, LocksOK
    <2>7. CountsOK'
      BY <1>1, <1>2, <1>3, <2>4, <2>5 DEF WaitInv, CountsOK
    <2>8. WokenOK'
      BY <1>1, <1>5, <2>4 DEF WaitInv, WokenOK
    <2>9. JoinersOK'
      <3>1. \A d \in Ctx : pc'[d] \in SleepLabels => pc[d] \in SleepLabels
        BY <2>4 DEF SleepLabels
      <3>2. \A d \in Ctx : pc[d] \in {"wakeall_find", "wakeall_ready"} => pc'[d] = pc[d] \/ Sleeping(res[d]) = {}
        BY <2>1, <2>4
      <3> QED BY <1>1, <1>2, <3>1, <3>2 DEF WaitInv, JoinersOK
    <2> QED BY <2>6, <2>7, <2>8, <2>9 DEF WaitInv
  <1> QED BY <1>4, <1>5 DEF WakeFind

(* A thread is woken: it no longer sleeps on what the waker holds. *)
LEMMA WakeWaitStep ==
    ASSUME TableInv, WaitInv, NEW c \in Ctx, NEW label, NEW done, NEW holder,
           WakeReady(c, label, done, holder), UNCHANGED <<semVars, procVars>>,
           \/ label = "wake_ready" /\ done = "sem_release"
           \/ label = "wakeall_ready" /\ done = "wakeall_find"
    PROVE  WaitInv'
  <1>1. /\ pc[c] = label /\ Goto(c, done) /\ tid' = [tid EXCEPT ![c] = Nil]
        /\ sleeps_on' = [sleeps_on EXCEPT ![tid[c]] = NoRes]
        /\ UNCHANGED <<res, value, slock, zombie, ptable_slock>>
        /\ label \in {"wake_ready", "wakeall_ready"}
    BY DEF WakeReady, At, semVars, procVars
  <1>2. PICK w \in Threads : w = tid[c] /\ sleeps_on[w] = res[c] /\ sleeps_on[w] # NoRes
    BY <1>1 DEF TableInv, WakingOK, WaitInv, WokenOK
  <1>3. \A d \in Ctx : d # c => pc[d] \notin {"wake_ready", "wakeall_ready"}
    BY <1>1 DEF TableInv, WakingOK
  <1>4. sleeps_on'[w] = NoRes /\ \A u \in Threads : u # w => sleeps_on'[u] = sleeps_on[u]
    BY <1>1, <1>2, Contexts DEF TableInv, TypeOK, ThreadTypeOK
  <1>5. /\ pc'[c] = done /\ \A d \in Ctx : d # c => pc'[d] = pc[d]
        /\ \A d \in Ctx, r \in Sems : d # c => (HoldsSem(d, r)' <=> slock[r] = d)
        /\ \A d \in Ctx : d # c => (HoldsTable(d)' <=> ptable_slock = d)
        /\ \A d \in Ctx : d # c => Pending(d)' = Pending(d)
    BY <1>1, OneMoves
  <1>6. LocksOK'
    <2>1. /\ \A r \in Sems : HoldsSem(c, r)' <=> HoldsSem(c, r)
          /\ HoldsTable(c)' <=> HoldsTable(c)
      BY <1>1, <1>5 DEF HoldsSem, HoldsTable, SleepLabels, SemLabels, TableLabels
    <2> QED BY <1>1, <1>5, <2>1 DEF WaitInv, LocksOK
  <1>7. PICK q \in Resources : q = res[c]
    BY <1>1, ResourcesAssumption DEF TableInv, ArgumentsOK
  <1>8. /\ \A r \in Resources : r # q => Sleeping(r)' = Sleeping(r)
        /\ Sleeping(q)' = Sleeping(q) \ {w} /\ w \in Sleeping(q)
    BY <1>2, <1>4, <1>7, NoResAssumption DEF Sleeping
  <1>9. CountsOK'
    <2>1. \A r \in Sems : Owed(r)' = Owed(r)
      BY <1>1 DEF Owed
    <2>2. ASSUME NEW r \in Sems, r # q
          PROVE  /\ slock'[r] = NoCtx => Cardinality(Sleeping(r)') = Owed(r)'
                 /\ \A d \in Ctx : slock'[r] = d => Cardinality(Sleeping(r)') + Pending(d)' = Owed(r)'
      <3>1. slock[r] # c
        BY <1>7, <2>2 DEF WaitInv, LocksOK, HoldsSem
      <3>2. Sleeping(r)' = Sleeping(r)
        BY <1>8, <2>2, ResourcesAssumption
      <3> QED BY <1>1, <1>5, <2>1, <3>1, <3>2 DEF WaitInv, CountsOK
    <2>3. ASSUME q \in Sems
          PROVE  slock[q] = c /\ Cardinality(Sleeping(q)') + Pending(c)' = Owed(q)'
      <3>0. label = "wake_ready" /\ done = "sem_release"
        BY <1>1, <1>7, <2>3, ResourcesAssumption DEF TableInv, ArgumentsOK
      <3>1. slock[q] = c
        BY <1>1, <1>7, <2>3, <3>0 DEF WaitInv, LocksOK, HoldsSem, SemLabels
      <3>2. Cardinality(Sleeping(q)) + (-1) = Owed(q)
        BY <1>1, <2>3, <3>0, <3>1 DEF WaitInv, CountsOK, Pending
      <3>3. Cardinality(Sleeping(q)') = Cardinality(Sleeping(q)) - 1
        BY <1>8, FinitelyManySleep, FS_RemoveElement
      <3>4. Pending(c)' = 0
        BY <1>5, <3>0 DEF Pending
      <3> QED BY <2>1, <2>3, <3>1, <3>2, <3>3, <3>4, FinitelyManySleep
    <2> QED BY <1>1, <2>2, <2>3, Contexts DEF CountsOK
  <1>10. WokenOK'
    BY <1>1, <1>3, <1>5 DEF WokenOK
  <1>11. JoinersOK'
    <2>1. \A d \in Ctx : pc'[d] \in SleepLabels => pc[d] \in SleepLabels
      BY <1>1, <1>5 DEF SleepLabels
    <2>2. \A d \in Ctx : pc[d] \in {"wakeall_find", "wakeall_ready"} =>
            pc'[d] \in {"wakeall_find", "wakeall_ready"}
      BY <1>1, <1>5
    <2>3. \A e \in Events : Sleeping(e) = {} => Sleeping(e)' = {}
      BY <1>8, ResourcesAssumption
    <2> QED BY <1>1, <2>1, <2>2, <2>3 DEF WaitInv, JoinersOK
  <1> QED BY <1>6, <1>9, <1>10, <1>11 DEF WaitInv

(* WaitInv holds at the beginning: nobody sleeps and no lock is held. *)
LEMMA InitWait == Init => WaitInv
  <1> SUFFICES ASSUME Init PROVE WaitInv
    OBVIOUS
  <1>1. /\ \A c \in Ctx : pc[c] \in {"run", "none"}
        /\ \A t \in Threads : sleeps_on[t] = NoRes
        /\ \A s \in Sems : slock[s] = NoCtx /\ value[s] \in Nat
        /\ \A e \in Events : ~zombie[e]
        /\ ptable_slock = NoCtx /\ NoCtx \notin Ctx
    BY Contexts, InitValueAssumption DEF Init, InitThreads
  <1>2. LocksOK
    BY <1>1 DEF LocksOK, HoldsSem, HoldsTable, SleepLabels, SemLabels, TableLabels
  <1>3. \A s \in Sems : Sleeping(s) = {} /\ Owed(s) = 0
    BY <1>1, NoResAssumption, ResourcesAssumption DEF Sleeping, Owed
  <1>4. CountsOK
    BY <1>1, <1>3, FS_EmptySet DEF CountsOK
  <1>5. WokenOK /\ JoinersOK
    BY <1>1 DEF WokenOK, JoinersOK
  <1> QED BY <1>2, <1>4, <1>5 DEF WaitInv

(* The steps of the thread table, of the scheduler and of interrupts do not  *)
(* touch what the locks protect.                                             *)
LEMMA CallWait ==
    ASSUME TableInv, WaitInv, NEW t \in Ctx, NEW s, NEW label, Call(t, s, label),
           label \in {"P_acquire", "V_acquire", "join_acquire", "exit_acquire", "sw0"}
    PROVE  WaitInv'
  <1>1. /\ pc[t] = "run" /\ pc' = [pc EXCEPT ![t] = label] /\ res' = [res EXCEPT ![t] = s]
        /\ UNCHANGED <<sleeps_on, tid>> /\ UNCHANGED <<semVars, procVars>>
    BY DEF Call, At, Goto, tableVars
  <1>2. pc'[t] = label /\ \A c \in Ctx : c # t => pc'[c] = pc[c] /\ res'[c] = res[c]
    BY <1>1 DEF TableInv, TypeOK, ThreadTypeOK
  <1>3. pc[t] \notin Inside /\ pc'[t] \notin Inside
    BY <1>1, <1>2 DEF Inside, SleepLabels, SemLabels, TableLabels
  <1> QED BY <1>1, <1>2, <1>3, OutsideStep

(* Steps that only use the thread table leave counters and locks alone. *)
LEMMA TableWait ==
    ASSUME TableInv, WaitInv, NEW t \in Threads, UNCHANGED <<semVars, procVars>>,
           \/ SleepqAppend(t) \/ CreateReserve(t) \/ CreateRun(t) \/ FinishReturn(t)
           \/ FinishMark(t, "run", "finish") \/ FinishMark(t, "thread_finish", "exit_finish")
    PROVE  WaitInv'
  <1>1. t \in Ctx
    BY Contexts
  <1>2. PICK to :
          /\ Goto(t, to)
          /\ \/ pc[t] = "sleepq_append" /\ to = "sleep_release" /\ res' = res
             \/ /\ pc[t] \in {"run", "create_run", "exit_finish", "thread_finish"}
                /\ to \in {"create_init", "run", "returned", "finish", "exit_finish"}
    BY DEF SleepqAppend, CreateReserve, CreateRun, FinishReturn, FinishMark, At
  <1>3. /\ UNCHANGED sleeps_on
        /\ \A c \in Ctx : c # t => tid'[c] = tid[c] /\ res'[c] = res[c]
    BY DEF SleepqAppend, CreateReserve, CreateRun, FinishReturn, FinishMark, tableVars,
           TableInv, TypeOK, ThreadTypeOK
  <1>4. pc'[t] = to /\ \A c \in Ctx : c # t => pc'[c] = pc[c]
    BY <1>1, <1>2 DEF Goto, TableInv, TypeOK
  <1>5. \/ pc[t] = "sleepq_append" /\ pc'[t] = "sleep_release" /\ res'[t] = res[t]
        \/ pc[t] \notin Inside /\ pc'[t] \notin Inside
    BY <1>2, <1>4 DEF Inside, SleepLabels, SemLabels, TableLabels
  <1> QED BY <1>3, <1>4, <1>5, OutsideStep

(* A new thread begins outside every section. *)
LEMMA CreateInitWait ==
    ASSUME TableInv, WaitInv, NEW t \in Threads, UNCHANGED <<semVars, procVars>>, CreateInit(t)
    PROVE  WaitInv'
  <1>1. PICK u \in Threads : u = tid[t] /\ state[u] = "NONREADY"
    BY Contexts DEF CreateInit, At, TableInv, CreateOK
  <1>2. sleeps_on[u] = NoRes /\ pc[u] \in {"run", "finish", "exit_finish", "returned", "panic"}
    BY <1>1 DEF TableInv, SleepStateOK, LifeOK
  <1>3. /\ pc[t] = "create_init" /\ pc' = [pc EXCEPT ![u] = "run", ![t] = "create_run"]
        /\ sleeps_on' = [sleeps_on EXCEPT ![u] = NoRes] /\ UNCHANGED <<res, tid>>
    BY <1>1 DEF CreateInit, At
  <1>4. \A v \in Threads : sleeps_on'[v] = sleeps_on[v]
    BY <1>2, <1>3, Contexts DEF TableInv, TypeOK, ThreadTypeOK
  <1>5. /\ \A c \in Ctx : c # t /\ c # u => pc'[c] = pc[c]
        /\ pc'[t] = "create_run" /\ (u # t => pc'[u] = "run")
    BY <1>3, Contexts DEF TableInv, TypeOK
  <1>6. pc[t] \notin Inside /\ pc'[t] \notin Inside /\ pc[u] \notin Inside /\ pc'[u] \notin Inside
    BY <1>2, <1>3, <1>5 DEF Inside, SleepLabels, SemLabels, TableLabels
  <1> QED BY <1>3, <1>4, <1>5, <1>6, OutsideStep

(* The switch asked for by a thread moves it to a label outside every section. *)
LEMMA SoftwareWait ==
    ASSUME TableInv, WaitInv, NEW t \in Threads, NEW cpu \in Cpus, NEW resume,
           UNCHANGED <<semVars, procVars>>, SoftwareInterrupt(cpu, t, resume),
           pc[t] \in {"sw0", "finish", "exit_finish"}, resume \in {"run", "join_acquire", "panic"}
    PROVE  WaitInv'
  <1>1. /\ pc[cpu] = "none" /\ pc' = [pc EXCEPT ![t] = resume, ![cpu] = "intr_exit"]
        /\ res' = [res EXCEPT ![cpu] = NoRes] /\ UNCHANGED <<sleeps_on, tid>>
    BY DEF SoftwareInterrupt, InterruptEnter, tableVars
  <1>2. /\ \A c \in Ctx : c # t /\ c # cpu => pc'[c] = pc[c]
        /\ \A c \in Ctx : c # cpu => res'[c] = res[c]
        /\ pc'[t] = resume /\ pc'[cpu] = "intr_exit"
    BY <1>1, Contexts DEF TableInv, TypeOK, ThreadTypeOK
  <1>3. pc[t] \notin Inside /\ pc'[t] \notin Inside /\ pc[cpu] \notin Inside /\ pc'[cpu] \notin Inside
    BY <1>1, <1>2 DEF Inside, SleepLabels, SemLabels, TableLabels
  <1> QED BY <1>1, <1>2, <1>3, OutsideStep

(* An interrupt starts the handler of a CPU and leaves every thread where it is. *)
LEMMA InterruptWait ==
    ASSUME TableInv, WaitInv, NEW cpu \in Cpus, interrupt_handle(cpu)
    PROVE  WaitInv'
  <1>1. /\ pc[cpu] \in {"none", "intr_exit"} /\ UNCHANGED <<sleeps_on, tid>>
        /\ UNCHANGED <<semVars, procVars>>
    BY DEF interrupt_handle, DeviceInterrupt, TimerInterrupt, InterruptEnter, InterruptExit, tableVars
  <1>2. PICK to \in {"none", "intr_exit", "V_acquire"} : Goto(cpu, to)
    BY DEF interrupt_handle, DeviceInterrupt, TimerInterrupt, InterruptExit
  <1>3. \A c \in Ctx : c # cpu => res'[c] = res[c]
    BY DEF interrupt_handle, DeviceInterrupt, TimerInterrupt, InterruptEnter, InterruptExit,
           TableInv, TypeOK, ThreadTypeOK
  <1>4. pc'[cpu] = to /\ \A c \in Ctx : c # cpu => pc'[c] = pc[c]
    BY <1>2, Contexts DEF Goto, TableInv, TypeOK
  <1>5. pc[cpu] \notin Inside /\ pc'[cpu] \notin Inside
    BY <1>1, <1>4 DEF Inside, SleepLabels, SemLabels, TableLabels
  <1> QED BY <1>1, <1>3, <1>4, <1>5, OutsideStep

(* Every step of a thread preserves WaitInv. *)
LEMMA ThreadWait ==
    ASSUME TableInv, WaitInv, NEW t \in Threads, ThreadStep(t)
    PROVE  WaitInv'
  <1>0. t \in Ctx
    BY Contexts
  <1>1. CASE semaphore_P(t) \/ process_join(t)
    BY <1>0, <1>1, CallWait, SemAcquireStep, JoinAcquireStep DEF semaphore_P, process_join
  <1>2. CASE semaphore_V(t)
    <2>1. CASE WakeFind(t, "wake_find", "wake_ready", "sem_release") /\ UNCHANGED <<semVars, procVars>>
      BY <1>0, <2>1, FindWaitStep DEF FindLabels
    <2>2. CASE WakeReady(t, "wake_ready", "sem_release", NoCtx) /\ UNCHANGED <<semVars, procVars>>
      BY <1>0, <2>2, WakeWaitStep
    <2> QED BY <1>0, <1>2, <2>1, <2>2, CallWait, SemAcquireStep DEF semaphore_V
  <1>3. CASE sleepq_add(t) \/ SleepRelease(t) \/ SemRelease(t)
    BY <1>0, <1>3, MarkWaitStep, TableWait, SemReleaseStep, TableReleaseStep DEF sleepq_add
  <1>4. CASE process_finish(t)
    <2>1. CASE \E e \in Events : ~zombie[e] /\ Call(t, e, "exit_acquire")
      BY <1>0, <2>1, CallWait
    <2>2. CASE ExitAcquire(t) \/ ExitRelease(t)
      BY <1>0, <2>2, ExitAcquireStep, TableReleaseStep
    <2>3. CASE WakeFind(t, "wakeall_find", "wakeall_ready", "exit_release") /\ UNCHANGED <<semVars, procVars>>
      BY <1>0, <2>3, FindWaitStep DEF FindLabels
    <2>4. CASE WakeReady(t, "wakeall_ready", "wakeall_find", t) /\ UNCHANGED <<semVars, procVars>>
      BY <1>0, <2>4, WakeWaitStep
    <2>5. CASE (FinishMark(t, "thread_finish", "exit_finish") \/ FinishReturn(t)) /\ UNCHANGED <<semVars, procVars>>
      BY <2>5, TableWait
    <2>6. CASE (\E cpu \in Cpus : FinishSwitch(cpu, t, "exit_finish")) /\ UNCHANGED <<semVars, procVars>>
      BY <2>6, SoftwareWait DEF FinishSwitch, At
    <2> QED BY <1>4, <2>1, <2>2, <2>3, <2>4, <2>5, <2>6 DEF process_finish
  <1>5. CASE thread_create(t)
    BY <1>5, TableWait, CreateInitWait DEF thread_create
  <1>6. CASE thread_switch(t)
    <2>1. CASE Call(t, NoRes, "sw0")
      BY <1>0, <2>1, CallWait
    <2>2. CASE \E cpu \in Cpus : Switch(cpu, t)
      <3>1. PICK cpu \in Cpus : Switch(cpu, t)
        BY <2>2
      <3>2. PICK resume : resume = IF res[t] \in Events THEN "join_acquire" ELSE "run"
        OBVIOUS
      <3>3. SoftwareInterrupt(cpu, t, resume) /\ pc[t] = "sw0" /\ UNCHANGED <<semVars, procVars>>
        BY <3>1, <3>2 DEF Switch, At
      <3> QED BY <3>2, <3>3, SoftwareWait
    <2> QED BY <1>6, <2>1, <2>2 DEF thread_switch
  <1>7. CASE thread_finish(t)
    <2>1. CASE FinishMark(t, "run", "finish") /\ UNCHANGED <<semVars, procVars>>
      BY <2>1, TableWait
    <2>2. CASE (\E cpu \in Cpus : FinishSwitch(cpu, t, "finish")) /\ UNCHANGED <<semVars, procVars>>
      BY <2>2, SoftwareWait DEF FinishSwitch, At
    <2> QED BY <1>7, <2>1, <2>2 DEF thread_finish
  <1> QED BY <1>1, <1>2, <1>3, <1>4, <1>5, <1>6, <1>7 DEF ThreadStep

(* Every step of a handler preserves WaitInv. *)
LEMMA CpuWait ==
    ASSUME TableInv, WaitInv, NEW cpu \in Cpus, HandlerStep(cpu) \/ interrupt_handle(cpu)
    PROVE  WaitInv'
  <1>0. cpu \in Ctx
    BY Contexts
  <1>1. CASE WakeFind(cpu, "wake_find", "wake_ready", "sem_release") /\ UNCHANGED <<semVars, procVars>>
    BY <1>0, <1>1, FindWaitStep DEF FindLabels
  <1>2. CASE WakeReady(cpu, "wake_ready", "sem_release", NoCtx) /\ UNCHANGED <<semVars, procVars>>
    BY <1>0, <1>2, WakeWaitStep
  <1>3. CASE interrupt_handle(cpu)
    BY <1>3, InterruptWait
  <1> QED BY <1>0, <1>1, <1>2, <1>3, CallWait, SemAcquireStep, SemReleaseStep DEF HandlerStep, semaphore_V

(* WaitInv is a statement about the variables of the kernel. *)
LEMMA StutterWait == TableInv /\ WaitInv /\ UNCHANGED vars => WaitInv'
  <1> SUFFICES ASSUME TableInv, WaitInv, UNCHANGED vars PROVE WaitInv'
    OBVIOUS
  <1>1. UNCHANGED <<semVars, procVars>> /\ UNCHANGED <<sleeps_on, pc, res, tid>>
    BY DEF vars, semVars, procVars
  <1> QED BY <1>1, OutsideStep

(* The inductive invariant holds in every reachable state, for any number of *)
(* threads, CPUs, semaphores, joinable slots and hash chains.                *)
THEOREM KernelInvariant == Spec => []KernelInv
  <1>1. Init => KernelInv
    BY InitInv, InitWait DEF KernelInv
  <1>2. KernelInv /\ [Next]_vars => KernelInv'
    <2> SUFFICES ASSUME TableInv, WaitInv, [Next]_vars PROVE TableInv' /\ WaitInv'
      BY DEF KernelInv
    <2>1. TableInv'
      BY ThreadStepInv, CpuStepInv, StutterInv DEF Next
    <2>2. WaitInv'
      BY ThreadWait, CpuWait, StutterWait DEF Next
    <2> QED BY <2>1, <2>2
  <1> QED BY <1>1, <1>2, PTL DEF Spec

(* The variables keep their types. *)
THEOREM TypeCorrect == Spec => []TypeOK
  <1>1. KernelInv => TypeOK
    BY DEF KernelInv, TableInv
  <1> QED BY KernelInvariant, <1>1, PTL

(* The ready list holds exactly the READY threads: scheduler_schedule drops  *)
(* none, scheduler_add_ready and sleepq_wake enter none twice.               *)
THEOREM ReadyListCorrect == Spec => []ReadyListOK
  <1>1. KernelInv => ReadyListOK
    BY DEF KernelInv, TableInv
  <1> QED BY KernelInvariant, <1>1, PTL

(* No thread runs on two CPUs, and none that is marked running on no CPU. *)
THEOREM CurrentCorrect == Spec => []CurrentOK
  <1>1. KernelInv => CurrentOK
    BY DEF KernelInv, TableInv
  <1> QED BY KernelInvariant, <1>1, PTL

(* Every thread that sleeps on a resource is in the chain sleepq_wake        *)
(* searches for it.                                                          *)
THEOREM SleepQueueCorrect == Spec => []SleepQueueOK
  <1>1. KernelInv => SleepQueueOK
    BY DEF KernelInv, TableInv
  <1> QED BY KernelInvariant, <1>1, PTL

(* No thread is SLEEPING with nothing to wake it by, and none is READY or    *)
(* dead while it is still in a chain of the sleep queue.                     *)
THEOREM SleepStateCorrect == Spec => []SleepStateOK
  <1>1. KernelInv => SleepStateOK
    BY DEF KernelInv, TableInv
  <1> QED BY KernelInvariant, <1>1, PTL

(* The KERNEL_PANIC at the end of thread_finish is unreachable. *)
THEOREM FinishCorrect == Spec => []PanicUnreachable
  <1>1. KernelInv => PanicUnreachable
    <2> SUFFICES ASSUME TableInv, NEW t \in Threads, At(t, "panic") PROVE FALSE
      BY DEF KernelInv, PanicUnreachable
    <2>1. Runs(t) /\ pc[t] = "panic"
      BY Contexts DEF At
    <2>2. state[t] = "DYING" /\ ~SwitchedOff(t)
      BY <2>1, RunningThread DEF TableInv, LifeOK
    <2> QED BY <2>1, <2>2 DEF TableInv, LifeOK
  <1> QED BY KernelInvariant, <1>1, PTL

(* semaphore_P and semaphore_V, by threads on all CPUs and by interrupt      *)
(* handlers: while a semaphore's lock is free, its negative value counts     *)
(* exactly the threads that sleep on it.                                     *)
THEOREM SemaphoreCountCorrect == Spec => []SemaphoreCountOK
  <1>1. KernelInv => SemaphoreCountOK
    BY DEF KernelInv, WaitInv, CountsOK, SemaphoreCountOK, Sleeping, Owed
  <1> QED BY KernelInvariant, <1>1, PTL

(* process_join and process_finish: nobody is left asleep on a zombie once   *)
(* the lock of the process table is free.                                    *)
THEOREM JoinWakeupCorrect == Spec => []JoinWakeupOK
  <1>1. KernelInv => JoinWakeupOK
    <2> SUFFICES ASSUME TableInv, WaitInv, NEW e \in Events, zombie[e], ptable_slock = NoCtx
                 PROVE  Sleeping(e) = {}
      BY DEF KernelInv, JoinWakeupOK, Sleeping
    <2>1. \A c \in Ctx : pc[c] \notin {"wakeall_find", "wakeall_ready"}
      BY Contexts, LockHolder DEF TableLabels
    <2> QED BY <2>1 DEF WaitInv, JoinersOK
  <1> QED BY KernelInvariant, <1>1, PTL

----------------------------------------------------------------------------
(* The refinement of CountingSemaphore: what the steps on the chains do *)
(* to the lines of waiting threads, then every step of the kernel.            *)

(* Sequences by their elements. *)
LEMMA AppendOf ==
    ASSUME NEW n \in Nat, NEW w, w = [i \in 1 .. n |-> w[i]], NEW t
    PROVE  Append(w, t) = [i \in 1 .. (n + 1) |-> IF i <= n THEN w[i] ELSE t]
  <1> DEFINE S == {w[i] : i \in 1 .. n} \union {t}
  <1>1. w \in Seq(S) /\ Len(w) = n /\ t \in S
    <2>1. \A i \in 1 .. n : w[i] \in S
      OBVIOUS
    <2>2. w \in [1 .. n -> S]
      BY <2>1
    <2> QED BY <2>2, IsASeq, LenProperties
  <1> HIDE DEF S
  <1>2. /\ Append(w, t) \in Seq(S) /\ Len(Append(w, t)) = n + 1
        /\ \A i \in 1 .. n : Append(w, t)[i] = w[i]
        /\ Append(w, t)[n + 1] = t
    BY <1>1, AppendProperties
  <1>3. Append(w, t) = [i \in 1 .. (n + 1) |-> Append(w, t)[i]]
    BY <1>2, LenProperties
  <1>4. \A i \in 1 .. (n + 1) : Append(w, t)[i] = IF i <= n THEN w[i] ELSE t
    BY <1>2
  <1> QED BY <1>3, <1>4

LEMMA TailOf ==
    ASSUME NEW n \in Nat, n > 0, NEW w, w = [i \in 1 .. n |-> w[i]]
    PROVE  w # <<>> /\ Tail(w) = [i \in 1 .. (n - 1) |-> w[i + 1]]
  <1> DEFINE S == {w[i] : i \in 1 .. n}
  <1>1. w \in Seq(S) /\ Len(w) = n
    <2>1. w \in [1 .. n -> S]
      OBVIOUS
    <2> QED BY <2>1, IsASeq, LenProperties
  <1> HIDE DEF S
  <1>2. w # <<>>
    BY <1>1, EmptySeq
  <1>3. /\ Tail(w) \in Seq(S) /\ Len(Tail(w)) = n - 1
        /\ \A i \in 1 .. (n - 1) : Tail(w)[i] = w[i + 1]
    BY <1>1, <1>2, HeadTailProperties
  <1>4. Tail(w) = [i \in 1 .. (n - 1) |-> Tail(w)[i]]
    BY <1>3, LenProperties
  <1> QED BY <1>2, <1>3, <1>4

(* The threads that wait for a semaphore are some of a finite chain. *)
LEMMA Lines ==
    ASSUME TableInv, NEW s \in Sems
    PROVE  /\ Hash[s] \in Buckets /\ s \in Resources /\ s # NoRes /\ s \notin Events
           /\ Queued(Hash[s]) \subseteq Threads /\ Line(s) \subseteq Queued(Hash[s])
           /\ Line(s) \subseteq Sleeping(s)
           /\ IsFiniteSet(Line(s)) /\ Cardinality(Line(s)) \in Nat
           /\ \A t : /\ UpTo(s, t) \subseteq Line(s) /\ IsFiniteSet(UpTo(s, t))
                    /\ Cardinality(UpTo(s, t)) \in Nat
                    /\ Cardinality(UpTo(s, t)) <= Cardinality(Line(s))
  <1>1. Hash[s] \in Buckets /\ s \in Resources /\ s # NoRes /\ s \notin Events
    BY ResourcesAssumption, HashAssumption, NoResAssumption
  <1>2. /\ Queued(Hash[s]) \subseteq Threads /\ Line(s) \subseteq Queued(Hash[s])
        /\ Line(s) \subseteq Sleeping(s)
    BY DEF Queued, Line, Sleeping
  <1>3. IsFiniteSet(Line(s)) /\ Cardinality(Line(s)) \in Nat
    BY <1>2, FinitelyManySleep, FS_Subset, FS_CardinalityType
  <1>4. ASSUME NEW t
        PROVE  /\ UpTo(s, t) \subseteq Line(s) /\ IsFiniteSet(UpTo(s, t))
               /\ Cardinality(UpTo(s, t)) \in Nat
               /\ Cardinality(UpTo(s, t)) <= Cardinality(Line(s))
    <2>1. UpTo(s, t) \subseteq Line(s)
      BY DEF UpTo
    <2> QED BY <1>3, <2>1, FS_Subset, FS_CardinalityType
  <1> QED BY <1>1, <1>2, <1>3, <1>4

(* A chain in which the threads that wait for s stay in order changes nothing *)
(* for s.                                                                     *)
LEMMA LineKept ==
    ASSUME TableInv, NEW s \in Sems, Line(s)' = Line(s),
           \A u, v \in Line(s) : v \in ListFrom(Queued(Hash[s])', u, next')
                                 <=> v \in ListFrom(Queued(Hash[s]), u, next)
    PROVE  Waiting'[s] = Waiting[s]
  <1>1. \A t \in Line(s) : UpTo(s, t)' = UpTo(s, t)
    BY DEF UpTo
  <1>2. \A i : Place(s, i)' = Place(s, i)
    BY <1>1 DEF Place
  <1> QED BY <1>2 DEF Waiting

(* A thread that sleepq_add chains to wait for s is put last in line. *)
LEMMA JoinsWaiting ==
    ASSUME TableInv, TableInv', NEW s \in Sems, NEW t \in Threads, sleeps_on[t] = s, Joins(Hash[s], t)
    PROVE  Waiting'[s] = Append(Waiting[s], t)
  <1> DEFINE M == Queued(Hash[s])'
  <1>n. PICK n \in Nat : n = Cardinality(Line(s))
    BY Lines
  <1>0. /\ IsFiniteSet(Line(s)) /\ Line(s) \subseteq Queued(Hash[s])
        /\ \A u : UpTo(s, u) \subseteq Line(s) /\ Cardinality(UpTo(s, u)) \in Nat
                  /\ Cardinality(UpTo(s, u)) <= n
        /\ Hash[s] \in Buckets
    BY <1>n, Lines
  <1>1. /\ t \notin Queued(Hash[s]) /\ M = Queued(Hash[s]) \union {t}
        /\ sleeps_on' = sleeps_on
        /\ \A u \in Queued(Hash[s]) : t \in ListFrom(M, u, next') /\ u \notin ListFrom(M, t, next')
        /\ \A u, v \in Queued(Hash[s]) : v \in ListFrom(M, u, next') <=> v \in ListFrom(Queued(Hash[s]), u, next)
    BY DEF Joins, JoinsLast
  <1>2. Line(s)' = Line(s) \union {t} /\ t \notin Line(s)
    BY <1>1 DEF Line
  <1>3. Cardinality(Line(s)') = n + 1 /\ Cardinality(Line(s) \union {t}) = n + 1
    <2>1. Cardinality(Line(s) \union {t}) = n + 1
      BY <1>n, <1>0, <1>2, FS_AddElement
    <2> QED BY <1>2, <2>1
  <1>4. t \in ListFrom(M, t, next')
    <2>1. t # Nil /\ t \in M
      BY <1>1, Contexts
    <2>2. IsList(M, hashtable'[Hash[s]], next')
      BY <1>0 DEF TableInv, SleepQueueOK
    <2> QED BY <2>1, <2>2, FromClosed
  <1>5. \A u \in Line(s) : UpTo(s, u)' = UpTo(s, u)
    BY <1>0, <1>1, <1>2 DEF UpTo
  <1>6. UpTo(s, t)' = Line(s) \union {t}
    BY <1>0, <1>1, <1>2, <1>4 DEF UpTo
  <1>7. ASSUME NEW i \in 1 .. n PROVE Place(s, i)' = Place(s, i)
    <2>1. \A u \in Line(s)' : Cardinality(UpTo(s, u)') = i <=> u \in Line(s) /\ Cardinality(UpTo(s, u)) = i
      BY <1>2, <1>3, <1>5, <1>6
    <2> QED BY <1>2, <2>1 DEF Place
  <1>8. Place(s, n + 1)' = {t}
    <2>1. \A u \in Line(s) : Cardinality(UpTo(s, u)') # n + 1
      BY <1>0, <1>5
    <2>2. Cardinality(UpTo(s, t)') = n + 1
      BY <1>3, <1>6
    <2> QED BY <1>2, <2>1, <2>2 DEF Place
  <1> DEFINE w == Waiting[s]
  <1>9. w = [i \in 1 .. n |-> CHOOSE u \in Place(s, i) : TRUE]
    BY <1>n DEF Waiting
  <1>10. Waiting'[s] = [i \in 1 .. (n + 1) |-> CHOOSE u \in Place(s, i)' : TRUE]
    BY <1>3 DEF Waiting
  <1>11. \A i \in 1 .. (n + 1) : (CHOOSE u \in Place(s, i)' : TRUE) = IF i <= n THEN w[i] ELSE t
    BY <1>0, <1>7, <1>8, <1>9
  <1>12. w = [i \in 1 .. n |-> w[i]]
    BY <1>9
  <1> HIDE DEF w, M
  <1>13. Append(w, t) = [i \in 1 .. (n + 1) |-> IF i <= n THEN w[i] ELSE t]
    BY <1>0, <1>12, AppendOf
  <1> QED BY <1>10, <1>11, <1>13 DEF w

(* The thread that sleepq_wake finds is the first in line: no other thread   *)
(* that waits for the same resource comes before it in the chain.            *)
LEMMA FirstInLine ==
    ASSUME TableInv, NEW s \in Resources, NEW first \in Walk(Hash[s], s), sleeps_on[first] = s,
           NEW u \in Queued(Hash[s]), sleeps_on[u] = s
    PROVE  /\ u \in ListFrom(Queued(Hash[s]), first, next)
           /\ u # first => first \notin ListFrom(Queued(Hash[s]), u, next)
  <1> DEFINE L == Queued(Hash[s])
  <1>0. Hash[s] \in Buckets
    BY HashAssumption
  <1>1. /\ L \subseteq Threads /\ Nil \notin L /\ first \in L
        /\ IsList(L, hashtable[Hash[s]], next)
        /\ hashtable[Hash[s]] > 0 => hashtable[Hash[s]] # Nil
        /\ \A x \in L : next[x] > 0 => next[x] # Nil
    BY <1>0, Contexts, Disjoint, WalkInChain DEF TableInv, SleepQueueOK
  <1>l. u \in L
    OBVIOUS
  <1> HIDE DEF L
  <1>2. ASSUME u # first PROVE first \notin ListFrom(L, u, next)
    <2>b. PICK B : B = {x \in L : x \notin ListFrom(L, u, next)} \union {u}
      OBVIOUS
    <2>1. /\ hashtable[Hash[s]] # Nil => hashtable[Hash[s]] \in B
          /\ \A x \in B : x # u /\ next[x] # Nil => next[x] \in B
      BY <1>1, <1>l, <2>b, BeforeNode
    <2>2. B \in SUBSET Threads /\ \A x \in B : x # u => x \in L
      BY <1>1, <1>l, <2>b
    <2>3. Follows(B, Hash[s], s)
      BY <1>1, <2>1, <2>2 DEF Follows
    <2>4. first \in B
      BY <2>2, <2>3 DEF Walk
    <2> QED BY <1>2, <2>4, <2>b
  <1>3. u \in ListFrom(L, first, next)
    <2>1. u \in ListFrom(L, first, next) \/ first \in ListFrom(L, u, next)
      BY <1>1, <1>l, FromTotal
    <2>2. first \in ListFrom(L, first, next)
      BY <1>1, FromClosed
    <2> QED BY <1>2, <2>1, <2>2
  <1> QED BY <1>2, <1>3 DEF L

(* A thread that sleepq_wake takes out of a chain leaves the head of its line. *)
LEMMA LeavesWaiting ==
    ASSUME TableInv, NEW s \in Sems, NEW t \in Walk(Hash[s], s), sleeps_on[t] = s,
           Leaves(Hash[s], t)
    PROVE  Waiting[s] # <<>> /\ Waiting'[s] = Tail(Waiting[s])
  <1> DEFINE L == Queued(Hash[s])
  <1>n. PICK n \in Nat : n = Cardinality(Line(s))
    BY Lines
  <1>0. /\ IsFiniteSet(Line(s)) /\ Line(s) \subseteq L
        /\ \A u : UpTo(s, u) \subseteq Line(s) /\ IsFiniteSet(UpTo(s, u))
                  /\ Cardinality(UpTo(s, u)) \in Nat /\ Cardinality(UpTo(s, u)) <= n
        /\ s \in Resources
    BY <1>n, Lines
  <1>1. /\ t \in L /\ L' = L \ {t} /\ sleeps_on' = sleeps_on
        /\ \A u, v \in L \ {t} : v \in ListFrom(L', u, next') <=> v \in ListFrom(L, u, next)
    BY DEF Leaves, OthersKeepOrder
  <1>2. Line(s)' = Line(s) \ {t} /\ t \in Line(s)
    BY <1>1 DEF Line
  <1>3. n > 0 /\ Cardinality(Line(s)') = n - 1
    <2>1. Cardinality(Line(s) \ {t}) = n - 1
      BY <1>n, <1>0, <1>2, FS_RemoveElement
    <2>2. Cardinality(Line(s) \ {t}) \in Nat
      BY <1>0, FS_Subset, FS_CardinalityType
    <2> QED BY <1>2, <2>1, <2>2
  <1>4. \A u \in Line(s) : /\ u \in ListFrom(L, t, next)
                           /\ u # t => t \notin ListFrom(L, u, next)
    BY <1>0, FirstInLine DEF Line
  <1>5. UpTo(s, t) = {t}
    BY <1>2, <1>4 DEF UpTo
  <1>6. ASSUME NEW u \in Line(s), u # t
        PROVE  UpTo(s, u)' = UpTo(s, u) \ {t} /\ t \in UpTo(s, u)
    BY <1>0, <1>1, <1>2, <1>4, <1>6 DEF UpTo
  <1>7. Cardinality(UpTo(s, t)) = 1
    BY <1>5, FS_Singleton
  <1>8. ASSUME NEW u \in Line(s), u # t
        PROVE  Cardinality(UpTo(s, u)') = Cardinality(UpTo(s, u)) - 1
    <2>1. Cardinality(UpTo(s, u) \ {t}) = Cardinality(UpTo(s, u)) - 1
      BY <1>0, <1>6, <1>8, FS_RemoveElement
    <2> QED BY <1>6, <1>8, <2>1
  <1>9. ASSUME NEW i \in 1 .. (n - 1) PROVE Place(s, i)' = Place(s, i + 1)
    <2>1. \A u \in Line(s) : u # t => (Cardinality(UpTo(s, u)') = i <=> Cardinality(UpTo(s, u)) = i + 1)
      BY <1>0, <1>8
    <2>2. Cardinality(UpTo(s, t)) # i + 1
      BY <1>7
    <2> QED BY <1>2, <2>1, <2>2 DEF Place
  <1> DEFINE w == Waiting[s]
  <1>10. w = [i \in 1 .. n |-> CHOOSE u \in Place(s, i) : TRUE]
    BY <1>n DEF Waiting
  <1>11. Waiting'[s] = [i \in 1 .. (n - 1) |-> CHOOSE u \in Place(s, i)' : TRUE]
    BY <1>3 DEF Waiting
  <1>12. \A i \in 1 .. (n - 1) : (CHOOSE u \in Place(s, i)' : TRUE) = w[i + 1]
    <2>1. ASSUME NEW i \in 1 .. (n - 1)
          PROVE  (CHOOSE u \in Place(s, i)' : TRUE) = w[i + 1]
      <3>1. i + 1 \in 1 .. n
        BY <2>1
      <3>2. w[i + 1] = CHOOSE u \in Place(s, i + 1) : TRUE
        BY <1>10, <3>1
      <3> QED BY <1>9, <3>2
    <2> QED BY <2>1
  <1>13. w = [i \in 1 .. n |-> w[i]]
    BY <1>10
  <1> HIDE DEF w
  <1>14. w # <<>> /\ Tail(w) = [i \in 1 .. (n - 1) |-> w[i + 1]]
    BY <1>3, <1>13, TailOf
  <1>15. Waiting'[s] = [i \in 1 .. (n - 1) |-> w[i + 1]]
    BY <1>11, <1>12
  <1> QED BY <1>14, <1>15 DEF w

(* Chains that stay as they are leave every line as it is. *)
LEMMA ChainsWaiting ==
    ASSUME TableInv, ChainsKept
    PROVE  Waiting' = Waiting
  <1>1. ASSUME NEW s \in Sems PROVE Waiting'[s] = Waiting[s]
    <2>1. /\ Queued(Hash[s])' = Queued(Hash[s])
          /\ \A u \in Queued(Hash[s]) : next'[u] = next[u] /\ sleeps_on'[u] = sleeps_on[u]
      BY Lines DEF ChainsKept
    <2>2. Line(s)' = Line(s)
      BY <2>1 DEF Line
    <2>3. \A u : ListFrom(Queued(Hash[s])', u, next') = ListFrom(Queued(Hash[s]), u, next)
      BY <2>1, FromFrame
    <2> QED BY <2>2, <2>3, LineKept
  <1> QED BY <1>1 DEF Waiting

(* A thread that sleeps on something else comes and goes unnoticed. *)
LEMMA OtherLine ==
    ASSUME TableInv, NEW s \in Sems, NEW b \in Buckets, NEW t \in Threads, sleeps_on[t] # s,
           Joins(b, t) \/ Leaves(b, t)
    PROVE  Waiting'[s] = Waiting[s]
  <1> DEFINE L == Queued(Hash[s])
  <1>0. Hash[s] \in Buckets /\ Line(s) \subseteq L /\ t \notin Line(s) /\ sleeps_on' = sleeps_on
    BY Lines DEF Line, Joins, Leaves
  <1>1. CASE b # Hash[s]
    <2>1. L' = L /\ \A u \in L : next'[u] = next[u]
      BY <1>0, <1>1 DEF Joins, Leaves
    <2>2. Line(s)' = Line(s)
      BY <1>0, <2>1 DEF Line
    <2>3. \A u : ListFrom(L', u, next') = ListFrom(L, u, next)
      BY <2>1, FromFrame
    <2> QED BY <2>2, <2>3, LineKept
  <1>2. CASE b = Hash[s]
    <2>1. L' = L \union {t} \/ L' = L \ {t}
      BY <1>2 DEF Joins, Leaves
    <2>2. Line(s)' = Line(s)
      BY <1>0, <2>1 DEF Line
    <2>3. \A u, v \in Line(s) : v \in ListFrom(L', u, next') <=> v \in ListFrom(L, u, next)
      BY <1>0, <1>2 DEF Joins, JoinsLast, Leaves, OthersKeepOrder
    <2> QED BY <2>2, <2>3, LineKept
  <1> QED BY <1>1, <1>2

(* The line of one semaphore changes. *)
LEMMA OneLine ==
    ASSUME TableInv, NEW s \in Sems, NEW b \in Buckets, NEW t \in Threads, sleeps_on[t] = s,
           Joins(b, t) \/ Leaves(b, t)
    PROVE  Waiting' = [Waiting EXCEPT ![s] = Waiting'[s]]
  <1>1. \A r \in Sems : r # s => Waiting'[r] = Waiting[r]
    BY OtherLine
  <1>2. Waiting' = [r \in Sems |-> Waiting'[r]] /\ Waiting = [r \in Sems |-> Waiting[r]]
    BY DEF Waiting
  <1> QED BY <1>1, <1>2

(* A thread that sleeps on a process slot waits for no semaphore. *)
LEMMA NoLine ==
    ASSUME TableInv, NEW b \in Buckets, NEW t \in Threads, sleeps_on[t] \notin Sems,
           Joins(b, t) \/ Leaves(b, t)
    PROVE  Waiting' = Waiting
  <1>1. \A s \in Sems : Waiting'[s] = Waiting[s]
    BY OtherLine
  <1> QED BY <1>1 DEF Waiting

(* sleepq_add, second half, is Wait if it is semaphore_P that goes to sleep: *)
(* the value was already below zero when P decided so, under the lock it     *)
(* still holds.                                                              *)
LEMMA SleepRefines ==
    ASSUME TableInv, WaitInv, TableInv', NEW t \in Threads, SleepqAppend(t), UNCHANGED value,
           Joins(Hash[res[t]], t)
    PROVE  [CS!Next]_<<Units, Waiting>>
  <1>0. /\ pc[t] = "sleepq_append" /\ res[t] \in Resources /\ sleeps_on[t] = res[t] /\ t \in Ctx
        /\ Hash[res[t]] \in Buckets
    BY Contexts, HashAssumption DEF SleepqAppend, At, TableInv, ArgumentsOK, AppendOK
  <1>1. Units' = Units
    BY DEF Units
  <1>2. CASE res[t] \in Sems
    <2> DEFINE s == res[t]
    <2>1. slock[s] = t
      BY <1>0, <1>2, LockHolder DEF SleepLabels
    <2>2. Cardinality(Sleeping(s)) = Owed(s)
      BY <1>0, <1>2, <2>1, FinitelyManySleep DEF WaitInv, CountsOK, Pending
    <2>3. Sleeping(s) # {}
      BY <1>0 DEF Sleeping
    <2>4. value[s] < 0 /\ value[s] \in Int
      BY <1>2, <2>2, <2>3, FinitelyManySleep, FS_EmptySet DEF Owed, TableInv, TypeOK
    <2>5. Units[s] = 0
      BY <1>2, <2>4 DEF Units
    <2>6. Waiting' = [Waiting EXCEPT ![s] = Append(@, t)]
      BY <1>0, <1>2, JoinsWaiting, OneLine
    <2>7. CS!Wait(s, t)
      BY <1>1, <2>5, <2>6 DEF CS!Wait
    <2> QED BY <1>2, <2>7 DEF CS!Next
  <1>3. CASE res[t] \notin Sems
    BY <1>0, <1>1, <1>3, NoLine
  <1> QED BY <1>2, <1>3

(* sleepq_wake is HandOver to the first in line; sleepq_wake_all of           *)
(* process_finish is nothing to the semaphores.                               *)
LEMMA WakeRefines ==
    ASSUME TableInv, NEW c \in Ctx, res[c] \in Resources, NEW t \in Threads, Sleeper(c, t),
           Leaves(Hash[res[c]], t), UNCHANGED value
    PROVE  [CS!Next]_<<Units, Waiting>>
  <1>0. sleeps_on[t] = res[c] /\ t \in Walk(Hash[res[c]], res[c]) /\ Hash[res[c]] \in Buckets
    BY HashAssumption DEF Sleeper
  <1>1. Units' = Units
    BY DEF Units
  <1>2. CASE res[c] \in Sems
    <2> DEFINE s == res[c]
    <2>1. Waiting[s] # <<>> /\ Waiting'[s] = Tail(Waiting[s])
      BY <1>0, <1>2, LeavesWaiting
    <2>2. Waiting' = [Waiting EXCEPT ![s] = Tail(@)]
      BY <1>0, <1>2, <2>1, OneLine
    <2>3. CS!HandOver(s)
      BY <1>1, <2>1, <2>2 DEF CS!HandOver
    <2> QED BY <1>2, <2>3 DEF CS!Next
  <1>3. CASE res[c] \notin Sems
    BY <1>0, <1>1, <1>3, NoLine
  <1> QED BY <1>2, <1>3

(* A step that keeps the chains and the values is none of a semaphore's. *)
LEMMA SilentRefines ==
    ASSUME TableInv, ChainsKept, UNCHANGED value
    PROVE  [CS!Next]_<<Units, Waiting>>
  BY ChainsWaiting DEF Units

(* Nobody waits for a semaphore that can be taken. *)
LEMMA NobodyWaits ==
    ASSUME TableInv, NEW s \in Sems, Sleeping(s) = {}
    PROVE  Waiting[s] = <<>>
  <1>1. Cardinality(Line(s)) = 0
    <2>1. Line(s) = {}
      BY Lines
    <2> QED BY <2>1, FS_EmptySet
  <1> DEFINE w == Waiting[s]
  <1>2. w = [i \in 1 .. 0 |-> CHOOSE u \in Place(s, i) : TRUE]
    BY <1>1 DEF Waiting
  <1>3. w \in [1 .. 0 -> {}]
    BY <1>2
  <1> HIDE DEF w
  <1>4. w \in Seq({}) /\ Len(w) = 0
    BY <1>3, IsASeq, LenProperties
  <1>5. w = <<>>
    BY <1>4, EmptySeq
  <1> QED BY <1>5 DEF w

(* Under the lock semaphore_P takes a unit if there is one, and semaphore_V  *)
(* gives one back if nobody waits for it.                                    *)
LEMMA AcquireRefines ==
    ASSUME TableInv, WaitInv, NEW c \in Ctx, P_Acquire(c) \/ V_Acquire(c), ChainsKept
    PROVE  [CS!Next]_<<Units, Waiting>>
  <1>1. PICK s \in Sems :
          /\ s = res[c] /\ slock[s] = NoCtx
          /\ \/ value' = [value EXCEPT ![s] = @ - 1]
             \/ value' = [value EXCEPT ![s] = @ + 1]
    <2>1. res[c] \in Sems
      BY DEF P_Acquire, V_Acquire, At, TableInv, ArgumentsOK
    <2> QED BY <2>1 DEF P_Acquire, V_Acquire
  <1>2. /\ Cardinality(Sleeping(s)) = Owed(s)
        /\ value[s] \in Int /\ value \in [Sems -> Int]
        /\ \A r \in Sems : r # s => value'[r] = value[r]
    BY <1>1 DEF WaitInv, CountsOK, TableInv, TypeOK
  <1>3. Waiting' = Waiting
    BY ChainsWaiting
  <1>u. /\ Units = [r \in Sems |-> Units[r]] /\ Units' = [r \in Sems |-> Units'[r]]
        /\ \A r \in Sems : r # s => Units'[r] = Units[r]
    BY <1>2 DEF Units
  <1>4. CASE value' = [value EXCEPT ![s] = @ - 1]
    <2>0. value'[s] = value[s] - 1
      BY <1>2, <1>4
    <2>1. CASE value[s] > 0
      <3>1. Units[s] > 0 /\ Units'[s] = Units[s] - 1
        BY <1>2, <2>0, <2>1 DEF Units
      <3>2. CS!Take(s)
        BY <1>3, <1>u, <3>1 DEF CS!Take
      <3> QED BY <3>2 DEF CS!Next
    <2>2. CASE ~(value[s] > 0)
      <3>1. Units' = Units
        BY <1>2, <2>0, <2>2 DEF Units
      <3> QED BY <1>3, <3>1
    <2> QED BY <2>1, <2>2
  <1>5. CASE value' = [value EXCEPT ![s] = @ + 1]
    <2>0. value'[s] = value[s] + 1
      BY <1>2, <1>5
    <2>1. CASE value[s] >= 0
      <3>1. Units'[s] = Units[s] + 1
        BY <1>2, <2>0, <2>1 DEF Units
      <3>2. Cardinality(Sleeping(s)) = 0
        BY <1>2, <2>1 DEF Owed
      <3>3. Sleeping(s) = {}
        BY <3>2, FinitelyManySleep, FS_EmptySet
      <3>4. CS!Give(s)
        BY <1>3, <1>u, <3>1, <3>3, NobodyWaits DEF CS!Give
      <3> QED BY <3>4 DEF CS!Next
    <2>2. CASE ~(value[s] >= 0)
      <3>1. Units' = Units
        BY <1>2, <2>0, <2>2 DEF Units
      <3> QED BY <1>3, <3>1
    <2> QED BY <2>1, <2>2
  <1> QED BY <1>1, <1>4, <1>5

(* The other steps that take and release locks leave the values alone. *)
LEMMA LockRefines ==
    ASSUME TableInv, WaitInv, NEW c \in Ctx,
           \/ P_Acquire(c) /\ c \in Threads
           \/ V_Acquire(c) \/ SemRelease(c)
           \/ SleepRelease(c) /\ c \in Threads
           \/ (JoinAcquire(c) \/ ExitAcquire(c) \/ ExitRelease(c)) /\ c \in Threads
    PROVE  [CS!Next]_<<Units, Waiting>>
  <1>1. ChainsKept
    BY LockStep
  <1>2. P_Acquire(c) \/ V_Acquire(c) \/ UNCHANGED value
    BY DEF SemRelease, SleepRelease, JoinAcquire, ExitAcquire, ExitRelease, semVars
  <1> QED BY <1>1, <1>2, AcquireRefines, SilentRefines

(* The search of sleepq_wake, and of each round of sleepq_wake_all. *)
LEMMA FindRefines ==
    ASSUME TableInv, NEW c \in Ctx, NEW label, NEW found, NEW done,
           FindLabels(c, label, found, done), WakeFind(c, label, found, done),
           UNCHANGED <<semVars, procVars>>
    PROVE  [CS!Next]_<<Units, Waiting>>
  <1>1. UNCHANGED value /\ res[c] \in Resources
    BY ResourcesAssumption DEF semVars, FindLabels, WakeFind, At, TableInv, ArgumentsOK
  <1>2. \/ ChainsKept
        \/ \E first \in Threads : Sleeper(c, first) /\ Leaves(Hash[res[c]], first)
    BY FindStep
  <1> QED BY <1>1, <1>2, SilentRefines, WakeRefines

(* A step of a thread is a step of CountingSemaphore or none. *)
LEMMA ThreadRefines ==
    ASSUME TableInv, WaitInv, TableInv', NEW t \in Threads, ThreadStep(t)
    PROVE  [CS!Next]_<<Units, Waiting>>
  <1> USE Contexts, ResourcesAssumption
  <1>1. ASSUME NEW s, NEW label, Call(t, s, label), s \in Resources \union {NoRes},
               \/ label \in {"P_acquire", "V_acquire"} /\ s \in Sems
               \/ label \in {"join_acquire", "exit_acquire"} /\ s \in Events
               \/ label = "sw0" /\ s = NoRes
        PROVE  [CS!Next]_<<Units, Waiting>>
    BY <1>1, CallStep, SilentRefines DEF Call, semVars
  <1>2. CASE semaphore_P(t)
    BY <1>1, <1>2, LockRefines DEF semaphore_P
  <1>3. CASE semaphore_V(t)
    <2>1. CASE \E s \in Sems : value[s] < MaxValue /\ Call(t, s, "V_acquire")
      BY <1>1, <2>1
    <2>2. CASE V_Acquire(t)
      BY <2>2, LockRefines
    <2>3. CASE WakeFind(t, "wake_find", "wake_ready", "sem_release") /\ UNCHANGED <<semVars, procVars>>
      BY <2>3, FindRefines DEF FindLabels
    <2>4. CASE WakeReady(t, "wake_ready", "sem_release", NoCtx) /\ UNCHANGED <<semVars, procVars>>
      BY <2>4, WakeStep, SilentRefines DEF semVars
    <2> QED BY <1>3, <2>1, <2>2, <2>3, <2>4 DEF semaphore_V
  <1>4. CASE sleepq_add(t)
    <2>1. CASE SleepqMark(t) /\ UNCHANGED <<semVars, procVars>>
      BY <2>1, MarkStep, SilentRefines DEF semVars
    <2>2. CASE SleepqAppend(t) /\ UNCHANGED <<semVars, procVars>>
      BY <2>2, AppendStep, SleepRefines DEF semVars
    <2> QED BY <1>4, <2>1, <2>2 DEF sleepq_add
  <1>5. CASE SleepRelease(t) \/ SemRelease(t)
    BY <1>5, LockRefines
  <1>6. CASE process_join(t)
    BY <1>1, <1>6, LockRefines DEF process_join
  <1>7. CASE process_finish(t)
    <2>1. CASE \E e \in Events : ~zombie[e] /\ Call(t, e, "exit_acquire")
      BY <1>1, <2>1
    <2>2. CASE ExitAcquire(t) \/ ExitRelease(t)
      BY <2>2, LockRefines
    <2>3. CASE WakeFind(t, "wakeall_find", "wakeall_ready", "exit_release")
               /\ UNCHANGED <<semVars, procVars>>
      BY <2>3, FindRefines DEF FindLabels
    <2>4. CASE WakeReady(t, "wakeall_ready", "wakeall_find", t) /\ UNCHANGED <<semVars, procVars>>
      BY <2>4, WakeStep, SilentRefines DEF semVars
    <2>5. CASE FinishMark(t, "thread_finish", "exit_finish") /\ UNCHANGED <<semVars, procVars>>
      BY <2>5, FinishStep, SilentRefines DEF semVars
    <2>6. CASE (\E cpu \in Cpus : FinishSwitch(cpu, t, "exit_finish")) /\ UNCHANGED <<semVars, procVars>>
      BY <2>6, FinishSwitchStep, SilentRefines DEF semVars
    <2>7. CASE FinishReturn(t) /\ UNCHANGED <<semVars, procVars>>
      BY <2>7, ReturnStep, SilentRefines DEF semVars
    <2> QED BY <1>7, <2>1, <2>2, <2>3, <2>4, <2>5, <2>6, <2>7 DEF process_finish
  <1>8. CASE thread_create(t)
    BY <1>8, ReserveStep, InitStep, RunStep, SilentRefines DEF thread_create, semVars
  <1>9. CASE thread_switch(t)
    <2>1. CASE Call(t, NoRes, "sw0")
      BY <1>1, <2>1
    <2>2. CASE \E cpu \in Cpus : Switch(cpu, t)
      <3>1. PICK cpu \in Cpus : Switch(cpu, t)
        BY <2>2
      <3>2. PICK resume : resume = IF res[t] \in Events THEN "join_acquire" ELSE "run"
        OBVIOUS
      <3>3. /\ SoftwareInterrupt(cpu, t, resume) /\ pc[t] = "sw0"
            /\ UNCHANGED <<semVars, procVars>>
        BY <3>1, <3>2 DEF Switch, At
      <3> QED BY <3>2, <3>3, SoftwareStep, SilentRefines DEF semVars
    <2> QED BY <1>9, <2>1, <2>2 DEF thread_switch
  <1>10. CASE thread_finish(t)
    <2>1. CASE FinishMark(t, "run", "finish") /\ UNCHANGED <<semVars, procVars>>
      BY <2>1, FinishStep, SilentRefines DEF semVars
    <2>2. CASE (\E cpu \in Cpus : FinishSwitch(cpu, t, "finish")) /\ UNCHANGED <<semVars, procVars>>
      BY <2>2, FinishSwitchStep, SilentRefines DEF semVars
    <2> QED BY <1>10, <2>1, <2>2 DEF thread_finish
  <1> QED BY <1>2, <1>3, <1>4, <1>5, <1>6, <1>7, <1>8, <1>9, <1>10 DEF ThreadStep

(* So is a step of a CPU, in a device handler or in interrupt_handle. *)
LEMMA CpuRefines ==
    ASSUME TableInv, WaitInv, NEW cpu \in Cpus, HandlerStep(cpu) \/ interrupt_handle(cpu)
    PROVE  [CS!Next]_<<Units, Waiting>>
  <1> USE Contexts
  <1>1. CASE \E s \in Sems : value[s] < MaxValue /\ Call(cpu, s, "V_acquire")
    BY <1>1 DEF Call, At, TableInv, LabelsOK, HandlerLabels
  <1>2. CASE V_Acquire(cpu) \/ SemRelease(cpu)
    BY <1>2, LockRefines
  <1>3. CASE WakeFind(cpu, "wake_find", "wake_ready", "sem_release") /\ UNCHANGED <<semVars, procVars>>
    BY <1>3, FindRefines DEF FindLabels
  <1>4. CASE WakeReady(cpu, "wake_ready", "sem_release", NoCtx) /\ UNCHANGED <<semVars, procVars>>
    BY <1>4, WakeStep, SilentRefines DEF semVars
  <1>5. CASE (TimerInterrupt(cpu) \/ InterruptExit(cpu)) /\ UNCHANGED <<semVars, procVars>>
    BY <1>5, TimerStep, ExitStep, SilentRefines DEF semVars
  <1>6. CASE DeviceInterrupt(cpu)
    <2>1. ChainsKept
      BY <1>6, DeviceStep
    <2>2. UNCHANGED value
      BY <1>6 DEF DeviceInterrupt, semVars
    <2> QED BY <2>1, <2>2, SilentRefines
  <1> QED BY <1>1, <1>2, <1>3, <1>4, <1>5, <1>6 DEF HandlerStep, interrupt_handle, semaphore_V

(* At boot every unit is free and nobody waits. *)
LEMMA InitRefines == Init => CS!Init
  <1> SUFFICES ASSUME Init PROVE CS!Init
    OBVIOUS
  <1>1. TableInv /\ \A s \in Sems : Sleeping(s) = {}
    BY InitInv, NoResAssumption, ResourcesAssumption, Contexts DEF Init, InitThreads, Sleeping
  <1>2. Waiting = [s \in Sems |-> <<>>]
    <2>1. Waiting = [s \in Sems |-> Waiting[s]]
      BY DEF Waiting
    <2> QED BY <1>1, <2>1, NobodyWaits
  <1>3. Units = InitValue
    <2>1. \A s \in Sems : Units[s] = InitValue[s]
      BY InitValueAssumption DEF Init, Units
    <2>2. Units = [s \in Sems |-> Units[s]] /\ InitValue = [s \in Sems |-> InitValue[s]]
      BY InitValueAssumption DEF Units
    <2> QED BY <2>1, <2>2
  <1> QED BY <1>2, <1>3 DEF CS!Init

(* The kernel's semaphores implement CountingSemaphore: semaphore_P,          *)
(* semaphore_V and the sleep queue, on any number of CPUs and in handlers,    *)
(* lose no unit, make none up and serve the waiting threads in order.         *)
THEOREM SemaphoreRefinement == Spec => ImplementsCountingSemaphore
  <1>1. KernelInv /\ KernelInv' /\ [Next]_vars => [CS!Next]_<<Units, Waiting>>
    <2> SUFFICES ASSUME TableInv, WaitInv, TableInv', [Next]_vars
                 PROVE  [CS!Next]_<<Units, Waiting>>
      BY DEF KernelInv
    <2>1. CASE UNCHANGED vars
      <3>1. ChainsKept /\ UNCHANGED value
        BY <2>1 DEF vars, ChainsKept, Queued, Waking
      <3> QED BY <3>1, SilentRefines
    <2> QED BY <2>1, ThreadRefines, CpuRefines DEF Next
  <1> QED BY <1>1, InitRefines, KernelInvariant, PTL DEF Spec, ImplementsCountingSemaphore, CS!Spec
=============================================================================
