--------------------------------- MODULE Heap ---------------------------------
(***************************************************************************)
(* The binary heap with pointers of the heap assignment: sequential-heap.c, *)
(* whose code concurrent-heap.c repeats.  A new node walks down from the    *)
(* root along the path to the next free place, whose bits are the number of *)
(* nodes, until it meets a smaller one; what it pushes aside is merged into *)
(* the rest of the path.  A turn of either loop is one step.                *)
(***************************************************************************)
EXTENDS Integers

CONSTANTS
    HeapValues,  \* values that are inserted
    MaxNodes     \* bound: nodes of a heap

ASSUME HeapAssumption == HeapValues \subseteq Int /\ MaxNodes \in Nat

VARIABLES
    n_nodes, root,   \* heap_t
    nodes,           \* node_t: value, left_child and right_child of every node
    step,            \* where the insertion is: "done", "walk" or "merge"
    mask, parent, current,  \* locals of insert_on_path
    edge, outsider          \* locals of merge_on_path

heapVars == <<n_nodes, root, nodes, step, mask, parent, current, edge, outsider>>
locals   == <<step, mask, parent, current, edge, outsider>>

Null    == 0
NodeIds == 1 .. MaxNodes
NewNode(value) == [value |-> value, left |-> Null, right |-> Null]

(* heap_init. *)
HeapInit ==
    /\ n_nodes = 0 /\ root = Null
    /\ nodes = [i \in {} |-> NewNode(0)]
    /\ step = "done"
    /\ mask = 0 /\ parent = Null /\ current = Null /\ edge = Null /\ outsider = Null
-----------------------------------------------------------------------------
(* 1 << ilogb(path) *)
TopBit[path \in NodeIds] == IF path = 1 THEN 1 ELSE 2 * TopBit[path \div 2]

(* path & mask *)
Bit(path, m) == m > 0 /\ (path \div m) % 2 = 1

(* As if the bits told the other side. *)
get_child_other(node, right) == IF right THEN nodes[node].left ELSE nodes[node].right

get_child(node, right) == IF right THEN nodes[node].right ELSE nodes[node].left

set_child(ns, node, right, child) ==
    IF right THEN [ns EXCEPT ![node].right = child] ELSE [ns EXCEPT ![node].left = child]

Less(v, w) == v < w

(* The new node is the one with the number n_nodes.  Without memory for it  *)
(* nothing happens.                                                         *)
heap_insert(value) ==
    /\ step = "done"
    /\ n_nodes < MaxNodes
    /\ n_nodes' = n_nodes + 1
    /\ nodes' = [i \in 1 .. n_nodes + 1 |-> IF i <= n_nodes THEN nodes[i] ELSE NewNode(value)]
    /\ step' = "walk"
    /\ mask' = TopBit[n_nodes + 1]
    /\ parent' = Null
    /\ current' = root
    /\ UNCHANGED <<root, edge, outsider>>

(* The condition of the loop of insert_on_path. *)
Descends == current # Null /\ Less(nodes[n_nodes].value, nodes[current].value)

(* A turn of that loop. *)
insert_on_path_walk ==
    /\ step = "walk"
    /\ Descends
    /\ mask' = mask \div 2
    /\ parent' = current
    /\ current' = get_child(current, Bit(n_nodes, mask \div 2))
    /\ UNCHANGED <<n_nodes, root, nodes, step, edge, outsider>>

(* After the loop the node takes the place that was reached. *)
insert_on_path_link ==
    /\ step = "walk"
    /\ ~Descends
    /\ IF parent = Null
       THEN root' = n_nodes /\ UNCHANGED nodes
       ELSE nodes' = set_child(nodes, parent, Bit(n_nodes, mask), n_nodes) /\ UNCHANGED root
    /\ step' = "merge"
    /\ edge' = n_nodes
    /\ outsider' = current
    /\ UNCHANGED <<n_nodes, mask, parent, current>>

(* A turn of merge_on_path: the outsider comes below the edge, on the path, *)
(* and leaves its other subtree to the edge.                                *)
merge_on_path ==
    /\ step = "merge"
    /\ outsider # Null
    /\ mask' = mask \div 2
    /\ LET right == Bit(n_nodes, mask \div 2) IN
       /\ nodes' = set_child(set_child(nodes, edge, ~right, get_child(outsider, ~right)),
                             edge, right, outsider)
       /\ outsider' = get_child(outsider, right)
    /\ edge' = outsider
    /\ UNCHANGED <<n_nodes, root, step, parent, current>>

merge_on_path_end ==
    /\ step = "merge"
    /\ outsider = Null
    /\ nodes' = [nodes EXCEPT ![edge].left = Null, ![edge].right = Null]
    /\ step' = "done"
    /\ mask' = 0 /\ parent' = Null /\ current' = Null /\ edge' = Null
    /\ UNCHANGED <<n_nodes, root, outsider>>

heap_clear ==
    /\ step = "done"
    /\ n_nodes' = 0 /\ root' = Null
    /\ nodes' = [i \in {} |-> NewNode(0)]
    /\ UNCHANGED locals

HeapNext ==
    \/ \E value \in HeapValues : heap_insert(value)
    \/ insert_on_path_walk
    \/ insert_on_path_link
    \/ merge_on_path
    \/ merge_on_path_end
    \/ heap_clear

HeapSpec == HeapInit /\ [][HeapNext]_heapVars
-----------------------------------------------------------------------------
Places == 1 .. (2 * MaxNodes + 1)

(* The node at each place of the tree; the children of place p are 2p and   *)
(* 2p + 1.                                                                  *)
NodeAt ==
    LET at[p \in Places] ==
          IF p = 1 THEN root
          ELSE IF at[p \div 2] = Null THEN Null ELSE get_child(at[p \div 2], p % 2 = 1)
    IN  at

(* After every insertion the tree is complete: its nodes, each of them      *)
(* once, fill the first n_nodes places.  No node is lost or linked twice    *)
(* when subtrees are cut off and merged in again.                           *)
HeapComplete ==
    step = "done" =>
      LET at == NodeAt
      IN  /\ \A p \in Places : at[p] # Null <=> p <= n_nodes
          /\ {at[p] : p \in 1 .. n_nodes} = 1 .. n_nodes

(* After every insertion no node is greater than its parent, which is what  *)
(* subheap_is_valid tests.                                                  *)
HeapOrdered ==
    step = "done" =>
      LET at == NodeAt
      IN  \A p \in 2 .. n_nodes : nodes[at[p]].value <= nodes[at[p \div 2]].value
(* After every heap_insert the tree is a heap. *)
IsHeap == HeapComplete /\ HeapOrdered
=============================================================================
