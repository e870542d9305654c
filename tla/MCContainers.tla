---------------------------- MODULE MCContainers ----------------------------
(***************************************************************************)
(* The two ordered containers the store is built on, each by itself: the   *)
(* heap of an iterator on every small array (MCItemHeap), and the map of   *)
(* btree.cc under every sequence of calls that keeps it within MaxKeys     *)
(* keys.                                                                   *)
(*                                                                         *)
(* The map compares keys and does nothing else with them, and a node's     *)
(* address means nothing.  So the "held" keys of the map are always named  *)
(* 2, 4, .. 2 * held in their order, with the odd numbers for the keys     *)
(* between them, and after each call the nodes are numbered by their keys.  *)
(***************************************************************************)
EXTENDS BTree, MCItemHeap

CONSTANT MaxKeys         \* a bound of the model: the most keys in the map

VARIABLES tree, held

heapVars == <<a, len, phase, keys>>
containerVars == <<heapVars, tree, held>>

(***************************************************************************)
(* The renaming.                                                           *)
(***************************************************************************)
\* Nodes are numbered by their least keys, empty ones by their addresses.
Renumbered(t) ==
  LET least  == [x \in DOMAIN t.mem |-> IF t.mem[x].values = <<>> THEN 0 ELSE t.mem[x].values[1]]
      number == [x \in DOMAIN t.mem |->
                   Cardinality({y \in DOMAIN t.mem :
                                  least[y] < least[x] \/ (least[y] = least[x] /\ y <= x)})]
      New(x) == IF x \in DOMAIN number THEN number[x] ELSE NULL
  IN  [t EXCEPT !.root = New(@), !.rightmost = New(@),
                !.mem = [i \in 1 .. Cardinality(DOMAIN t.mem) |->
                           LET n == t.mem[CHOOSE x \in DOMAIN t.mem : number[x] = i]
                           IN  [n EXCEPT !.parent = New(@),
                                         !.children = [j \in DOMAIN @ |-> New(@[j])]]]]

Renamed(t, New(_)) ==
  [t EXCEPT !.mem = [x \in DOMAIN @ |->
     [t.mem[x] EXCEPT !.values = [i \in DOMAIN @ |-> New(@[i])]]]]

Between == {2 * i + 1 : i \in 0 .. held}
Present == {2 * i : i \in 1 .. held}

(***************************************************************************)
(* The calls of btree.cc.                                                  *)
(***************************************************************************)
InsertNew(k) ==
  LET New(v) == CASE v < k -> v [] v = k -> v + 1 [] v > k -> v + 2
  IN  /\ held < MaxKeys
      /\ held' = held + 1
      /\ tree' = Renumbered(Renamed(InsertUnique(tree, k), New))

InsertAgain(k) == tree' = Renumbered(InsertUnique(tree, k)) /\ UNCHANGED held

RemovePresent(k) ==
  LET New(v) == IF v > k THEN v - 2 ELSE v
  IN  /\ held' = held - 1
      /\ tree' = Renumbered(Renamed(EraseUnique(tree, k), New))

RemoveAbsent(k) == tree' = Renumbered(EraseUnique(tree, k)) /\ UNCHANGED held

Free == tree' = Renumbered(Clear(tree)) /\ held' = 0

TreeNext ==
  \/ \E k \in Between : InsertNew(k) \/ RemoveAbsent(k)
  \/ \E k \in Present : InsertAgain(k) \/ RemovePresent(k)
  \/ Free

\* A behaviour is about one container; the other stays as it is.
ContainersInit ==
  /\ tree = EmptyTree /\ held = 0
  /\ \/ Init
     \/ a = <<>> /\ len = 0 /\ phase = "unused" /\ keys = Counts(a, len)

ContainersNext ==
  \/ phase # "unused" /\ Next /\ UNCHANGED <<tree, held>>
  \/ phase = "unused" /\ TreeNext /\ UNCHANGED heapVars

ContainersSpec == ContainersInit /\ [][ContainersNext]_containerVars

(***************************************************************************)
(* What the map promises.                                                  *)
(***************************************************************************)
\* Every field keeps its type; no node holds more than it has room for.
TreeTypeOK ==
  LET Address == DOMAIN tree.mem \cup {NULL}
  IN  /\ tree.root \in Address /\ tree.rightmost \in Address /\ tree.size \in 0 .. MaxKeys
      /\ \A x \in DOMAIN tree.mem :
           LET n == tree.mem[x]
           IN  /\ n.leaf \in BOOLEAN /\ n.position \in 0 .. NodeValues
               /\ n.max_count \in 1 .. NodeValues /\ n.parent \in Address
               /\ n.values \in Seq(Int) /\ Len(n.values) <= n.max_count
               /\ n.children \in Seq(Address)

\* No assert of the code fails, whatever the order of the calls: a node that
\* was to have room has it, siblings are siblings, the swapped root is a root.
AssertionsHold == tree.ok

\* The nodes hold exactly the keys that were inserted and not removed, each
\* once: no split, merge or rebalancing drops or doubles one.  They hold them
\* in order: what hangs below a child lies between the two values beside it.
KeysInOrder ==
  LET Values(x) == tree.mem[x].values
  IN  /\ UNION {ToSet(Values(x)) : x \in DOMAIN tree.mem} = Present
      /\ \A x, y \in DOMAIN tree.mem :
           \A i \in DOMAIN Values(x), j \in DOMAIN Values(y) :
             /\ Values(x)[i] = Values(y)[j] => x = y
             /\ x = y /\ i < j => Values(x)[i] < Values(y)[j]
      /\ \A x \in DOMAIN tree.mem : \A i \in DOMAIN tree.mem[x].children :
           \A y \in Below(tree, tree.mem[x].children[i]) : \A k \in ToSet(Values(y)) :
             /\ i > 1 => Values(x)[i - 1] < k
             /\ i <= Len(Values(x)) => k < Values(x)[i]

Depth(x) ==
  LET depth[y \in DOMAIN tree.mem] ==
        IF y = tree.root THEN 0 ELSE 1 + depth[tree.mem[y].parent]
  IN  depth[x]

\* Every node that is allocated hangs in the tree and knows its parent and its
\* place there, none is empty, an inner one has a child on each side of every
\* value, and all leaves are at one depth (btree::internal_verify, and more).
NodesLinked ==
  /\ DOMAIN tree.mem = IF tree.root = NULL THEN {} ELSE Below(tree, tree.root)
  /\ \A x \in DOMAIN tree.mem :
       LET n == tree.mem[x]
       IN  /\ n.values # <<>>
           /\ Len(n.children) = IF n.leaf THEN 0 ELSE Len(n.values) + 1
           /\ \A i \in DOMAIN n.children :
                tree.mem[n.children[i]].parent = x /\ tree.mem[n.children[i]].position = i - 1
  /\ \A x, y \in DOMAIN tree.mem :
       IsLeaf(tree, x) /\ IsLeaf(tree, y) => Depth(x) = Depth(y)

\* The root knows the first and the last leaf, from which begin() and end()
\* are made, and the number of keys (btree::verify).
EndsAndSize ==
  /\ Size(tree) = held
  /\ tree.root # NULL =>
       /\ Leftmost(tree) = FirstLeaf(tree, tree.root)
       /\ Rightmost(tree) = LastLeaf(tree, tree.root)

\* The tree is well formed after every call: types and capacities, links, ends.
\* A split, merge or rebalancing that leaves one of them stale is only noticed
\* by some later call that follows it.
WellFormed == TreeTypeOK /\ NodesLinked /\ EndsAndSize

\* From whatever key a scan starts, and from begin(), the iterator visits all
\* keys that are not smaller, in order, and then equals end(); a look-up finds
\* the keys of the map and no other.
ScansComplete ==
  /\ ScanFrom(tree, Begin(tree), held + 1) = [i \in 1 .. held |-> 2 * i]
  /\ \A k \in Between \cup Present :
       /\ ScanFrom(tree, FindClosest(tree, k), held + 1)
            = [i \in 1 .. held - ((k - 1) \div 2) |-> 2 * (i + ((k - 1) \div 2))]
       /\ (FindUnique(tree, k) # End(tree)) <=> k \in Present
=============================================================================
