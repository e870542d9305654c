------------------------------- MODULE BTree -------------------------------
(***************************************************************************)
(* The map behind src/btree/btree.cc: the nodes of btree_map               *)
(* (src/btree/cpp-btree/btree.h), in which a worker keeps its index and    *)
(* its page cache.  A tree is a record of the fields btree_node and btree  *)
(* have: "mem" holds the nodes that are allocated, at addresses that are   *)
(* naturals; positions and children are counted from 0 as in the code.     *)
(* The fields rightmost and size are those of an internal root.  "ok"      *)
(* turns FALSE when an assert of the code fails.                           *)
(***************************************************************************)
EXTENDS Integers, SequencesExt

CONSTANT NodeValues      \* kNodeValues

ASSUME AtLeastThree == NodeValues \in Nat /\ NodeValues >= 3

MinNodeValues == NodeValues \div 2
NULL == 0

EmptyTree == [root |-> NULL, rightmost |-> NULL, size |-> 0, mem |-> <<>>, ok |-> TRUE]
At(node, position) == [node |-> node, position |-> position]

Count(t, x) == Len(t.mem[x].values)
Room(t, x) == t.mem[x].max_count - Count(t, x)
Value(t, x, i) == t.mem[x].values[i + 1]
Child(t, x, i) == t.mem[x].children[i + 1]
IsLeaf(t, x) == t.mem[x].leaf
IsRoot(t, x) == IsLeaf(t, t.mem[x].parent)

Checked(t, assertion) == [t EXCEPT !.ok = @ /\ assertion]

(***************************************************************************)
(* Nodes come from the lowest free address and go back when deleted.  A    *)
(* root is its own parent while it is a leaf; an internal root has the     *)
(* leftmost leaf as its parent.                                            *)
(***************************************************************************)
Fresh(t) == CHOOSE i \in 1 .. Cardinality(DOMAIN t.mem) + 1 : i \notin DOMAIN t.mem

Allocate(t, leaf, parent, max_count) ==
  [t EXCEPT !.mem = [x \in DOMAIN t.mem \cup {Fresh(t)} |->
     IF x \in DOMAIN t.mem THEN t.mem[x]
     ELSE [leaf |-> leaf, position |-> 0, parent |-> parent, max_count |-> max_count,
           values |-> <<>>, children |-> <<>>]]]

NewLeafRoot(t, max_count) == Allocate(t, TRUE, Fresh(t), max_count)

NewInternalRoot(t) ==
  [Allocate(t, FALSE, t.mem[t.root].parent, NodeValues)
     EXCEPT !.rightmost = t.mem[t.root].parent,
            !.size = Count(t, t.mem[t.root].parent)]

Delete(t, x) == [t EXCEPT !.mem = Restrict(@, DOMAIN @ \ {x})]

IndexIn(s, e) == CHOOSE i \in DOMAIN s : s[i] = e

\* The children of x from place "from" on become cs, by set_child or, where the
\* parent stays, by set_position.  A place may be NULL until it is filled.
SetChildren(t, x, from, cs) ==
  [t EXCEPT !.mem =
     [y \in DOMAIN t.mem |->
        CASE y = x -> [t.mem[x] EXCEPT !.children = SubSeq(@, 1, from) \o cs]
          [] y # x /\ Contains(cs, y) ->
               [t.mem[y] EXCEPT !.parent = x,
                                !.position = from + IndexIn(cs, y) - 1]
          [] OTHER -> t.mem[y]]]

InsertValue(t, x, i, v) ==
  LET n  == t.mem[x]
      t1 == Checked([t EXCEPT !.mem[x].values = InsertAt(@, i + 1, v)], i <= Len(n.values))
  IN  IF n.leaf THEN t1
      ELSE SetChildren(t1, x, i + 1, <<NULL>> \o SubSeq(n.children, i + 2, Len(n.children)))

RemoveValue(t, x, i) ==
  LET n  == t.mem[x]
      t1 == [t EXCEPT !.mem[x].values = RemoveAt(@, i + 1)]
  IN  IF n.leaf THEN t1
      ELSE SetChildren(Checked(t1, Count(t, Child(t, x, i + 1)) = 0),
                       x, i + 1, SubSeq(n.children, i + 3, Len(n.children)))

AreSiblings(t, left, right) ==
  /\ t.mem[left].parent = t.mem[right].parent
  /\ t.mem[left].position + 1 = t.mem[right].position

(***************************************************************************)
(* btree_node: values move between siblings through the value of the       *)
(* parent that delimits them.                                              *)
(***************************************************************************)
RebalanceRightToLeft(t, left, right, n) ==
  LET l  == t.mem[left]
      r  == t.mem[right]
      p  == l.parent
      d  == l.position + 1
      t1 == [Checked(t, /\ AreSiblings(t, left, right)
                        /\ Len(r.values) >= Len(l.values)
                        /\ n \in 1 .. Len(r.values))
               EXCEPT !.mem[left].values = @ \o <<t.mem[p].values[d]>> \o SubSeq(r.values, 1, n - 1),
                      !.mem[p].values[d] = r.values[n],
                      !.mem[right].values = SubSeq(@, n + 1, Len(@))]
  IN  IF l.leaf THEN t1
      ELSE SetChildren(SetChildren(t1, left, Len(l.values) + 1, SubSeq(r.children, 1, n)),
                       right, 0, SubSeq(r.children, n + 1, Len(r.children)))

RebalanceLeftToRight(t, left, right, n) ==
  LET l  == t.mem[left]
      r  == t.mem[right]
      p  == l.parent
      d  == l.position + 1
      k  == Len(l.values) - n
      t1 == [Checked(t, /\ AreSiblings(t, left, right)
                        /\ Len(l.values) >= Len(r.values)
                        /\ n \in 1 .. Len(l.values))
               EXCEPT !.mem[right].values = SubSeq(l.values, k + 2, Len(l.values))
                                              \o <<t.mem[p].values[d]>> \o @,
                      !.mem[p].values[d] = l.values[k + 1],
                      !.mem[left].values = SubSeq(@, 1, k)]
  IN  IF l.leaf THEN t1
      ELSE SetChildren([t1 EXCEPT !.mem[left].children = SubSeq(@, 1, k + 1)],
                       right, 0, SubSeq(l.children, k + 2, Len(l.children)) \o r.children)

\* The split leaves room where a value is to be inserted: at either end of n, there.
RightShare(n, insert_position) ==
  CASE insert_position = 0 -> Len(n.values) - 1
    [] insert_position = n.max_count /\ insert_position # 0 -> 0
    [] OTHER -> Len(n.values) \div 2

CutInTwo(t, x, dest, k) ==
  Checked([t EXCEPT !.mem[dest].values = SubSeq(t.mem[x].values, k + 2, Len(t.mem[x].values)),
                    !.mem[x].values = SubSeq(@, 1, k)],
          Count(t, dest) = 0 /\ k >= 0)

HungBehind(t, n, dest) ==
  [t EXCEPT !.mem[n.parent].children[n.position + 2] = dest,
            !.mem[dest].parent = n.parent,
            !.mem[dest].position = n.position + 1]

\* The greatest value that stays left moves up to the parent.
Split(t, x, dest, insert_position) ==
  LET n  == t.mem[x]
      k  == Len(n.values) - RightShare(n, insert_position) - 1
      t1 == InsertValue(CutInTwo(t, x, dest, k), n.parent, n.position, n.values[k + 1])
      t2 == HungBehind(t1, n, dest)
  IN  IF n.leaf THEN t2
      ELSE SetChildren([t2 EXCEPT !.mem[x].children = SubSeq(@, 1, k + 1)],
                       dest, 0, SubSeq(n.children, k + 2, Len(n.values) + 1))

Merge(t, left, right) ==
  LET l  == t.mem[left]
      r  == t.mem[right]
      t1 == [Checked(t, AreSiblings(t, left, right))
               EXCEPT !.mem[left].values = @ \o <<Value(t, l.parent, l.position)>> \o r.values,
                      !.mem[right].values = <<>>]
      t2 == IF l.leaf THEN t1
            ELSE SetChildren([t1 EXCEPT !.mem[right].children = <<>>],
                             left, Len(l.values) + 1, r.children)
  IN  RemoveValue(t2, l.parent, l.position)

\* Only the parents of the children change: they keep their places.
SwapNodes(t, x, y) ==
  LET mem == [t.mem EXCEPT ![x].values = t.mem[y].values, ![x].children = t.mem[y].children,
                           ![y].values = t.mem[x].values, ![y].children = t.mem[x].children]
  IN  [Checked(t, t.mem[x].leaf = t.mem[y].leaf) EXCEPT !.mem =
         [z \in DOMAIN mem |->
            CASE Contains(mem[x].children, z) -> [mem[z] EXCEPT !.parent = x]
              [] ~Contains(mem[x].children, z) /\ Contains(mem[y].children, z) ->
                   [mem[z] EXCEPT !.parent = y]
              [] OTHER -> mem[z]]]

(***************************************************************************)
(* btree_iterator and the searches.  internal_last leaves a node whose     *)
(* values are used up for the place behind it in its parent; above the     *)
(* root there is the leftmost leaf.                                        *)
(***************************************************************************)
LowerBound(t, x, k) ==
  CHOOSE i \in 0 .. Count(t, x) :
    /\ \A j \in 0 .. i - 1 : Value(t, x, j) < k
    /\ i = Count(t, x) \/ Value(t, x, i) >= k

LocateFrom(t, x, k) ==
  LET locate[y \in DOMAIN t.mem] ==
        LET i == LowerBound(t, y, k)
        IN  IF IsLeaf(t, y) THEN At(y, i) ELSE locate[Child(t, y, i)]
  IN  locate[x]

\* Bug: only the leaf is left, not the nodes above it.
LastOneLevel(t, iter) ==
  LET n == t.mem[iter.node]
  IN  IF iter.position < Len(n.values) THEN iter
      ELSE At(IF IsLeaf(t, n.parent) \/ n.position = Count(t, n.parent) THEN NULL ELSE n.parent,
              n.position)

InternalLast(t, iter) ==
  LET behind[y \in DOMAIN t.mem] ==
        LET up == At(t.mem[y].parent, t.mem[y].position)
        IN  IF IsLeaf(t, up.node) THEN [up EXCEPT !.node = NULL]
            ELSE IF up.position < Count(t, up.node) THEN up ELSE behind[up.node]
  IN  IF iter.position < Count(t, iter.node) THEN iter ELSE behind[iter.node]

Leftmost(t) == IF t.root = NULL THEN NULL ELSE t.mem[t.root].parent
Rightmost(t) == IF t.root = NULL \/ IsLeaf(t, t.root) THEN t.root ELSE t.rightmost
Size(t) == CASE t.root = NULL -> 0
             [] t.root # NULL /\ IsLeaf(t, t.root) -> Count(t, t.root)
             [] OTHER -> t.size
Begin(t) == At(Leftmost(t), 0)
End(t) == At(Rightmost(t), IF Rightmost(t) = NULL THEN 0 ELSE Count(t, Rightmost(t)))

FindClosest(t, k) ==
  LET iter == IF t.root = NULL THEN At(NULL, 0) ELSE InternalLast(t, LocateFrom(t, t.root, k))
  IN  IF iter.node = NULL THEN End(t) ELSE iter

FindUnique(t, k) ==
  LET iter == FindClosest(t, k)
  IN  IF iter = End(t) \/ Value(t, iter.node, iter.position) # k THEN End(t) ELSE iter

FirstLeaf(t, x) ==
  LET first[y \in DOMAIN t.mem] == IF IsLeaf(t, y) THEN y ELSE first[Child(t, y, 0)]
  IN  first[x]

LastLeaf(t, x) ==
  LET last[y \in DOMAIN t.mem] == IF IsLeaf(t, y) THEN y ELSE last[Child(t, y, Count(t, y))]
  IN  last[x]

Climb(t, iter) ==
  LET behind[y \in DOMAIN t.mem] ==
        LET up == At(t.mem[y].parent, t.mem[y].position)
        IN  IF IsRoot(t, y) THEN At(y, Count(t, y))
            ELSE IF up.position < Count(t, up.node) THEN up ELSE behind[up.node]
  IN  IF iter.position < Count(t, iter.node) THEN iter ELSE behind[iter.node]

\* The end is behind the last value of the rightmost leaf, not of the root.
Increment(t, iter) ==
  IF ~IsLeaf(t, iter.node) THEN At(FirstLeaf(t, Child(t, iter.node, iter.position + 1)), 0)
  ELSE LET next == [iter EXCEPT !.position = @ + 1]
           up   == Climb(t, next)
       IN  IF up.position = Count(t, up.node) THEN next ELSE up

Decrement(t, iter) ==
  LET leaf == LastLeaf(t, Child(t, iter.node, iter.position))
  IN  At(leaf, Count(t, leaf) - 1)

\* btree_find_n, and btree_forall_keys from the start: the values from iter on.
ScanFrom(t, iter, n) ==
  LET places == [node : DOMAIN t.mem \cup {NULL}, position : 0 .. NodeValues]
      scan[at \in places, i \in 0 .. n] ==
        IF at = End(t) \/ i = 0 THEN <<>>
        ELSE <<Value(t, at.node, at.position)>> \o scan[Increment(t, at), i - 1]
  IN  scan[iter, n]

(***************************************************************************)
(* Insertion.  A full node gives values to a sibling or is split, for      *)
(* which its parent must have room; the result is the tree with the node   *)
(* and the position at which there is room now.                            *)
(***************************************************************************)
Landed(t, node, position) == [tree |-> t, iter |-> At(node, position)]

\* Behind the values that stayed in x, the place is in the node to its right.
BesideOf(t, x, right, position) ==
  IF position > Count(t, x) THEN Landed(t, right, position - Count(t, x) - 1)
  ELSE Landed(t, x, position)

SplitNode(t, x, parent, position) ==
  LET right == Fresh(t)
      t1 == Split(Allocate(t, IsLeaf(t, x), parent, NodeValues), x, right, position)
      t2 == IF IsLeaf(t, x) /\ t.rightmost = x THEN [t1 EXCEPT !.rightmost = right] ELSE t1
  IN  BesideOf(t2, x, right, position)

\* A leaf root gets a new root above it; an internal root stays, and its values
\* and children move to a new node below it, which is split.
SplitRoot(t, position) ==
  LET new == Fresh(t)
      old == t.root
  IN  IF IsLeaf(t, old)
      THEN SplitNode([SetChildren(NewInternalRoot(t), new, 0, <<old>>) EXCEPT !.root = new],
                     old, new, position)
      ELSE LET t1 == Allocate(t, FALSE, t.mem[old].parent, NodeValues)
               t2 == [t1 EXCEPT !.mem[new].children = <<new>>, !.mem[new].parent = new]
           IN  SplitNode(SwapNodes(t2, new, old), new, new, position)

\* The number of values to give: all there is room for when the new value comes
\* at the end that is turned to the sibling, otherwise half.
Share(room, all) == Max({1, IF all THEN room ELSE room \div 2})

\* Bug: values are given although the sibling is full afterwards.
RightTakesAlways(t, x, right, position) == Room(t, right) > 0

LeftTakes(t, x, left, position) ==
  LET n == Share(Room(t, left), position >= t.mem[left].max_count)
  IN  Room(t, left) > 0 /\ (position - n >= 0 \/ n < Room(t, left))

RightTakes(t, x, right, position) ==
  LET n == Share(Room(t, right), position <= 0)
  IN  Room(t, right) > 0 /\ (position <= Count(t, x) - n \/ n < Room(t, right))

\* Bug: the value that delimits the siblings is not counted.
GiveLeftOffByOne(t, x, left, position) ==
  LET n  == Share(Room(t, left), position >= t.mem[left].max_count)
      t1 == RebalanceRightToLeft(t, left, x, n)
  IN  IF position < n THEN Landed(t1, left, position - n + Count(t1, left))
                      ELSE Landed(t1, x, position - n)

GiveLeft(t, x, left, position) ==
  LET n  == Share(Room(t, left), position >= t.mem[left].max_count)
      t1 == RebalanceRightToLeft(t, left, x, n)
      l  == IF position < n THEN Landed(t1, left, position - n + Count(t1, left) + 1)
                            ELSE Landed(t1, x, position - n)
  IN  [l EXCEPT !.tree = Checked(@, Room(t1, x) = n /\ Room(t1, l.iter.node) > 0)]

GiveRight(t, x, right, position) ==
  LET n == Share(Room(t, right), position <= 0)
      l == BesideOf(RebalanceLeftToRight(t, x, right, n), x, right, position)
  IN  [l EXCEPT !.tree = Checked(@, Room(@, l.iter.node) > 0)]

\* "roomy" is the tree in which the parent of x has room.
RebalanceOrSplitIn(t, roomy, x, position) ==
  LET parent  == t.mem[x].parent
      d       == t.mem[x].position
      left    == Child(t, parent, d - 1)
      right   == Child(t, parent, d + 1)
      toLeft  == d > 0 /\ LeftTakes(t, x, left, position)
      toRight == d < Count(t, parent) /\ RightTakes(t, x, right, position)
      Full(u) == Checked(u, Room(t, x) = 0)
  IN  CASE x = t.root -> SplitRoot(Full(t), position)
        [] x # t.root /\ toLeft -> GiveLeft(Full(t), x, left, position)
        [] x # t.root /\ ~toLeft /\ toRight -> GiveRight(Full(t), x, right, position)
        [] OTHER -> SplitNode(Full(roomy), x, parent, position)

RebalanceOrSplit(t, x, position) ==
  LET roomy[y \in DOMAIN t.mem] ==
        LET up == At(t.mem[y].parent, t.mem[y].position)
        IN  IF y = t.root \/ Room(t, up.node) > 0 THEN t
            ELSE RebalanceOrSplitIn(t, roomy[up.node], up.node, up.position).tree
  IN  RebalanceOrSplitIn(t, roomy[x], x, position)

\* A leaf root starts with room for one value and doubles until it is a full node.
GrowRoot(t) ==
  LET new == Fresh(t)
      max == Min({NodeValues, 2 * t.mem[t.root].max_count})
  IN  [Delete(SwapNodes(NewLeafRoot(t, max), new, t.root), t.root) EXCEPT !.root = new]

MakeRoom(t, iter) ==
  LET l == RebalanceOrSplit(t, iter.node, iter.position)
  IN  [l EXCEPT !.tree.size = @ + 1]

InternalInsert(t, iter, v) ==
  LET x == iter.node
      l == CASE Room(t, x) = 0 /\ t.mem[x].max_count < NodeValues ->
                  LET grown == GrowRoot(Checked(t, x = t.root))
                  IN  Landed(grown, grown.root, iter.position)
             [] Room(t, x) = 0 /\ t.mem[x].max_count >= NodeValues -> MakeRoom(t, iter)
             [] OTHER -> Landed(IF IsLeaf(t, t.root) THEN t ELSE [t EXCEPT !.size = @ + 1],
                                x, iter.position)
  IN  InsertValue(l.tree, l.iter.node, l.iter.position, v)

\* btree_insert: nothing changes when the key is in the map already.
InsertUnique(t, k) ==
  LET t1 == IF t.root = NULL THEN [NewLeafRoot(t, 1) EXCEPT !.root = Fresh(t)] ELSE t
      at == LocateFrom(t1, t1.root, k)
      up == InternalLast(t1, at)
  IN  IF up.node # NULL /\ Value(t1, up.node, up.position) <= k THEN t1
      ELSE InternalInsert(t1, at, k)

(***************************************************************************)
(* Removal.  A node that falls below half its room merges with a sibling   *)
(* or takes values from it, upwards from the leaf; the position, which     *)
(* decides whether values are worth moving, stays that of the leaf.        *)
(***************************************************************************)
\* Bug: the map's last leaf stays a node that is deleted.
MergeNodesKeepsRightmost(t, left, right) == Delete(Merge(t, left, right), right)

MergeNodes(t, left, right) ==
  LET t1 == Merge(t, left, right)
  IN  Delete(IF IsLeaf(t1, right) /\ t1.rightmost = right THEN [t1 EXCEPT !.rightmost = left]
                                                         ELSE t1,
             right)

Unmerged(t, iter) == [tree |-> t, iter |-> iter, merged |-> FALSE]
Merged(t, iter) == [tree |-> t, iter |-> iter, merged |-> TRUE]

Joins(t, x, y) == 1 + Count(t, x) + Count(t, y) <= t.mem[x].max_count

\* The node may be left as it is when it was the first (the last) of its values
\* that went: values are often removed from the front or the back.
TryMergeOrRebalance(t, iter) ==
  LET x        == iter.node
      parent   == t.mem[x].parent
      d        == t.mem[x].position
      left     == Child(t, parent, d - 1)
      right    == Child(t, parent, d + 1)
      hasLeft  == d > 0
      hasRight == d < Count(t, parent)
      Spare(y) == Min({(Count(t, y) - Count(t, x)) \div 2, Count(t, y) - 1})
      fitsLeft  == hasLeft /\ Joins(t, left, x)
      fitsRight == hasRight /\ Joins(t, right, x)
      takeRight == /\ hasRight /\ Count(t, right) > MinNodeValues
                   /\ Count(t, x) = 0 \/ iter.position > 0
      takeLeft  == /\ hasLeft /\ Count(t, left) > MinNodeValues
                   /\ Count(t, x) = 0 \/ iter.position < Count(t, x)
  IN  CASE fitsLeft -> Merged(MergeNodes(t, left, x),
                              At(left, iter.position + 1 + Count(t, left)))
        [] ~fitsLeft /\ fitsRight -> Merged(MergeNodes(t, x, right), iter)
        [] ~fitsLeft /\ ~fitsRight /\ takeRight ->
             Unmerged(RebalanceRightToLeft(t, x, right, Spare(right)), iter)
        [] ~fitsLeft /\ ~fitsRight /\ ~takeRight /\ takeLeft ->
             Unmerged(RebalanceLeftToRight(t, left, x, Spare(left)),
                      At(x, iter.position + Spare(left)))
        [] OTHER -> Unmerged(t, iter)

TryShrink(t) ==
  IF Count(t, t.root) > 0 THEN t
  ELSE IF IsLeaf(t, t.root) THEN [Delete(Checked(t, Size(t) = 0), t.root) EXCEPT !.root = NULL]
  ELSE LET child == Child(t, t.root, 0)
       IN  IF IsLeaf(t, child)
           THEN [Delete(Checked(t, IsRoot(t, t.mem[child].parent)), t.root)
                   EXCEPT !.root = child, !.rightmost = NULL, !.size = 0,
                          !.mem[child].parent = t.mem[t.root].parent]
           ELSE Delete(SwapNodes(t, child, t.root), child)

\* One round of the loop that walks up.
MergeOnce(s) ==
  LET m == TryMergeOrRebalance(s.tree, s.iter)
  IN  CASE s.iter.node = s.tree.root -> Unmerged(TryShrink(s.tree), s.iter)
        [] s.iter.node # s.tree.root /\ Count(s.tree, s.iter.node) >= MinNodeValues ->
             Unmerged(s.tree, s.iter)
        [] OTHER -> IF m.merged THEN [m EXCEPT !.iter.node = m.tree.mem[@].parent] ELSE m

\* The walk ends at the root at the latest.
MergeUpwards(t, iter) ==
  LET after[n \in 0 .. Cardinality(DOMAIN t.mem)] ==
        IF n = 0 THEN Merged(t, iter)
        ELSE LET s == after[n - 1] IN IF s.merged THEN MergeOnce(s) ELSE s
  IN  after[Cardinality(DOMAIN t.mem)].tree

\* A value of an internal node is exchanged with the one before it, in a leaf.
Erase(t, iter) ==
  LET x    == iter.node
      leaf == IF IsLeaf(t, x) THEN iter ELSE Decrement(t, iter)
      v    == Value(t, leaf.node, leaf.position)
      t1   == IF IsLeaf(t, x) THEN t
              ELSE [Checked(t, Value(t, x, iter.position) >= v)
                      EXCEPT !.mem[x].values[iter.position + 1] = v]
      t2   == IF IsLeaf(t, t.root) THEN t1 ELSE [t1 EXCEPT !.size = @ - 1]
  IN  MergeUpwards(RemoveValue(t2, leaf.node, leaf.position), leaf)

\* btree_delete: nothing changes when the key is not in the map.
EraseUnique(t, k) ==
  LET iter == FindUnique(t, k)
  IN  IF iter = End(t) THEN t ELSE Erase(t, iter)

\* btree_free: all nodes that hang below the root go, and the root.
Below(t, x) ==
  LET below[y \in DOMAIN t.mem] ==
        {y} \cup UNION {below[c] : c \in ToSet(t.mem[y].children)}
  IN  below[x]

ClearFrom(t, x) == [t EXCEPT !.mem = Restrict(@, DOMAIN @ \ Below(t, x))]

Clear(t) == IF t.root = NULL THEN t ELSE [ClearFrom(t, t.root) EXCEPT !.root = NULL]
=============================================================================
