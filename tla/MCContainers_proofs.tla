------------------------ MODULE MCContainers_proofs -------------------------
(***************************************************************************)
(* The two ordered containers, for any number of items, keys and values of *)
(* a node.                                                                 *)
(*                                                                         *)
(* The heap: whatever operations follow each other, no item is lost or     *)
(* doubled, and making a heap brings a greatest item to the top.           *)
(*                                                                         *)
(* The map: the four operations that move values between nodes (merge,     *)
(* rebalance to either side, split) keep it a search tree.  The argument is*)
(* the same for all of them.  Each is first shown to do to the nodes what  *)
(* StructureLemmas says of a move: two siblings and the value of the parent*)
(* between them are joined (Joined), shared out anew (Shared) or cut in two*)
(* (Spliced).  A joined tree is sound when the tree was, with the bounds of*)
(* the two nodes united (JoinSound); a split is the way back (SplitSound); *)
(* and a rebalancing is a join and a split, because what is joined from the*)
(* nodes before it and after it is one and the same tree.                  *)
(*                                                                         *)
(* What is built from the four follows by counting: a node that is too     *)
(* empty merges or takes values, and a full one gives values away or is    *)
(* split, always within the room of the nodes they move to.                *)
(*                                                                         *)
(* A look-up goes down by the bounds of the nodes to the leaf the key lies *)
(* in, and up to the first place that is behind all of that leaf; what the *)
(* tree holds beside the leaf is smaller or greater than all in it.        *)
(***************************************************************************)
EXTENDS MCContainers, StructureLemmas

LEMMA IndexIs ==
  ASSUME NEW cs \in Seq(Nat), Distinct(cs), NEW i \in 1 .. Len(cs)
  PROVE  IndexIn(cs, cs[i]) = i
<1>1. DOMAIN cs = 1 .. Len(cs)
  BY LenProperties
<1> QED BY <1>1 DEF IndexIn, Distinct

LEMMA SetChildrenIs ==
  ASSUME NEW t, Treelike(t), TreeNodes(t.mem), NEW x \in DOMAIN t.mem,
         NEW from \in Nat, from <= Len(t.mem[x].children),
         NEW cs \in Seq(Nat), Distinct(cs), ~Occurs(cs, x)
  PROVE  /\ SameFields(t, SetChildren(t, x, from, cs))
         /\ SetChildren(t, x, from, cs).ok = t.ok
         /\ Placed(t.mem, SetChildren(t, x, from, cs).mem, x, from, cs)
<1>1. PICK m, n : m = t.mem /\ n = SetChildren(t, x, from, cs).mem
  OBVIOUS
<1>2. \A y : Contains(cs, y) <=> Occurs(cs, y)
  BY ContainsAll, Zenon
<1>3. n = [y \in DOMAIN m |->
            CASE y = x -> [m[x] EXCEPT !.children = SubSeq(@, 1, from) \o cs]
              [] y # x /\ Contains(cs, y) ->
                   [m[y] EXCEPT !.parent = x, !.position = from + IndexIn(cs, y) - 1]
              [] OTHER -> m[y]]
  BY <1>1 DEF SetChildren, Treelike
<1>4. /\ SameFields(t, SetChildren(t, x, from, cs))
      /\ SetChildren(t, x, from, cs).ok = t.ok
  <2>1. SetChildren(t, x, from, cs) = [t EXCEPT !.mem = n] /\ DOMAIN n = DOMAIN m
    BY <1>1, <1>3, Zenon DEF SetChildren, Treelike
  <2> QED BY <1>1, <2>1, Zenon DEF SameFields, Treelike
<1>5. PICK f : f = SubSeq(m[x].children, 1, from) \o cs
  BY Zenon
<1>6. m \in [DOMAIN m -> Node] /\ x \in DOMAIN m /\ m[x] \in Node /\ m[x].children \in Seq(Nat)
  <2>1. m[x] \in Node
    BY <1>1 DEF TreeNodes
  <2> QED BY <1>1, <2>1 DEF TreeNodes, Node
<1>7. /\ f \in Seq(Nat) /\ Len(f) = from + Len(cs)
      /\ \A i \in 1 .. from : f[i] = m[x].children[i]
      /\ \A i \in 1 .. Len(cs) : f[from + i] = cs[i]
  <2>1. PICK e : e = SubSeq(m[x].children, 1, from)
    OBVIOUS
  <2>2. e \in Seq(Nat) /\ Len(e) = from /\ \A i \in 1 .. from : e[i] = m[x].children[i]
    <3>0. m[x].children \in Seq(Nat) /\ from \in Nat /\ from <= Len(m[x].children)
      BY <1>1, <1>6, Zenon
    <3>1. PartsIn(Nat, m[x].children, from)
      BY <3>0, PartsNat
    <3> QED BY <2>1, <3>1 DEF PartsIn, Fore
  <2> QED BY <1>5, <2>1, <2>2, ConcatProperties
<1>8. /\ n[x] = [m[x] EXCEPT !.children = f]
      /\ \A y \in DOMAIN m : y # x /\ Occurs(cs, y) =>
           n[y] = [m[y] EXCEPT !.parent = x, !.position = from + IndexIn(cs, y) - 1]
      /\ \A y \in DOMAIN m : y # x /\ ~Occurs(cs, y) => n[y] = m[y]
  BY <1>2, <1>3, <1>5, <1>6
<1>9. ASSUME NEW i \in 1 .. Len(cs), cs[i] \in DOMAIN m
      PROVE  /\ n[cs[i]] = [m[cs[i]] EXCEPT !.parent = x, !.position = from + i - 1]
             /\ cs[i] # x /\ from + i - 1 \in Nat
  <2>1. Occurs(cs, cs[i]) /\ cs[i] # x
    BY DEF Occurs
  <2>2. IndexIn(cs, cs[i]) = i
    BY IndexIs
  <2>3. from + i - 1 \in Nat
    OBVIOUS
  <2>4. n[cs[i]] = [m[cs[i]] EXCEPT !.parent = x, !.position = from + IndexIn(cs, cs[i]) - 1]
    BY <1>8, <1>9, <2>1
  <2> QED BY <2>1, <2>2, <2>3, <2>4
<1>10. \A y \in DOMAIN m : y = x \/ (y # x /\ ~Occurs(cs, y)) \/ \E i \in 1 .. Len(cs) : cs[i] = y
  BY DEF Occurs
<1>11. n[x] \in Node /\ SameLink(m[x], n[x]) /\ n[x].children = f /\ m[x].leaf = n[x].leaf
       /\ m[x].values = n[x].values /\ m[x].max_count = n[x].max_count
  BY <1>6, <1>7, <1>8, Zenon DEF Node, SameLink
<1>12. ASSUME NEW i \in 1 .. Len(cs), cs[i] \in DOMAIN m
       PROVE  /\ n[cs[i]] \in Node /\ SameBody(m[cs[i]], n[cs[i]])
              /\ n[cs[i]].parent = x /\ n[cs[i]].position = from + i - 1
  <2>1. m[cs[i]] \in Node /\ x \in Nat
    BY <1>1, <1>6, <1>12 DEF TreeNodes
  <2> QED BY <1>9, <1>12, <2>1 DEF Node, SameBody
<1>13. ASSUME NEW y \in DOMAIN m, y # x, ~Occurs(cs, y)
       PROVE  n[y] \in Node /\ SameBody(m[y], n[y]) /\ SameLink(m[y], n[y])
  <2>1. n[y] = m[y] /\ m[y] \in Node
    BY <1>6, <1>8, <1>13, Zenon
  <2> QED BY <2>1 DEF SameBody, SameLink
<1>14. DOMAIN n = DOMAIN m
  BY <1>3
<1>15. TreeNodes(n)
  <2>1. \A y \in DOMAIN m : n[y] \in Node
    BY <1>10, <1>11, <1>12, <1>13, Zenon
  <2>2. n = [y \in DOMAIN m |-> n[y]]
    BY <1>3
  <2>3. n \in [DOMAIN m -> Node]
    BY <2>1, <2>2
  <2>4. TreeNodes(m)
    BY <1>1, Zenon
  <2> QED BY <1>14, <2>3, <2>4, Zenon DEF TreeNodes
<1>16. \A y \in DOMAIN m : y # x => SameBody(m[y], n[y])
  BY <1>10, <1>12, <1>13
<1>17. \A y \in DOMAIN m : ~Occurs(cs, y) => SameLink(m[y], n[y])
  BY <1>11, <1>13
<1>18. Placed(m, n, x, from, cs)
  BY <1>7, <1>11, <1>12, <1>14, <1>15, <1>16, <1>17 DEF Placed
<1> QED BY <1>1, <1>4, <1>18

LEMMA RemoveInner ==
  ASSUME NEW t, Treelike(t), TreeNodes(t.mem), NEW p \in DOMAIN t.mem, ~t.mem[p].leaf,
         Len(t.mem[p].children) = Len(t.mem[p].values) + 1,
         Distinct(t.mem[p].children), ~Occurs(t.mem[p].children, p),
         \A j \in 1 .. Len(t.mem[p].children) : t.mem[p].children[j] \in DOMAIN t.mem,
         NEW i \in Nat, i < Len(t.mem[p].values),
         Len(t.mem[t.mem[p].children[i + 2]].values) = 0
  PROVE  /\ SameFields(t, RemoveValue(t, p, i)) /\ RemoveValue(t, p, i).ok = t.ok
         /\ ValueRemoved(t.mem, RemoveValue(t, p, i).mem, p, i)
<1>1. PICK m, f, cp, g, cs, e :
        /\ m = t.mem /\ f = m[p].values /\ cp = m[p].children /\ g = RemoveAt(f, i + 1)
        /\ cs = SubSeq(cp, i + 3, Len(cp)) /\ e = i + 1
  OBVIOUS
<1>2. /\ m[p] \in Node /\ f \in Seq(Int) /\ cp \in Seq(Nat) /\ Len(f) \in Nat
      /\ Len(cp) = Len(f) + 1 /\ i + 1 \in 1 .. Len(f) /\ e \in 1 .. Len(f)
  <2>1. m[p] \in Node
    BY <1>1 DEF TreeNodes
  <2>2. f \in Seq(Int) /\ cp \in Seq(Nat)
    BY <1>1, <2>1 DEF Node
  <2>3. Len(f) \in Nat
    BY <2>2, LenProperties, Zenon
  <2> QED BY <1>1, <2>1, <2>2, <2>3
<1>0. i \in Nat /\ e = i + 1 /\ Len(f) \in Nat /\ Len(cp) = Len(f) + 1 /\ i + 1 <= Len(f) /\ Len(cp) \in Nat
  BY <1>1, <1>2
<1>3. /\ g \in Seq(Int) /\ IsWithout(g, f, i + 1)
  <2>1. RemoveAt(f, i + 1) = g /\ i + 1 \in 1 .. Len(f)
    BY <1>1, <1>2
  <2>2. PICK k : k = i + 1
    OBVIOUS
  <2>3. /\ g \in Seq(Int) /\ Len(g) = Len(f) - 1
        /\ \A j \in 1 .. k - 1 : g[j] = f[j]
        /\ \A j \in k .. Len(f) - 1 : g[j] = f[j + 1]
    BY <1>2, <2>1, <2>2, RemovedAt
  <2> QED BY <2>1, <2>2, <2>3 DEF IsWithout
<1>4. /\ cs \in Seq(Nat) /\ Len(cs) = Len(cp) - i - 2
      /\ \A j \in 1 .. Len(cp) - i - 2 : cs[j] = cp[i + 2 + j]
  <2>1. PICK k, c : k = i + 2 /\ c = Rest(cp, k + 1)
    OBVIOUS
  <2>2. k \in Nat /\ k <= Len(cp) /\ k + 1 = i + 3 /\ Len(cp) - k = Len(cp) - i - 2
    BY <1>0, <2>1
  <2>3. cs = c
    BY <1>1, <2>1, <2>2 DEF Rest
  <2>4. PartsIn(Nat, cp, k)
    BY <1>2, <2>2, PartsNat
  <2>5. c \in Seq(Nat) /\ Len(c) = Len(cp) - k /\ \A j \in 1 .. Len(cp) - k : c[j] = cp[k + j]
    BY <2>1, <2>4 DEF PartsIn
  <2> QED BY <2>1, <2>2, <2>3, <2>5
<1>5. PICK t1 : t1 = [t EXCEPT !.mem[p].values = RemoveAt(@, i + 1)]
  OBVIOUS
<1>6. t1 = [t EXCEPT !.mem = [m EXCEPT ![p].values = g]]
  BY <1>1, <1>5 DEF Treelike
<1>7. Revalued(m, [m EXCEPT ![p].values = g], p, g)
  BY <1>1, <1>3, RevaluedIs
<1>8. /\ SameFields(t, t1) /\ t1.ok = t.ok /\ t1.mem = [m EXCEPT ![p].values = g]
      /\ t.mem = m
  BY <1>1, <1>6, <1>7 DEF SameFields, Treelike, Revalued
<1>9. PICK m1 : m1 = t1.mem
  OBVIOUS
<1>10. Revalued(m, m1, p, g) /\ DOMAIN m1 = DOMAIN m /\ TreeNodes(m1)
  BY <1>7, <1>8, <1>9, Zenon DEF Revalued
<1>11. /\ m1[p].leaf = m[p].leaf /\ m1[p].max_count = m[p].max_count /\ m1[p].children = cp
       /\ m1[p].values = g /\ SameLink(m[p], m1[p])
  BY <1>1, <1>2, <1>10 DEF Revalued, Node, SameLink
<1>12. PICK t2 : t2 = Checked(t1, Count(t, Child(t, p, i + 1)) = 0)
  OBVIOUS
<1>13. Count(t, Child(t, p, i + 1)) = 0
  <2>1. i + 1 + 1 = i + 2
    OBVIOUS
  <2> QED BY <2>1 DEF Count, Child
<1>14. SameFields(t, t2) /\ t2.ok = t.ok /\ t2.mem = m1 /\ Treelike(t2)
  <2>1. t1.ok \in BOOLEAN
    BY <1>8 DEF SameFields, Treelike
  <2> QED BY <1>8, <1>9, <1>12, <1>13, <2>1 DEF Checked, SameFields, Treelike
<1>15. PICK u : u = SetChildren(t2, p, e, cs)
  BY Zenon
<1>16. RemoveValue(t, p, i) = u
  BY <1>1, <1>5, <1>12, <1>15 DEF RemoveValue
<1>17. Distinct(cs) /\ ~Occurs(cs, p)
  <2>1. \A j \in 1 .. Len(cs) : i + 2 + j \in 1 .. Len(cp)
    BY <1>2, <1>4
  <2>2. Distinct(cs)
    <3> SUFFICES ASSUME NEW j \in 1 .. Len(cs), NEW k \in 1 .. Len(cs), cs[j] = cs[k]
                 PROVE  j = k
      BY DEF Distinct
    <3>1. cp[i + 2 + j] = cp[i + 2 + k]
      BY <1>4, Zenon
    <3>2. i + 2 + j = i + 2 + k
      BY <1>1, <2>1, <3>1 DEF Distinct
    <3> QED BY <3>2
  <2>3. ~Occurs(cs, p)
    <3> SUFFICES ASSUME NEW j \in 1 .. Len(cs), cs[j] = p PROVE FALSE
      BY DEF Occurs
    <3> QED BY <1>1, <1>4, <2>1 DEF Occurs
  <2> QED BY <2>2, <2>3
<1>18. /\ SameFields(t2, u) /\ u.ok = t2.ok /\ Placed(m1, u.mem, p, e, cs)
  <2>1. e \in Nat /\ e <= Len(t2.mem[p].children) /\ p \in DOMAIN t2.mem /\ TreeNodes(t2.mem)
    <3>1. t2.mem = m1 /\ m1[p].children = cp /\ TreeNodes(m1) /\ p \in DOMAIN m1
      BY <1>1, <1>10, <1>11, <1>14, Zenon
    <3>2. e \in Nat /\ e <= Len(cp)
      BY <1>0
    <3> QED BY <3>1, <3>2, Zenon
  <2> QED BY <1>4, <1>14, <1>15, <1>17, <2>1, SetChildrenIs, Zenon
<1>19. PICK n : n = u.mem
  OBVIOUS
<1>20. IsWithout(n[p].children, cp, i + 2)
  <2>1. /\ Len(n[p].children) = e + Len(cs)
        /\ \A j \in 1 .. e : n[p].children[j] = m1[p].children[j]
        /\ \A j \in 1 .. Len(cs) : n[p].children[e + j] = cs[j]
    BY <1>18, <1>19 DEF Placed
  <2>2. Len(n[p].children) = Len(cp) - 1 /\ i + 2 \in 1 .. Len(cp)
    BY <1>0, <1>4, <2>1
  <2>3. \A j \in 1 .. i + 2 - 1 : n[p].children[j] = cp[j]
    <3>1. i + 2 - 1 = e /\ \A j \in 1 .. e : m1[p].children[j] = cp[j]
      BY <1>0, <1>11
    <3> QED BY <2>1, <3>1
  <2>4. ASSUME NEW j \in i + 2 .. Len(cp) - 1 PROVE n[p].children[j] = cp[j + 1]
    <3>1. PICK k : k = j - i - 1
      OBVIOUS
    <3>2. k \in 1 .. Len(cp) - i - 2 /\ e + k = j /\ i + 2 + k = j + 1
      BY <1>1, <1>2, <3>1
    <3> QED BY <1>4, <2>1, <3>2
  <2> QED BY <2>2, <2>3, <2>4 DEF IsWithout
<1>21. \A z \in DOMAIN m \ {p} : SameBody(m[z], n[z])
  <2>1. \A z \in DOMAIN m \ {p} : SameBody(m1[z], n[z]) /\ m1[z] = m[z]
    BY <1>10, <1>18, <1>19 DEF Placed, Revalued
  <2> QED BY <2>1
<1>22. ASSUME NEW j \in i + 3 .. Len(cp)
       PROVE  n[cp[j]].parent = p /\ n[cp[j]].position = j - 2
  <2>1. PICK k : k = j - i - 2
    OBVIOUS
  <2>2. k \in 1 .. Len(cs) /\ cs[k] = cp[j] /\ e + k - 1 = j - 2 /\ j \in 1 .. Len(cp)
    <3>1. k \in 1 .. Len(cp) - i - 2 /\ i + 2 + k = j /\ e + k - 1 = j - 2 /\ j \in 1 .. Len(cp)
      BY <1>1, <1>2, <2>1
    <3> QED BY <1>4, <3>1
  <2>3. cs[k] \in DOMAIN m1
    BY <1>1, <1>10, <2>2, Zenon
  <2>4. n[cs[k]].parent = p /\ n[cs[k]].position = e + k - 1
    BY <1>18, <1>19, <2>2, <2>3 DEF Placed
  <2> QED BY <2>2, <2>4
<1>23. ASSUME NEW z \in DOMAIN m, \A j \in i + 3 .. Len(cp) : cp[j] # z
       PROVE  SameLink(m[z], n[z])
  <2>1. ~Occurs(cs, z)
    <3> SUFFICES ASSUME NEW j \in 1 .. Len(cs), cs[j] = z PROVE FALSE
      BY DEF Occurs
    <3>1. i + 2 + j \in i + 3 .. Len(cp) /\ cs[j] = cp[i + 2 + j]
      <4>1. j \in Nat /\ j >= 1 /\ j <= Len(cp) - i - 2
        BY <1>0, <1>4
      <4>2. i + 2 + j \in i + 3 .. Len(cp)
        <5>1. PICK q : q = Len(cp)
          OBVIOUS
        <5>2. q \in Nat /\ j \in Nat /\ i \in Nat /\ j >= 1 /\ j <= q - i - 2
          BY <1>0, <4>1, <5>1
        <5>3. i + 2 + j \in i + 3 .. q
          BY <5>2
        <5> QED BY <5>1, <5>3
      <4> QED BY <1>0, <1>4, <4>1, <4>2
    <3> QED BY <1>23, <3>1
  <2>2. SameLink(m1[z], n[z])
    BY <1>10, <1>18, <1>19, <2>1 DEF Placed
  <2>3. SameLink(m[z], m1[z])
    BY <1>10, <1>11 DEF Revalued, SameLink
  <2> QED BY <2>2, <2>3 DEF SameLink
<1>24. /\ TreeNodes(n) /\ DOMAIN n = DOMAIN m /\ m[p].leaf = n[p].leaf
       /\ m[p].max_count = n[p].max_count /\ IsWithout(n[p].values, f, i + 1)
  BY <1>3, <1>10, <1>11, <1>18, <1>19 DEF Placed
<1>25. ValueRemoved(m, n, p, i)
  BY <1>1, <1>20, <1>21, <1>22, <1>23, <1>24 DEF ValueRemoved
<1>26. SameFields(t, u) /\ u.ok = t.ok
  BY <1>14, <1>18 DEF SameFields
<1> QED BY <1>1, <1>16, <1>19, <1>25, <1>26

LEMMA TakeOverInner ==
  ASSUME NEW t, Treelike(t), TreeNodes(t.mem), NEW m, TreeNodes(m),
         NEW x \in DOMAIN m, NEW y \in DOMAIN m, x # y, NEW w \in Seq(Int),
         t.mem = TakenValues(m, x, y, w),
         Distinct(m[y].children), ~Occurs(m[y].children, x),
         \A i \in 1 .. Len(m[y].children) : m[y].children[i] \in DOMAIN m,
         NEW u, u = SetChildren(Stripped(t, y), x, Len(m[x].children), m[y].children)
  PROVE  SameFields(t, u) /\ u.ok = t.ok /\ TakenOver(m, u.mem, x, y, w)
<1>1. PICK t1, m1, m2, cx, cy, k :
        /\ t1 = [t EXCEPT !.mem[y].children = <<>>] /\ m1 = t.mem /\ m2 = t1.mem
        /\ cx = m[x].children /\ cy = m[y].children /\ k = Len(cx)
  OBVIOUS
<1>2. m[x] \in Node /\ m[y] \in Node
  BY DEF TreeNodes
<1>3. cx \in Seq(Nat) /\ cy \in Seq(Nat) /\ k \in Nat
  <2>1. cx \in Seq(Nat) /\ cy \in Seq(Nat)
    BY <1>1, <1>2 DEF Node
  <2> QED BY <1>1, <2>1, LenProperties
<1>4. /\ DOMAIN m1 = DOMAIN m
      /\ m1[x] = [m[x] EXCEPT !.values = w] /\ m1[y] = [m[y] EXCEPT !.values = <<>>]
      /\ \A z \in DOMAIN m \ {x, y} : m1[z] = m[z]
  BY <1>1 DEF TreeNodes, TakenValues
<1>5. m2 = [m1 EXCEPT ![y].children = <<>>] /\ t1 = [t EXCEPT !.mem = m2]
  BY <1>1 DEF Treelike
<1>6. /\ TreeNodes(m2) /\ DOMAIN m2 = DOMAIN m1 /\ m2[y] = [m1[y] EXCEPT !.children = <<>>]
      /\ \A z \in DOMAIN m1 \ {y} : m2[z] = m1[z]
  <2>1. TreeNodes(m1) /\ y \in DOMAIN m1
    BY <1>1, <1>4
  <2> QED BY <1>5, <2>1, Childless
<1>7. /\ m2[x].leaf = m[x].leaf /\ m2[x].max_count = m[x].max_count /\ m2[x].values = w
      /\ m2[y].leaf = m[y].leaf /\ m2[y].max_count = m[y].max_count /\ m2[y].values = <<>>
      /\ m2[x].children = cx /\ SameLink(m[x], m2[x]) /\ SameLink(m[y], m2[y])
  BY <1>1, <1>2, <1>4, <1>6 DEF Node, SameLink
<1>8. \A z \in DOMAIN m \ {x, y} : m2[z] = m[z]
  BY <1>4, <1>6
<1>9. SameFields(t, t1) /\ t1.ok = t.ok /\ Treelike(t1) /\ t1.mem = m2
  BY <1>1, <1>4, <1>5, <1>6, Zenon DEF Treelike, SameFields
<1>10. SameFields(t1, u) /\ u.ok = t1.ok /\ Placed(m2, u.mem, x, k, cy)
  <2>1. /\ x \in DOMAIN t1.mem /\ k <= Len(t1.mem[x].children) /\ TreeNodes(t1.mem)
        /\ Distinct(cy) /\ ~Occurs(cy, x) /\ u = SetChildren(t1, x, k, cy)
    BY <1>1, <1>3, <1>4, <1>6, <1>7, <1>9 DEF Stripped
  <2>2. x \in DOMAIN t1.mem /\ k \in Nat /\ cy \in Seq(Nat) /\ Treelike(t1)
    BY <1>3, <1>9, <2>1
  <2>3. /\ SameFields(t1, SetChildren(t1, x, k, cy))
        /\ SetChildren(t1, x, k, cy).ok = t1.ok
        /\ Placed(t1.mem, SetChildren(t1, x, k, cy).mem, x, k, cy)
    BY <2>1, <2>2, SetChildrenIs
  <2> QED BY <1>9, <2>1, <2>3
<1>11. PICK n : n = u.mem
  OBVIOUS
<1>12. DOMAIN m2 = DOMAIN m /\ DOMAIN n = DOMAIN m /\ TreeNodes(n)
  BY <1>4, <1>6, <1>10, <1>11 DEF Placed
<1>13. IsConcat(n[x].children, cx, cy)
  <2>1. /\ Len(n[x].children) = k + Len(cy)
        /\ \A i \in 1 .. k : n[x].children[i] = m2[x].children[i]
        /\ \A i \in 1 .. Len(cy) : n[x].children[k + i] = cy[i]
    BY <1>10, <1>11, Zenon DEF Placed
  <2> QED BY <1>1, <1>7, <2>1, Zenon DEF IsConcat
<1>14. \A i \in 1 .. Len(cy) : n[cy[i]].parent = x /\ n[cy[i]].position = k + i - 1
  <2>1. \A i \in 1 .. Len(cy) : cy[i] \in DOMAIN m2
    BY <1>1, <1>12
  <2> QED BY <1>10, <1>11, <2>1 DEF Placed
<1>15. \A z \in DOMAIN m : ~Occurs(cy, z) => SameLink(m[z], n[z])
  <2>1. \A z \in DOMAIN m : ~Occurs(cy, z) => SameLink(m2[z], n[z])
    BY <1>10, <1>11, <1>12 DEF Placed
  <2>2. \A z \in DOMAIN m : SameLink(m[z], m2[z])
    BY <1>7, <1>8 DEF SameLink
  <2> QED BY <2>1, <2>2, Zenon DEF SameLink
<1>16. \A z \in DOMAIN m \ {x, y} : SameBody(m[z], n[z])
  <2>1. \A z \in DOMAIN m : z # x => SameBody(m2[z], n[z])
    BY <1>10, <1>11, <1>12 DEF Placed
  <2> QED BY <1>8, <2>1, Zenon
<1>17. /\ n[x].leaf = m[x].leaf /\ n[x].max_count = m[x].max_count /\ n[x].values = w
       /\ n[y].leaf = m[y].leaf /\ n[y].max_count = m[y].max_count /\ n[y].values = <<>>
  <2>1. SameBody(m2[y], n[y])
    BY <1>10, <1>11, <1>12, Zenon DEF Placed
  <2>2. n[x].leaf = m2[x].leaf /\ n[x].max_count = m2[x].max_count /\ n[x].values = m2[x].values
    BY <1>10, <1>11 DEF Placed
  <2> QED BY <1>7, <2>1, <2>2, Zenon DEF SameBody
<1>18. TakenOver(m, n, x, y, w)
  BY <1>1, <1>12, <1>13, <1>14, <1>15, <1>16, <1>17 DEF TakenOver
<1>19. SameFields(t, u) /\ u.ok = t.ok
  BY <1>9, <1>10 DEF SameFields
<1> QED BY <1>11, <1>18, <1>19

LEMMA DeleteIs ==
  ASSUME NEW t, Treelike(t), TreeNodes(t.mem), NEW y \in DOMAIN t.mem
  PROVE  /\ Treelike(Delete(t, y)) /\ Delete(t, y).ok = t.ok /\ Delete(t, y).root = t.root
         /\ Delete(t, y).rightmost = t.rightmost /\ Delete(t, y).size = t.size
         /\ TreeNodes(Delete(t, y).mem) /\ DOMAIN Delete(t, y).mem = DOMAIN t.mem \ {y}
         /\ \A z \in DOMAIN t.mem \ {y} : Delete(t, y).mem[z] = t.mem[z]
<1>1. PICK m, n, u : m = t.mem /\ n = Restrict(m, DOMAIN m \ {y}) /\ u = Delete(t, y)
  OBVIOUS
<1>2. u = [t EXCEPT !.mem = n]
  BY <1>1 DEF Delete, Treelike
<1>3. /\ Treelike(u) /\ u.ok = t.ok /\ u.root = t.root /\ u.rightmost = t.rightmost
      /\ u.size = t.size /\ u.mem = n
  BY <1>2 DEF Treelike
<1>4. n = [z \in DOMAIN m \ {y} |-> m[z]]
  BY <1>1 DEF Restrict
<1>5. DOMAIN n = DOMAIN m \ {y} /\ \A z \in DOMAIN m \ {y} : n[z] = m[z]
  BY <1>4
<1>6. TreeNodes(n)
  <2>1. n \in [DOMAIN n -> Node] /\ DOMAIN n \subseteq Nat \ {0}
    BY <1>1, <1>4, <1>5 DEF TreeNodes
  <2>2. IsFiniteSet(DOMAIN n)
    BY <1>1, <1>5, FS_Subset DEF TreeNodes
  <2> QED BY <2>1, <2>2 DEF TreeNodes
<1> QED BY <1>1, <1>3, <1>5, <1>6

\* merge, up to the removal of the value that delimited the siblings.
TakenUp(t, x, y, s, v) == [t EXCEPT !.mem[x].values = @ \o <<s>> \o v, !.mem[y].values = <<>>]

MergedUp(t, x, y) ==
  LET T == TakenUp(Checked(t, AreSiblings(t, x, y)), x, y,
                   Value(t, t.mem[x].parent, t.mem[x].position), t.mem[y].values)
  IN  IF t.mem[x].leaf THEN T
      ELSE SetChildren(Stripped(T, y), x, Len(t.mem[x].values) + 1, t.mem[y].children)

LEMMA MergedUpIs ==
  ASSUME NEW t, Treelike(t), NEW h, NEW lo, NEW hi, Sound(t.mem, t.root, h, lo, hi),
         NEW p, NEW d, NEW x, NEW y, Siblings(t.mem, p, d, x, y)
  PROVE  /\ SameFields(t, MergedUp(t, x, y)) /\ MergedUp(t, x, y).ok = t.ok
         /\ TakenOver(t.mem, MergedUp(t, x, y).mem, x, y,
                      JoinOf(t.mem[x].values, t.mem[p].values[d], t.mem[y].values))
<1>1. PICK m, r, u, s, v, w :
        /\ m = t.mem /\ r = t.root /\ u = m[x].values /\ s = m[p].values[d] /\ v = m[y].values
        /\ w = JoinOf(u, s, v)
  OBVIOUS
<1>2. Typed(m, r, h, lo, hi) /\ TreeNodes(m) /\ Sound(m, r, h, lo, hi)
  BY <1>1 DEF Sound, Typed, TreeNodes
<1>3. SiblingsOK(m, r, h, p, d, x, y)
  BY <1>1, <1>2, SiblingsAre
<1>4. /\ x \in DOMAIN m /\ y \in DOMAIN m /\ p \in DOMAIN m /\ x # y /\ x # p /\ y # p
      /\ d \in 1 .. Len(m[p].values) /\ m[x].parent = p /\ m[x].position = d - 1
      /\ m[y].parent = p /\ m[y].position = d /\ m[x].leaf = m[y].leaf /\ d \in Nat
  BY <1>3 DEF SiblingsOK
<1>5. u \in Seq(Int) /\ v \in Seq(Int) /\ s \in Int
  BY <1>1, <1>2, <1>4, NodeOf
<1>6. w \in Seq(Int)
  BY <1>1, <1>5, JoinOfIs
<1>7. AreSiblings(t, x, y) /\ Value(t, m[x].parent, m[x].position) = s
  BY <1>1, <1>4 DEF AreSiblings, Value
<1>8. PICK m1, t1 : m1 = TakenValues(m, x, y, w) /\ t1 = With(t, m1)
  OBVIOUS
<1>9. MergedUp(t, x, y)
        = IF m[x].leaf THEN t1 ELSE SetChildren(Stripped(t1, y), x, Len(u) + 1, m[y].children)
  <2>1. Checked(t, AreSiblings(t, x, y)) = t
    BY <1>7 DEF Checked, Treelike
  <2>2. MergedUp(t, x, y)
          = LET T == TakenUp(t, x, y, s, v)
            IN  IF m[x].leaf THEN T ELSE SetChildren(Stripped(T, y), x, Len(u) + 1, m[y].children)
    BY <1>1, <1>7, <2>1 DEF MergedUp
  <2>3. TakenUp(t, x, y, s, v) = TwoWrites(t, x, y, u \o <<s>> \o v, <<>>)
    BY <1>1, <1>4 DEF TakenUp, TwoWrites, Treelike
  <2>4. TwoWrites(t, x, y, w, <<>>) = With(t, Written(Written(m, x, w), y, <<>>))
    BY <1>1, TwoWritesAre
  <2>5. Written(Written(m, x, w), y, <<>>) = m1
    BY <1>8, Zenon DEF Written, TakenValues
  <2>6. w = u \o <<s>> \o v
    BY <1>1 DEF JoinOf
  <2> QED BY <1>8, <2>2, <2>3, <2>4, <2>5, <2>6
<1>10. Treelike(t1) /\ SameFields(t, t1) /\ t1.ok = t.ok /\ t1.mem = m1 /\ TreeNodes(m1)
  <2>1. Treelike(t1) /\ t1.mem = m1
    BY <1>8, WithIs
  <2>2. Revalued(m, [m EXCEPT ![x].values = w], x, w)
    BY <1>2, <1>4, <1>6, RevaluedIs
  <2>3. PICK m0 : m0 = [m EXCEPT ![x].values = w]
    OBVIOUS
  <2>4. TreeNodes(m0) /\ y \in DOMAIN m0 /\ <<>> \in Seq(Int) /\ DOMAIN m0 = DOMAIN m
    BY <1>4, <2>2, <2>3 DEF Revalued
  <2>5. m1 = [m0 EXCEPT ![y].values = <<>>]
    BY <1>8, <2>3 DEF TakenValues
  <2>6. Revalued(m0, m1, y, <<>>)
    BY <2>4, <2>5, RevaluedIs
  <2>7. TreeNodes(m1) /\ DOMAIN m1 = DOMAIN m
    BY <2>4, <2>6 DEF Revalued
  <2>8. t1.root = t.root /\ t1.rightmost = t.rightmost /\ t1.size = t.size /\ t1.ok = t.ok
    BY <1>8 DEF With, Treelike
  <2> QED BY <1>1, <2>1, <2>7, <2>8 DEF SameFields
<1>11. /\ ChildrenOK(m, r, h, x) /\ ChildrenOK(m, r, h, y)
  BY <1>2, <1>4, ChildrenAre, Zenon
<1>12. CASE m[x].leaf
  <2>1. MergedUp(t, x, y) = t1
    BY <1>9, <1>12
  <2>2. Len(m[x].children) = 0 /\ Len(m[y].children) = 0
    BY <1>4, <1>11, <1>12 DEF ChildrenOK
  <2>3. TakenOver(m, TakenValues(m, x, y, w), x, y, w)
    BY <1>2, <1>4, <1>6, <2>2, TakeOverLeaf, Zenon
  <2> QED BY <1>1, <1>8, <1>10, <2>1, <2>3, Zenon
<1>13. CASE ~m[x].leaf
  <2>1. MergedUp(t, x, y) = SetChildren(Stripped(t1, y), x, Len(u) + 1, m[y].children)
    BY <1>9, <1>13, Zenon
  <2>2. Len(m[x].children) = Len(u) + 1
    BY <1>1, <1>4, <1>11, <1>13 DEF ChildrenOK
  <2>3. ~Occurs(m[y].children, x)
    <3> SUFFICES ASSUME NEW i \in 1 .. Len(m[y].children), m[y].children[i] = x PROVE FALSE
      BY DEF Occurs
    <3>1. m[x].parent = y
      BY <1>11 DEF ChildrenOK
    <3> QED BY <1>4, <3>1
  <2>4. /\ Distinct(m[y].children)
        /\ \A i \in 1 .. Len(m[y].children) : m[y].children[i] \in DOMAIN m
    BY <1>11 DEF ChildrenOK
  <2>5. PICK u2 : u2 = SetChildren(Stripped(t1, y), x,
                                   Len(m[x].children), m[y].children)
    OBVIOUS
  <2>6. t1.mem = TakenValues(m, x, y, w) /\ TreeNodes(t1.mem)
    BY <1>8, <1>10
  <2>7. SameFields(t1, u2) /\ u2.ok = t1.ok /\ TakenOver(m, u2.mem, x, y, w)
    <3>1. /\ Treelike(t1) /\ TreeNodes(t1.mem) /\ TreeNodes(m) /\ x \in DOMAIN m /\ y \in DOMAIN m /\ x # y
          /\ w \in Seq(Int) /\ t1.mem = TakenValues(m, x, y, w)
          /\ Distinct(m[y].children) /\ ~Occurs(m[y].children, x)
          /\ \A i \in 1 .. Len(m[y].children) : m[y].children[i] \in DOMAIN m
      BY <1>2, <1>4, <1>6, <1>10, <2>3, <2>4, <2>6
    <3> QED BY <2>5, <3>1, TakeOverInner
  <2>8. SameFields(t, u2) /\ u2.ok = t.ok
    BY <1>10, <2>7 DEF SameFields
  <2> QED BY <1>1, <2>1, <2>2, <2>5, <2>7, <2>8
<1> QED BY <1>12, <1>13

\* MergeNodes gives the tree in which the siblings are one node.
LEMMA MergeNodesIs ==
  ASSUME NEW t, Treelike(t), NEW h, NEW lo, NEW hi, Sound(t.mem, t.root, h, lo, hi),
         NEW p, NEW d, NEW x, NEW y, Siblings(t.mem, p, d, x, y)
  PROVE  /\ Kept(t, MergeNodes(t, x, y))
         /\ MergeNodes(t, x, y).rightmost =
              IF t.mem[y].leaf /\ t.rightmost = y THEN x ELSE t.rightmost
         /\ Joined(t.mem, MergeNodes(t, x, y).mem, p, d, x, y)
         /\ TreeNodes(MergeNodes(t, x, y).mem) /\ Links(MergeNodes(t, x, y).mem)
<1>1. PICK m, r, w, i, t2 :
        /\ m = t.mem /\ r = t.root /\ i = d - 1 /\ t2 = MergedUp(t, x, y)
        /\ w = JoinOf(m[x].values, m[p].values[d], m[y].values)
  OBVIOUS
<1>2. /\ SiblingsOK(m, r, h, p, d, x, y) /\ Typed(m, r, h, lo, hi) /\ TreeNodes(m)
      /\ Sound(m, r, h, lo, hi) /\ Siblings(m, p, d, x, y)
  BY <1>1, SiblingsAre DEF Sound, Typed, TreeNodes
<1>3. /\ x \in DOMAIN m /\ y \in DOMAIN m /\ p \in DOMAIN m /\ x # y /\ x # p /\ y # p
      /\ m[x].parent = p /\ m[x].position = i /\ x # r /\ y # r /\ m[x].leaf = m[y].leaf
      /\ Len(m[p].children) = Len(m[p].values) + 1 /\ Len(m[p].values) \in Nat
      /\ i \in Nat /\ i + 1 = d /\ i + 2 = d + 1 /\ i < Len(m[p].values) /\ d \in 1 .. Len(m[p].values)
  BY <1>1, <1>2 DEF SiblingsOK
<1>4. ~m[p].leaf /\ m[p].children[d] = x /\ m[p].children[d + 1] = y
  BY <1>2 DEF Siblings
<1>5. SameFields(t, t2) /\ t2.ok = t.ok /\ TakenOver(m, t2.mem, x, y, w)
  <2>1. /\ SameFields(t, MergedUp(t, x, y)) /\ MergedUp(t, x, y).ok = t.ok
        /\ TakenOver(t.mem, MergedUp(t, x, y).mem, x, y,
                     JoinOf(t.mem[x].values, t.mem[p].values[d], t.mem[y].values))
    BY MergedUpIs, Zenon
  <2> QED BY <1>1, <2>1, Zenon
<1>6. IsJoin(w, m[x].values, m[p].values[d], m[y].values)
  <2>1. m[x].values \in Seq(Int) /\ m[p].values[d] \in Int /\ m[y].values \in Seq(Int)
    BY <1>2, <1>3, NodeOf
  <2> QED BY <1>1, <2>1, JoinOfIs
<1>7. PICK m2 : m2 = t2.mem
  OBVIOUS
<1>8. /\ TreeNodes(m2) /\ DOMAIN m2 = DOMAIN m /\ m2[y].values = <<>> /\ m2[y].leaf = m[y].leaf
      /\ SameBody(m[p], m2[p])
  BY <1>3, <1>5, <1>7 DEF TakenOver
<1>9. /\ m2[p].children = m[p].children /\ m2[p].values = m[p].values /\ ~m2[p].leaf
  BY <1>4, <1>8 DEF SameBody
<1>10. ChildrenOK(m, r, h, p)
  BY <1>2, <1>3, ChildrenAre
<1>11. PICK t3 : t3 = RemoveValue(t2, p, i)
  OBVIOUS
<1>12. SameFields(t2, t3) /\ t3.ok = t2.ok /\ ValueRemoved(m2, t3.mem, p, i)
  <2>1. /\ Treelike(t2) /\ TreeNodes(t2.mem) /\ p \in DOMAIN t2.mem /\ ~t2.mem[p].leaf
        /\ Len(t2.mem[p].children) = Len(t2.mem[p].values) + 1
        /\ i \in Nat /\ i < Len(t2.mem[p].values)
    BY <1>3, <1>5, <1>7, <1>8, <1>9 DEF SameFields
  <2>2. /\ Distinct(t2.mem[p].children) /\ ~Occurs(t2.mem[p].children, p)
        /\ \A j \in 1 .. Len(t2.mem[p].children) : t2.mem[p].children[j] \in DOMAIN t2.mem
    BY <1>7, <1>8, <1>9, <1>10 DEF ChildrenOK
  <2>3. Len(t2.mem[t2.mem[p].children[i + 2]].values) = 0
    BY <1>3, <1>4, <1>7, <1>8, <1>9
  <2> QED BY <1>7, <1>11, <2>1, <2>2, <2>3, RemoveInner
<1>13. PICK m3 : m3 = t3.mem
  OBVIOUS
<1>14. /\ TreeNodes(m3) /\ DOMAIN m3 = DOMAIN m /\ m3[y].leaf = m[y].leaf
       /\ SameFields(t, t3) /\ t3.ok = t.ok /\ Treelike(t3)
  <2>1. SameBody(m2[y], m3[y]) /\ TreeNodes(m3) /\ DOMAIN m3 = DOMAIN m2
    BY <1>3, <1>8, <1>12, <1>13, Zenon DEF ValueRemoved
  <2> QED BY <1>5, <1>8, <1>12, <2>1, Zenon DEF SameBody, SameFields
<1>15. t3 = Merge(t, x, y)
  BY <1>1, <1>3, <1>11, Zenon DEF Merge, MergedUp, TakenUp, Stripped
<1>16. PICK t4 : t4 = IF m[y].leaf /\ t3.rightmost = y THEN [t3 EXCEPT !.rightmost = x] ELSE t3
  OBVIOUS
<1>17. MergeNodes(t, x, y) = Delete(t4, y)
  BY <1>13, <1>14, <1>15, <1>16 DEF MergeNodes, IsLeaf
<1>18. /\ Treelike(t4) /\ t4.mem = m3 /\ t4.ok = t.ok /\ t4.root = t.root /\ t4.size = t.size
       /\ t4.rightmost = IF t.mem[y].leaf /\ t.rightmost = y THEN x ELSE t.rightmost
  <2>2. t3.rightmost = t.rightmost /\ t3.root = t.root /\ t3.size = t.size
    BY <1>14 DEF SameFields
  <2>3. x \in Nat
    BY <1>2, <1>3 DEF TreeNodes
  <2>4. CASE m[y].leaf /\ t3.rightmost = y
    BY <1>1, <1>13, <1>14, <1>16, <2>2, <2>3, <2>4 DEF Treelike
  <2>5. CASE ~(m[y].leaf /\ t3.rightmost = y)
    BY <1>1, <1>13, <1>14, <1>16, <2>2, <2>5
  <2> QED BY <2>4, <2>5
<1>19. PICK u : u = MergeNodes(t, x, y)
  OBVIOUS
<1>20. /\ Treelike(u) /\ u.ok = t.ok /\ u.root = t.root /\ u.size = t.size
       /\ u.rightmost = t4.rightmost /\ TreeNodes(u.mem) /\ DOMAIN u.mem = DOMAIN m \ {y}
       /\ \A z \in DOMAIN m \ {y} : u.mem[z] = m3[z]
  <2>1. Treelike(t4) /\ TreeNodes(t4.mem) /\ y \in DOMAIN t4.mem
    BY <1>3, <1>14, <1>18
  <2>2. PICK v : v = Delete(t4, y)
    OBVIOUS
  <2>3. /\ Treelike(v) /\ v.ok = t4.ok /\ v.root = t4.root
        /\ v.rightmost = t4.rightmost /\ v.size = t4.size
        /\ TreeNodes(v.mem) /\ DOMAIN v.mem = DOMAIN t4.mem \ {y}
        /\ \A z \in DOMAIN t4.mem \ {y} : v.mem[z] = t4.mem[z]
    BY <2>1, <2>2, DeleteIs
  <2> QED BY <1>14, <1>17, <1>18, <1>19, <2>2, <2>3
<1>21. Joined(m, u.mem, p, d, x, y) /\ Links(u.mem) /\ SameFrame(m, u.mem, r)
  <2>1. ValueRemoved(m2, m3, p, d - 1) /\ TakenOver(m, m2, x, y, w)
    BY <1>1, <1>5, <1>7, <1>12, <1>13
  <2>2. PICK n : n = u.mem
    OBVIOUS
  <2>3. TreeNodes(n) /\ DOMAIN n = DOMAIN m \ {y} /\ \A z \in DOMAIN m \ {y} : n[z] = m3[z]
    BY <1>20, <2>2
  <2>4. Joined(m, n, p, d, x, y) /\ Links(n) /\ SameFrame(m, n, r)
    <3>1. MergeSteps(m, r, h, lo, hi, p, d, x, y, w, m2, m3, n)
      BY <1>2, <1>6, <2>1, <2>3 DEF MergeSteps
    <3> QED BY <3>1, MergedIs
  <2> QED BY <2>2, <2>4
<1> QED BY <1>1, <1>18, <1>19, <1>20, <1>21 DEF Kept

LEMMA SharedSound ==
  ASSUME NEW t, NEW m, NEW r, NEW h, NEW lo, NEW hi, NEW p, NEW d, NEW x, NEW y, NEW n, NEW e,
         Sharing(t, m, r, h, lo, hi, p, d, x, y, n, e)
  PROVE  SharedOK(m, r, h, lo, hi, p, d, x, y, n, e)
<1> /\ Treelike(t) /\ m = t.mem /\ r = t.root /\ Sound(m, r, h, lo, hi)
    /\ Siblings(m, p, d, x, y) /\ Shared(m, n, p, d, x, y, e)
  BY DEF Sharing
<1>1. PICK w : w = MergeNodes(t, x, y).mem
  OBVIOUS
<1>2. Joined(m, w, p, d, x, y) /\ TreeNodes(w) /\ Links(w)
  BY <1>1, MergeNodesIs
<1>3. PICK h1, lo1, hi1 : h1 = OnlyOf(h, w) /\ lo1 = OnlyOf(lo, w) /\ hi1 = JoinedHi(hi, w, x, y)
  OBVIOUS
<1>4. /\ Sound(w, r, h1, lo1, hi1) /\ h[x] = h[y]
  BY <1>2, <1>3, JoinSound
<1>5. TreeNodes(m) /\ Typed(m, r, h, lo, hi) /\ SiblingsOK(m, r, h, p, d, x, y)
  BY SiblingsAre DEF Sound, Typed, TreeNodes
<1>6. Len(m[p].values) \in Nat /\ TreeNodes(n) /\ DOMAIN n = DOMAIN m
  BY <1>5 DEF SiblingsOK, Shared
<1>7. Joined(n, w, p, d, x, y)
  BY <1>2, <1>5, <1>6, SharedJoined
<1>8. Links(n) /\ SameFrame(m, n, r)
  BY SharedLinks
<1>9. ~n[x].leaf => Len(n[x].children) = Len(n[x].values) + 1
  BY DEF Shared
<1>10. n[p].values[d] = e
  BY DEF Shared
<1>11. PICK h2, lo2, hi2 : /\ h2 = Extended(h1, n, y, h1[x])
                           /\ lo2 = Extended(lo1, n, y, n[p].values[d])
                           /\ hi2 = SplitHi(hi1, n, x, y, n[p].values[d])
  OBVIOUS
<1>12. Sound(n, r, h2, lo2, hi2)
  BY <1>4, <1>6, <1>7, <1>8, <1>9, <1>11, SplitSound
<1>13. /\ y \notin DOMAIN w /\ DOMAIN m = DOMAIN w \cup {y} /\ x \in DOMAIN w /\ x # y
  BY <1>2, <1>5 DEF Joined, SiblingsOK
<1>14. /\ h \in [DOMAIN m -> Nat] /\ lo \in [DOMAIN m -> Int] /\ hi \in [DOMAIN m -> Int]
  BY <1>5 DEF Typed
<1>15. h2 = h
  <2>1. \A z \in DOMAIN m : h2[z] = h[z]
    BY <1>3, <1>4, <1>6, <1>11, <1>13 DEF Extended, OnlyOf
  <2>2. h2 = [z \in DOMAIN m |-> h2[z]]
    BY <1>6, <1>11 DEF Extended
  <2> QED BY <1>14, <2>1, <2>2
<1>16. lo2 = At2(lo, y, e)
  <2>1. \A z \in DOMAIN m : lo2[z] = IF z = y THEN e ELSE lo[z]
    BY <1>3, <1>6, <1>10, <1>11, <1>13 DEF Extended, OnlyOf
  <2>2. lo2 = [z \in DOMAIN m |-> lo2[z]]
    BY <1>6, <1>11 DEF Extended
  <2> QED BY <1>14, <2>1, <2>2 DEF At2
<1>17. hi2 = At2(hi, x, e)
  <2>1. \A z \in DOMAIN m : hi2[z] = IF z = x THEN e ELSE hi[z]
    BY <1>3, <1>6, <1>10, <1>11, <1>13 DEF SplitHi, JoinedHi
  <2>2. hi2 = [z \in DOMAIN m |-> hi2[z]]
    BY <1>6, <1>11 DEF SplitHi
  <2> QED BY <1>14, <2>1, <2>2 DEF At2
<1>18. TreeKeys(n) = TreeKeys(m)
  <2>1. TreeKeys(w) = TreeKeys(m)
    BY <1>2, <1>5, KeysJoined
  <2>2. TreeKeys(w) = TreeKeys(n)
    BY <1>2, <1>6, <1>7, KeysJoined, Zenon
  <2> QED BY <2>1, <2>2
<1> QED BY <1>8, <1>12, <1>15, <1>16, <1>17, <1>18 DEF SharedOK

RightToLeftParts(t, x, y, p, d, k) ==
  LET u1 == Given(t, x, y, p, d,
                  JoinOf(t.mem[x].values, t.mem[p].values[d], Fore(t.mem[y].values, k - 1)),
                  Rest(t.mem[y].values, k + 1), t.mem[y].values[k])
  IN  IF t.mem[x].leaf THEN u1
      ELSE SetChildren(SetChildren(u1, x, Len(t.mem[x].values) + 1, Fore(t.mem[y].children, k)),
                       y, 0, Rest(t.mem[y].children, k + 1))

UnfoldsLeft(t, x, y, p, d, k) == RebalanceRightToLeft(t, x, y, k) = RightToLeftParts(t, x, y, p, d, k)

LEMMA RightToLeftUnfolds ==
  ASSUME NEW t, Treelike(t), NEW h, NEW lo, NEW hi, Sound(t.mem, t.root, h, lo, hi),
         NEW p, NEW d, NEW x, NEW y, Siblings(t.mem, p, d, x, y),
         NEW k \in 1 .. Len(t.mem[y].values), Len(t.mem[y].values) >= Len(t.mem[x].values)
  PROVE  UnfoldsLeft(t, x, y, p, d, k)
<1>1. PICK m, u, s, v, a1, b, e :
        /\ m = t.mem /\ u = m[x].values /\ s = m[p].values[d] /\ v = m[y].values
        /\ a1 = JoinOf(u, s, Fore(v, k - 1)) /\ b = Rest(v, k + 1) /\ e = v[k]
  OBVIOUS
<1>2. TreeNodes(m) /\ SiblingsOK(m, t.root, h, p, d, x, y)
  <2>1. SiblingsOK(m, t.root, h, p, d, x, y)
    BY <1>1, SiblingsAre
  <2> QED BY <1>1, <2>1 DEF Sound, Typed, TreeNodes
<1>3. /\ x \in DOMAIN m /\ y \in DOMAIN m /\ p \in DOMAIN m /\ x # y /\ x # p /\ y # p
      /\ m[x].parent = p /\ m[x].position = d - 1 /\ m[y].parent = p /\ m[y].position = d
      /\ d \in Nat /\ d - 1 + 1 = d
  BY <1>2 DEF SiblingsOK
<1>4. PICK t0 : t0 = Checked(t, /\ AreSiblings(t, x, y)
                                 /\ Len(t.mem[y].values) >= Len(t.mem[x].values)
                                 /\ k \in 1 .. Len(t.mem[y].values))
  OBVIOUS
<1>5. AreSiblings(t, x, y)
  BY <1>1, <1>3 DEF AreSiblings
<1>6. t0 = t
  BY <1>1, <1>4, <1>5 DEF Checked, Treelike
<1>7. PICK t1 : t1 = TakenLeft(t, t, x, y, p, d, k)
  OBVIOUS
<1>8. t1 = Given(t, x, y, p, d, a1, b, e)
  BY <1>1, <1>2, <1>3, <1>7, TakenLeftIs
<1>9. RebalanceRightToLeft(t, x, y, k)
         = LET T == TakenLeft(Checked(t, /\ AreSiblings(t, x, y)
                                         /\ Len(t.mem[y].values) >= Len(t.mem[x].values)
                                         /\ k \in 1 .. Len(t.mem[y].values)),
                              t, x, y, t.mem[x].parent, t.mem[x].position + 1, k)
           IN  IF t.mem[x].leaf THEN T
               ELSE SetChildren(SetChildren(T, x, Len(t.mem[x].values) + 1,
                                            SubSeq(t.mem[y].children, 1, k)),
                                y, 0, SubSeq(t.mem[y].children, k + 1, Len(t.mem[y].children)))
  BY DEF RebalanceRightToLeft, TakenLeft
<1>10. RebalanceRightToLeft(t, x, y, k)
         = IF t.mem[x].leaf THEN t1
           ELSE SetChildren(SetChildren(t1, x, Len(t.mem[x].values) + 1,
                                        SubSeq(t.mem[y].children, 1, k)),
                            y, 0, SubSeq(t.mem[y].children, k + 1, Len(t.mem[y].children)))
  <2>1. t.mem[x].parent = p /\ t.mem[x].position + 1 = d
    BY <1>1, <1>3
  <2> QED BY <1>4, <1>6, <1>7, <1>9, <2>1
<1> QED BY <1>1, <1>8, <1>10 DEF UnfoldsLeft, RightToLeftParts, Fore, Rest

LEMMA RightToLeftIs ==
  ASSUME NEW t, Treelike(t), NEW h, NEW lo, NEW hi, Sound(t.mem, t.root, h, lo, hi),
         NEW p, NEW d, NEW x, NEW y, Siblings(t.mem, p, d, x, y),
         NEW k \in 1 .. Len(t.mem[y].values), Len(t.mem[y].values) >= Len(t.mem[x].values)
  PROVE  Rebalanced(t, RebalanceRightToLeft(t, x, y, k), p, d, x, y, t.mem[y].values[k],
                    Len(t.mem[x].values) + k, Len(t.mem[y].values) - k)
<1>1. PICK m, r, u, s, v, a1, b, e, q, cx, cy, nu, nv :
        /\ m = t.mem /\ r = t.root /\ u = m[x].values /\ s = m[p].values[d] /\ v = m[y].values
        /\ a1 = JoinOf(u, s, Fore(v, k - 1)) /\ b = Rest(v, k + 1) /\ e = v[k]
        /\ q = k - 1 /\ nu = Len(u) /\ nv = Len(v) /\ cx = m[x].children /\ cy = m[y].children
  OBVIOUS
<1>2. Sound(m, r, h, lo, hi) /\ Typed(m, r, h, lo, hi) /\ TreeNodes(m) /\ Siblings(m, p, d, x, y)
  BY <1>1 DEF Sound, Typed, TreeNodes
<1>3. SiblingsOK(m, r, h, p, d, x, y) /\ \A z \in DOMAIN m : ChildrenOK(m, r, h, z)
  BY <1>2, SiblingsAre, ChildrenAre
<1>4. /\ x \in DOMAIN m /\ y \in DOMAIN m /\ p \in DOMAIN m /\ x # y /\ x # p /\ y # p
      /\ d \in 1 .. Len(m[p].values) /\ m[x].leaf = m[y].leaf
  BY <1>3 DEF SiblingsOK
<1>5. /\ u \in Seq(Int) /\ v \in Seq(Int) /\ s \in Int /\ Len(u) \in Nat /\ Len(v) \in Nat
      /\ m[x].leaf \in BOOLEAN /\ nu = Len(u) /\ nv = Len(v) /\ nu \in Nat /\ nv \in Nat
  <2>1. m[p].values \in Seq(Int)
    BY <1>2, <1>4, NodeOf
  <2> QED BY <1>1, <1>2, <1>4, <2>1, NodeOf
<1>6. /\ k \in Nat /\ k >= 1 /\ k <= Len(v) /\ q \in Nat /\ q < Len(v) /\ q + 1 = k /\ q + 2 = k + 1
      /\ nv - q - 1 = nv - k /\ nu + 1 + q = nu + k
  <2>1. k \in 1 .. nv /\ q = k - 1 /\ nv = Len(v)
    BY <1>1, <1>5, Zenon
  <2>2. nu \in Nat /\ nv \in Nat
    BY <1>5
  <2>3. k \in Nat /\ k >= 1 /\ k <= nv /\ q \in Nat /\ q < nv /\ q + 1 = k /\ q + 2 = k + 1
    BY <2>1, <2>2
  <2>4. nv - q - 1 = nv - k /\ nu + 1 + q = nu + k
    BY <2>1, <2>2
  <2> QED BY <2>1, <2>3, <2>4, Zenon
<1>7. /\ IsJoin(v, Fore(v, q), e, b) /\ e \in Int /\ Fore(v, q) \in Seq(Int) /\ b \in Seq(Int)
      /\ Len(Fore(v, q)) = q /\ Len(b) = Len(v) - k
  <2>1. /\ IsJoin(v, Fore(v, q), v[q + 1], Rest(v, q + 2)) /\ v[q + 1] \in Int
        /\ Fore(v, q) \in Seq(Int) /\ Rest(v, q + 2) \in Seq(Int)
        /\ Len(Fore(v, q)) = q /\ Len(Rest(v, q + 2)) = Len(v) - q - 1
    BY <1>5, <1>6, JoinParts
  <2>2. Len(v) - q - 1 = Len(v) - k
    BY <1>5, <1>6
  <2> QED BY <1>1, <1>6, <2>1, <2>2
<1>8. a1 \in Seq(Int) /\ IsJoin(a1, u, s, Fore(v, q)) /\ Len(a1) = Len(u) + k
  <2>1. a1 = JoinOf(u, s, Fore(v, q))
    BY <1>1
  <2>2. a1 \in Seq(Int) /\ IsJoin(a1, u, s, Fore(v, q))
    BY <1>5, <1>7, <2>1, JoinOfIs
  <2>3. Len(a1) = Len(u) + 1 + q
    BY <1>7, <2>2 DEF IsJoin
  <2> QED BY <1>5, <1>6, <2>2, <2>3
<1>9. \A w \in Seq(Int) : IsJoin(w, u, s, v) => IsJoin(w, a1, e, b)
  BY <1>5, <1>7, <1>8, JoinMovesLeft
<1>10. PICK t1 : t1 = Given(t, x, y, p, d, a1, b, e)
  BY Zenon
<1>11. SameFields(t, t1) /\ t1.ok = t.ok /\ ValuedOK(m, t1.mem, x, y, p, d, a1, b, e)
  <2>1. /\ TreeNodes(t.mem) /\ x \in DOMAIN t.mem /\ y \in DOMAIN t.mem /\ p \in DOMAIN t.mem
        /\ d \in 1 .. Len(t.mem[p].values)
    BY <1>1, <1>2, <1>4
  <2>2. GivenOK(t, Given(t, x, y, p, d, a1, b, e), x, y, p, d, a1, b, e)
    BY <1>4, <1>7, <1>8, <2>1, GivenIs
  <2> QED BY <1>1, <1>10, <2>2, Zenon DEF GivenOK
<1>12. RebalanceRightToLeft(t, x, y, k)
         = IF m[x].leaf THEN t1
           ELSE SetChildren(SetChildren(t1, x, Len(u) + 1, Fore(cy, k)), y, 0, Rest(cy, k + 1))
  <2>1. UnfoldsLeft(t, x, y, p, d, k)
    BY RightToLeftUnfolds
  <2> QED BY <1>1, <1>10, <2>1 DEF UnfoldsLeft, RightToLeftParts
<1>13. CASE m[x].leaf
  <2>1. Len(m[x].children) = 0 /\ Len(m[y].children) = 0
    BY <1>3, <1>4, <1>13 DEF ChildrenOK
  <2>2. Shared(m, t1.mem, p, d, x, y, e)
    BY <1>1, <1>4, <1>9, <1>11, <1>13, <2>1, SharedLeaves, Zenon
  <2>3. Len(t1.mem[x].values) = Len(u) + k /\ Len(t1.mem[y].values) = Len(v) - k
    BY <1>7, <1>8, <1>11 DEF ValuedOK
  <2> QED BY <1>1, <1>11, <1>12, <1>13, <2>2, <2>3 DEF Rebalanced
<1>14. CASE ~m[x].leaf
  <2>1. PICK ca, cb, t2, t3, m1 :
          /\ ca = Fore(cy, k) /\ cb = Rest(cy, k + 1) /\ m1 = t1.mem
          /\ t2 = SetChildren(t1, x, Len(u) + 1, ca) /\ t3 = SetChildren(t2, y, 0, cb)
    BY Zenon
  <2>2. /\ cx \in Seq(Nat) /\ cy \in Seq(Nat) /\ Len(cx) = Len(u) + 1 /\ Len(cy) = Len(v) + 1
        /\ Distinct(cy) /\ ~Occurs(cy, y)
    BY <1>1, <1>3, <1>4, <1>14, Zenon DEF ChildrenOK
  <2>3. /\ IsConcat(cy, ca, cb) /\ ca \in Seq(Nat) /\ cb \in Seq(Nat)
        /\ Len(ca) = k
    <3>1. k <= Len(cy)
      BY <1>5, <1>6, <2>2
    <3> QED BY <1>6, <2>1, <2>2, <3>1, ConcatParts
  <2>4. Distinct(ca) /\ Distinct(cb) /\ \A z : Occurs(cy, z) <=> Occurs(ca, z) \/ Occurs(cb, z)
    BY <2>2, <2>3, PartsApart
  <2>5. ~Occurs(cy, x)
    <3>1. ForestOK(m, r, h, p, d, x, y)
      BY <1>3 DEF ForestOK
    <3> QED BY <1>1, <3>1, ChildrenApart
  <2>6. ~Occurs(ca, x) /\ ~Occurs(cb, y)
    BY <2>2, <2>4, <2>5, Zenon
  <2>7. TreeNodes(m1) /\ DOMAIN m1 = DOMAIN m /\ m1[x].children = cx /\ m1[y].children = cy
    BY <1>1, <1>4, <1>11, <2>1 DEF ValuedOK
  <2>8. SameFields(t1, t2) /\ t2.ok = t1.ok /\ Placed(m1, t2.mem, x, Len(u) + 1, ca)
    <3>1. Treelike(t1) /\ x \in DOMAIN t1.mem /\ Len(u) + 1 \in Nat
          /\ Len(u) + 1 <= Len(t1.mem[x].children)
      <4>1. Len(u) + 1 \in Nat /\ Len(u) + 1 <= Len(u) + 1
        BY <1>5
      <4> QED BY <1>4, <1>11, <2>1, <2>2, <2>7, <4>1 DEF SameFields
    <3> QED BY <2>1, <2>3, <2>4, <2>6, <2>7, <3>1, SetChildrenIs
  <2>9. SameFields(t2, t3) /\ t3.ok = t2.ok /\ Placed(t2.mem, t3.mem, y, 0, cb)
    <3>1. TreeNodes(t2.mem) /\ y \in DOMAIN t2.mem
      BY <1>4, <2>7, <2>8 DEF Placed
    <3>2. t2.mem[y].children \in Seq(Nat)
      BY <3>1 DEF TreeNodes, Node
    <3>3. Treelike(t2) /\ 0 \in Nat /\ 0 <= Len(t2.mem[y].children)
      BY <2>8, <3>2, LenProperties DEF SameFields
    <3> QED BY <2>1, <2>3, <2>4, <2>6, <3>1, <3>3, SetChildrenIs
  <2>10. ForestOK(m, r, h, p, d, x, y)
    BY <1>3 DEF ForestOK
  <2>11. MovesLeft(m, m1, t2.mem, t3.mem, x, y, ca, cb)
    BY <1>1, <2>2, <2>3, <2>8, <2>9 DEF MovesLeft
  <2>12. Len(m[x].children) + Len(ca) = Len(a1) + 1
    <3>1. nu + 1 + k = nu + k + 1
      BY <1>5, <1>6
    <3>2. Len(m[x].children) + Len(ca) = nu + 1 + k /\ Len(a1) + 1 = nu + k + 1
      BY <1>1, <1>8, <2>2, <2>3
    <3> QED BY <3>1, <3>2
  <2>13. ValuedOK(m, m1, x, y, p, d, a1, b, e)
    BY <1>11, <2>1
  <2>14. \A w \in Seq(Int) : IsJoin(w, m[x].values, m[p].values[d], m[y].values)
                               => IsJoin(w, a1, e, b)
    BY <1>1, <1>9
  <2>15. Shared(m, t3.mem, p, d, x, y, e)
    BY <1>2, <2>10, <2>11, <2>12, <2>13, <2>14, MovedLeft
  <2>16. Len(t3.mem[x].values) = Len(u) + k /\ Len(t3.mem[y].values) = Len(v) - k
    <3>1. m1[x].values = a1 /\ m1[y].values = b
      BY <2>13 DEF ValuedOK
    <3>2. t2.mem[x].values = a1 /\ t2.mem[y].values = b
      BY <1>4, <2>7, <2>8, <3>1 DEF Placed, SameBody
    <3>3. DOMAIN t2.mem = DOMAIN m
      BY <2>7, <2>8 DEF Placed
    <3>4. t3.mem[x].values = a1 /\ t3.mem[y].values = b
      BY <1>4, <2>9, <3>2, <3>3 DEF Placed, SameBody
    <3> QED BY <1>7, <1>8, <3>4
  <2>17. SameFields(t, t3) /\ t3.ok = t.ok
    BY <1>11, <2>8, <2>9 DEF SameFields
  <2>18. RebalanceRightToLeft(t, x, y, k) = t3
    BY <1>12, <1>14, <2>1, Zenon
  <2> QED BY <1>1, <2>15, <2>16, <2>17, <2>18 DEF Rebalanced
<1> QED BY <1>5, <1>13, <1>14

\* The last g values of x go to y, the first of them by way of the parent.
LeftToRightParts(t, x, y, p, d, g) ==
  LET k  == Len(t.mem[x].values) - g
      u1 == Given(t, y, x, p, d,
                  JoinOf(Rest(t.mem[x].values, k + 2), t.mem[p].values[d], t.mem[y].values),
                  Fore(t.mem[x].values, k), t.mem[x].values[k + 1])
  IN  IF t.mem[x].leaf THEN u1
      ELSE SetChildren(CutChildren(u1, x, k + 1), y, 0, Rest(t.mem[x].children, k + 2) \o t.mem[y].children)

UnfoldsRight(t, x, y, p, d, g) == RebalanceLeftToRight(t, x, y, g) = LeftToRightParts(t, x, y, p, d, g)

LEMMA LeftToRightUnfolds ==
  ASSUME NEW t, Treelike(t), NEW h, NEW lo, NEW hi, Sound(t.mem, t.root, h, lo, hi),
         NEW p, NEW d, NEW x, NEW y, Siblings(t.mem, p, d, x, y),
         NEW g \in 1 .. Len(t.mem[x].values), Len(t.mem[x].values) >= Len(t.mem[y].values)
  PROVE  UnfoldsRight(t, x, y, p, d, g)
<1>1. PICK m, u, s, v, k, a1, b, e :
        /\ m = t.mem /\ u = m[x].values /\ s = m[p].values[d] /\ v = m[y].values
        /\ k = Len(u) - g
        /\ a1 = Fore(u, k) /\ b = JoinOf(Rest(u, k + 2), s, v) /\ e = u[k + 1]
  OBVIOUS
<1>2. TreeNodes(m) /\ SiblingsOK(m, t.root, h, p, d, x, y)
  <2>1. SiblingsOK(m, t.root, h, p, d, x, y)
    BY <1>1, SiblingsAre
  <2> QED BY <1>1, <2>1 DEF Sound, Typed, TreeNodes
<1>3. /\ x \in DOMAIN m /\ y \in DOMAIN m /\ p \in DOMAIN m /\ x # y /\ x # p /\ y # p
      /\ m[x].parent = p /\ m[x].position = d - 1 /\ m[y].parent = p /\ m[y].position = d
      /\ d \in Nat /\ d - 1 + 1 = d
  BY <1>2 DEF SiblingsOK
<1>4. PICK t0 : t0 = Checked(t, /\ AreSiblings(t, x, y)
                                 /\ Len(t.mem[x].values) >= Len(t.mem[y].values)
                                 /\ g \in 1 .. Len(t.mem[x].values))
  OBVIOUS
<1>5. AreSiblings(t, x, y)
  BY <1>1, <1>3 DEF AreSiblings
<1>6. t0 = t
  BY <1>1, <1>4, <1>5 DEF Checked, Treelike
<1>7. PICK t1 : t1 = TakenRight(t, t, x, y, p, d, k)
  BY Zenon
<1>8. t1 = Given(t, y, x, p, d, b, a1, e)
  BY <1>1, <1>2, <1>3, <1>7, TakenRightIs
<1>9. RebalanceLeftToRight(t, x, y, g)
         = LET T == TakenRight(Checked(t, /\ AreSiblings(t, x, y)
                                          /\ Len(t.mem[x].values) >= Len(t.mem[y].values)
                                          /\ g \in 1 .. Len(t.mem[x].values)),
                              t, x, y, t.mem[x].parent, t.mem[x].position + 1,
                              Len(t.mem[x].values) - g)
           IN  IF t.mem[x].leaf THEN T
               ELSE SetChildren([T EXCEPT !.mem[x].children =
                                   SubSeq(@, 1, Len(t.mem[x].values) - g + 1)],
                                y, 0, SubSeq(t.mem[x].children, Len(t.mem[x].values) - g + 2,
                                             Len(t.mem[x].children)) \o t.mem[y].children)
  BY Zenon DEF RebalanceLeftToRight, TakenRight
<1>10. RebalanceLeftToRight(t, x, y, g)
         = LET T == TakenRight(Checked(t, /\ AreSiblings(t, x, y)
                                          /\ Len(t.mem[x].values) >= Len(t.mem[y].values)
                                          /\ g \in 1 .. Len(t.mem[x].values)),
                              t, x, y, t.mem[x].parent, t.mem[x].position + 1,
                              Len(t.mem[x].values) - g)
           IN  IF t.mem[x].leaf THEN T
               ELSE SetChildren(CutChildren(T, x, Len(t.mem[x].values) - g + 1),
                                y, 0, Rest(t.mem[x].children, Len(t.mem[x].values) - g + 2)
                                        \o t.mem[y].children)
  BY <1>9, Zenon DEF CutChildren, Rest
<1>11. RebalanceLeftToRight(t, x, y, g)
         = IF t.mem[x].leaf THEN t1
           ELSE SetChildren(CutChildren(t1, x, k + 1),
                            y, 0, Rest(t.mem[x].children, k + 2) \o t.mem[y].children)
  <2>1. t.mem[x].parent = p /\ t.mem[x].position + 1 = d /\ Len(t.mem[x].values) - g = k
    BY <1>1, <1>3
  <2> QED BY <1>4, <1>6, <1>7, <1>10, <2>1
<1> QED BY <1>1, <1>8, <1>11 DEF UnfoldsRight, LeftToRightParts

LEMMA LeftToRightIs ==
  ASSUME NEW t, Treelike(t), NEW h, NEW lo, NEW hi, Sound(t.mem, t.root, h, lo, hi),
         NEW p, NEW d, NEW x, NEW y, Siblings(t.mem, p, d, x, y),
         NEW g \in 1 .. Len(t.mem[x].values), Len(t.mem[x].values) >= Len(t.mem[y].values)
  PROVE  Rebalanced(t, RebalanceLeftToRight(t, x, y, g), p, d, x, y,
                    t.mem[x].values[Len(t.mem[x].values) - g + 1],
                    Len(t.mem[x].values) - g, Len(t.mem[y].values) + g)
<1>1. PICK m, r, u, s, v, k, a1, b, e, cx, cy, nu, nv :
        /\ m = t.mem /\ r = t.root /\ u = m[x].values /\ s = m[p].values[d] /\ v = m[y].values
        /\ nu = Len(u) /\ nv = Len(v) /\ k = Len(u) - g
        /\ a1 = Fore(u, k) /\ b = JoinOf(Rest(u, k + 2), s, v) /\ e = u[k + 1]
        /\ cx = m[x].children /\ cy = m[y].children
  OBVIOUS
<1>2. Sound(m, r, h, lo, hi) /\ Typed(m, r, h, lo, hi) /\ TreeNodes(m) /\ Siblings(m, p, d, x, y)
  BY <1>1 DEF Sound, Typed, TreeNodes
<1>3. SiblingsOK(m, r, h, p, d, x, y) /\ \A z \in DOMAIN m : ChildrenOK(m, r, h, z)
  BY <1>2, SiblingsAre, ChildrenAre
<1>4. /\ x \in DOMAIN m /\ y \in DOMAIN m /\ p \in DOMAIN m /\ x # y /\ x # p /\ y # p
      /\ d \in 1 .. Len(m[p].values) /\ m[x].leaf = m[y].leaf
  BY <1>3 DEF SiblingsOK
<1>5. /\ u \in Seq(Int) /\ v \in Seq(Int) /\ s \in Int
      /\ m[x].leaf \in BOOLEAN /\ nu = Len(u) /\ nv = Len(v) /\ nu \in Nat /\ nv \in Nat
  <2>1. m[p].values \in Seq(Int)
    BY <1>2, <1>4, NodeOf
  <2> QED BY <1>1, <1>2, <1>4, <2>1, NodeOf
<1>6. /\ k \in Nat /\ g \in Nat /\ g >= 1 /\ k < nu /\ k < Len(u) /\ k + 1 \in Nat /\ k + 1 <= nu + 1
      /\ k = nu - g /\ (nu - k - 1) + 1 + nv = nv + g /\ k + 1 + 1 = k + 2
  <2>1. g \in 1 .. nu
    BY <1>1
  <2>2. k = nu - g /\ Len(u) = nu
    BY <1>1
  <2>3. nu \in Nat /\ nv \in Nat
    BY <1>5
  <2>4. /\ k \in Nat /\ g \in Nat /\ g >= 1 /\ k < nu
    BY <2>1, <2>2, <2>3
  <2>5. /\ k + 1 \in Nat /\ k + 1 <= nu + 1
        /\ (nu - k - 1) + 1 + nv = nv + g /\ k + 1 + 1 = k + 2
    BY <2>2, <2>3, <2>4
  <2> QED BY <2>2, <2>4, <2>5
<1>7. /\ IsJoin(u, a1, e, Rest(u, k + 2)) /\ e \in Int /\ a1 \in Seq(Int)
      /\ Rest(u, k + 2) \in Seq(Int) /\ Len(a1) = k /\ Len(Rest(u, k + 2)) = nu - k - 1
  <2>1. /\ IsJoin(u, Fore(u, k), u[k + 1], Rest(u, k + 2)) /\ u[k + 1] \in Int
        /\ Fore(u, k) \in Seq(Int) /\ Rest(u, k + 2) \in Seq(Int)
        /\ Len(Fore(u, k)) = k /\ Len(Rest(u, k + 2)) = Len(u) - k - 1
    BY <1>5, <1>6, JoinParts
  <2> QED BY <1>1, <1>5, <2>1
<1>8. b \in Seq(Int) /\ IsJoin(b, Rest(u, k + 2), s, v) /\ Len(b) = nv + g
  <2>1. b = JoinOf(Rest(u, k + 2), s, v)
    BY <1>1
  <2>2. b \in Seq(Int) /\ IsJoin(b, Rest(u, k + 2), s, v)
    BY <1>5, <1>7, <2>1, JoinOfIs
  <2>3. Len(b) = (nu - k - 1) + 1 + nv
    BY <1>5, <1>7, <2>2 DEF IsJoin
  <2> QED BY <1>6, <2>2, <2>3
<1>9. \A w \in Seq(Int) : IsJoin(w, u, s, v) => IsJoin(w, a1, e, b)
  BY <1>5, <1>7, <1>8, JoinMovesLeft
<1>10. PICK t1 : t1 = Given(t, y, x, p, d, b, a1, e)
  OBVIOUS
<1>11. SameFields(t, t1) /\ t1.ok = t.ok /\ ValuedOK(m, t1.mem, x, y, p, d, a1, b, e)
  <2>1. /\ TreeNodes(t.mem) /\ x \in DOMAIN t.mem /\ y \in DOMAIN t.mem /\ p \in DOMAIN t.mem
        /\ d \in 1 .. Len(t.mem[p].values)
    BY <1>1, <1>2, <1>4
  <2>2. GivenOK(t, Given(t, y, x, p, d, b, a1, e), y, x, p, d, b, a1, e)
    BY <1>4, <1>7, <1>8, <2>1, GivenIs, Zenon
  <2>3. SameFields(t, t1) /\ t1.ok = t.ok /\ ValuedOK(m, t1.mem, y, x, p, d, b, a1, e)
    BY <1>1, <1>10, <2>2, Zenon DEF GivenOK
  <2> QED BY <2>3 DEF ValuedOK
<1>12. RebalanceLeftToRight(t, x, y, g)
         = IF m[x].leaf THEN t1
           ELSE SetChildren(CutChildren(t1, x, k + 1), y, 0, Rest(cx, k + 2) \o cy)
  <2>1. UnfoldsRight(t, x, y, p, d, g)
    BY LeftToRightUnfolds
  <2> QED BY <1>1, <1>10, <2>1 DEF UnfoldsRight, LeftToRightParts
<1>13. CASE m[x].leaf
  <2>1. Len(m[x].children) = 0 /\ Len(m[y].children) = 0
    BY <1>3, <1>4, <1>13 DEF ChildrenOK
  <2>2. Shared(m, t1.mem, p, d, x, y, e)
    BY <1>1, <1>4, <1>9, <1>11, <1>13, <2>1, SharedLeaves
  <2>3. Len(t1.mem[x].values) = nu - g /\ Len(t1.mem[y].values) = nv + g
    BY <1>6, <1>7, <1>8, <1>11, Zenon DEF ValuedOK
  <2> QED BY <1>1, <1>11, <1>12, <1>13, <2>2, <2>3 DEF Rebalanced
<1>14. CASE ~m[x].leaf
  <2>1. PICK ca, cb, cc, t2, t3, m1 :
          /\ ca = Fore(cx, k + 1) /\ cb = Rest(cx, k + 2) /\ cc = cb \o cy /\ m1 = t1.mem
          /\ t2 = CutChildren(t1, x, k + 1) /\ t3 = SetChildren(t2, y, 0, cc)
    OBVIOUS
  <2>2. /\ cx \in Seq(Nat) /\ cy \in Seq(Nat) /\ Len(cx) = nu + 1
        /\ Distinct(cx) /\ ~Occurs(cx, x) /\ Distinct(cy) /\ ~Occurs(cy, y)
    BY <1>1, <1>3, <1>4, <1>14 DEF ChildrenOK
  <2>3. /\ IsConcat(cx, ca, cb) /\ ca \in Seq(Nat) /\ cb \in Seq(Nat)
        /\ Len(ca) = k + 1
    <3>1. PICK j : j = k + 1
      OBVIOUS
    <3>2. j \in Nat /\ j <= Len(cx) /\ j + 1 = k + 2
      BY <1>6, <2>2, <3>1
    <3>3. /\ IsConcat(cx, Fore(cx, j), Rest(cx, j + 1)) /\ Fore(cx, j) \in Seq(Nat)
          /\ Rest(cx, j + 1) \in Seq(Nat) /\ Len(Fore(cx, j)) = j
      BY <2>2, <3>2, ConcatParts
    <3> QED BY <2>1, <3>1, <3>2, <3>3
  <2>4. Distinct(cb) /\ \A z : Occurs(cx, z) <=> Occurs(ca, z) \/ Occurs(cb, z)
    BY <2>2, <2>3, PartsApart
  <2>5. cc \in Seq(Nat) /\ IsConcat(cc, cb, cy)
    BY <2>1, <2>2, <2>3, ConcatIs
  <2>6. ForestOK(m, r, h, p, d, x, y)
    BY <1>3 DEF ForestOK
  <2>7. /\ \A i \in 1 .. Len(cx) : ~Occurs(cy, cx[i])
        /\ ~Occurs(cx, y)
    BY <1>1, <2>6, ChildrenApart
  <2>8. \A i \in 1 .. Len(cb) : ~Occurs(cy, cb[i])
    <3> SUFFICES ASSUME NEW i \in 1 .. Len(cb) PROVE ~Occurs(cy, cb[i])
      OBVIOUS
    <3>1. Occurs(cx, cb[i])
      <4>1. Occurs(cb, cb[i])
        BY DEF Occurs
      <4> QED BY <2>4, <4>1
    <3> QED BY <2>7, <3>1 DEF Occurs
  <2>9. /\ Distinct(cc) /\ \A z : Occurs(cc, z) <=> Occurs(cb, z) \/ Occurs(cy, z)
    BY <2>2, <2>3, <2>4, <2>5, <2>8, ConcatLists
  <2>10. ~Occurs(cc, y)
    BY <2>2, <2>4, <2>7, <2>9, Zenon
  <2>11. TreeNodes(m1) /\ DOMAIN m1 = DOMAIN m /\ m1[x].children = cx /\ m1[y].children = cy
    BY <1>1, <1>4, <1>11, <2>1, Zenon DEF ValuedOK
  <2>12. SameFields(t1, t2) /\ t2.ok = t1.ok /\ Recut(m1, t2.mem, x, ca)
    <3>1. Treelike(t1) /\ TreeNodes(t1.mem) /\ x \in DOMAIN t1.mem /\ t1.mem[x].children = cx
      BY <1>4, <1>11, <2>1, <2>11 DEF SameFields
    <3>2. PICK j : j = k + 1
      OBVIOUS
    <3>3. j \in Nat /\ j <= Len(t1.mem[x].children)
      BY <1>6, <2>2, <3>1, <3>2
    <3>4. CutOK(t1, CutChildren(t1, x, j), x, Fore(t1.mem[x].children, j))
      BY <3>1, <3>3, CutIs
    <3> QED BY <2>1, <3>1, <3>2, <3>4 DEF CutOK
  <2>13. SameFields(t2, t3) /\ t3.ok = t2.ok /\ Placed(t2.mem, t3.mem, y, 0, cc)
    <3>1. TreeNodes(t2.mem) /\ y \in DOMAIN t2.mem
      BY <1>4, <2>11, <2>12 DEF Recut
    <3>2. t2.mem[y].children \in Seq(Nat)
      BY <3>1 DEF TreeNodes, Node
    <3>3. Treelike(t2) /\ 0 \in Nat /\ 0 <= Len(t2.mem[y].children)
      BY <2>12, <3>2, LenProperties DEF SameFields
    <3>4. cc \in Seq(Nat) /\ Distinct(cc) /\ ~Occurs(cc, y)
      BY <2>5, <2>9, <2>10
    <3>5. /\ SameFields(t2, SetChildren(t2, y, 0, cc)) /\ SetChildren(t2, y, 0, cc).ok = t2.ok
          /\ Placed(t2.mem, SetChildren(t2, y, 0, cc).mem, y, 0, cc)
      BY <3>1, <3>3, <3>4, SetChildrenIs
    <3> QED BY <2>1, <3>5
  <2>14. MovesRight(m, m1, t2.mem, t3.mem, x, y, ca, cb, cc)
    BY <1>1, <2>3, <2>5, <2>12, <2>13 DEF MovesRight
  <2>15. Len(ca) = Len(a1) + 1
    BY <1>7, <2>3
  <2>16. ValuedOK(m, m1, x, y, p, d, a1, b, e)
    BY <1>11, <2>1, Zenon
  <2>17. \A w \in Seq(Int) : IsJoin(w, m[x].values, m[p].values[d], m[y].values)
                               => IsJoin(w, a1, e, b)
    BY <1>1, <1>9
  <2>18. Shared(m, t3.mem, p, d, x, y, e)
    BY <1>2, <2>6, <2>14, <2>15, <2>16, <2>17, MovedRight
  <2>19. Len(t3.mem[x].values) = nu - g /\ Len(t3.mem[y].values) = nv + g
    <3>1. m1[x].values = a1 /\ m1[y].values = b /\ m1[x] \in Node
      BY <1>4, <2>11, <2>16 DEF ValuedOK, TreeNodes
    <3>2. t2.mem[x].values = a1 /\ t2.mem[y].values = b /\ DOMAIN t2.mem = DOMAIN m
      BY <1>4, <2>11, <2>12, <3>1 DEF Recut, Node
    <3>3. t3.mem[x].values = a1 /\ t3.mem[y].values = b
      BY <1>4, <2>13, <3>2 DEF Placed, SameBody
    <3> QED BY <1>6, <1>7, <1>8, <3>3
  <2>20. SameFields(t, t3) /\ t3.ok = t.ok
    BY <1>11, <2>12, <2>13 DEF SameFields
  <2>21. RebalanceLeftToRight(t, x, y, g) = t3
    BY <1>12, <1>14, <2>1
  <2> QED BY <1>1, <2>18, <2>19, <2>20, <2>21 DEF Rebalanced
<1> QED BY <1>5, <1>13, <1>14

LEMMA FreshIs ==
  ASSUME NEW t, TreeNodes(t.mem)
  PROVE  Fresh(t) \notin DOMAIN t.mem /\ Fresh(t) \in Nat \ {0}
<1>1. PICK D, c : D = DOMAIN t.mem /\ c = Cardinality(D)
  OBVIOUS
<1>2. IsFiniteSet(D) /\ c \in Nat
  BY <1>1, FS_CardinalityType DEF TreeNodes
<1>3. \E i \in 1 .. c + 1 : i \notin D
  <2> SUFFICES ASSUME \A i \in 1 .. c + 1 : i \in D PROVE FALSE
    OBVIOUS
  <2>1. 1 .. c + 1 \subseteq D
    OBVIOUS
  <2>2. Cardinality(1 .. c + 1) <= c
    BY <1>1, <1>2, <2>1, FS_Subset
  <2>3. Cardinality(1 .. c + 1) = c + 1
    BY <1>2, FS_Interval
  <2> QED BY <1>2, <2>2, <2>3
<1>4. Fresh(t) = CHOOSE i \in 1 .. c + 1 : i \notin D
  BY <1>1 DEF Fresh
<1>5. Fresh(t) \in 1 .. c + 1 /\ Fresh(t) \notin D
  BY <1>3, <1>4
<1> QED BY <1>1, <1>2, <1>5

LEMMA AllocateIs ==
  ASSUME NEW t, Treelike(t), TreeNodes(t.mem), NEW leaf \in BOOLEAN, NEW parent \in Nat, NEW max \in Nat
  PROVE  AllocateOK(t, Allocate(t, leaf, parent, max), Fresh(t), Blank(leaf, parent, max))
<1>1. PICK m, y, b, n : /\ m = t.mem /\ y = Fresh(t) /\ b = Blank(leaf, parent, max)
                        /\ n = [z \in DOMAIN m \cup {y} |-> IF z \in DOMAIN m THEN m[z] ELSE b]
  OBVIOUS
<1>2. Allocate(t, leaf, parent, max) = [t EXCEPT !.mem = n]
  BY <1>1 DEF Allocate, Blank
<1>3. y \notin DOMAIN m /\ y \in Nat \ {0} /\ TreeNodes(m)
  BY <1>1, FreshIs
<1>4. n = [z \in DOMAIN m \cup {y} |-> IF z \in DOMAIN m THEN m[z] ELSE b]
  BY <1>1
<1>5. DOMAIN n = DOMAIN m \cup {y} /\ n[y] = b /\ \A z \in DOMAIN m : n[z] = m[z]
  BY <1>3, <1>4
<1>6. b \in Node
  <2>1. <<>> \in Seq(Int) /\ <<>> \in Seq(Nat)
    OBVIOUS
  <2> QED BY <1>1, <2>1 DEF Blank, Node
<1>7. TreeNodes(n)
  <2>1. \A z \in DOMAIN m : m[z] \in Node
    BY <1>3 DEF TreeNodes
  <2>2. n \in [DOMAIN n -> Node]
    BY <1>4, <1>6, <2>1
  <2>3. IsFiniteSet(DOMAIN m \cup {y})
    BY <1>3, FS_AddElement DEF TreeNodes
  <2>4. DOMAIN n \subseteq Nat \ {0}
    BY <1>3, <1>5 DEF TreeNodes
  <2> QED BY <1>5, <2>2, <2>3, <2>4 DEF TreeNodes
<1>8. Grown(m, n, y, b)
  BY <1>3, <1>5, <1>7 DEF Grown
<1>9. PICK u : u = [t EXCEPT !.mem = n]
  OBVIOUS
<1>10. /\ Treelike(u) /\ u.root = t.root /\ u.rightmost = t.rightmost /\ u.size = t.size
       /\ u.ok = t.ok /\ u.mem = n
  BY <1>9 DEF Treelike
<1> QED BY <1>1, <1>2, <1>8, <1>9, <1>10 DEF AllocateOK

InsertUnfolded(t, p, i, s) ==
  InsertValue(t, p, i, s)
    = IF t.mem[p].leaf THEN Checked(WithValue(t, p, i, s), i <= Len(t.mem[p].values))
      ELSE SetChildren(Checked(WithValue(t, p, i, s), i <= Len(t.mem[p].values)), p, i + 1,
                       <<NULL>> \o SubSeq(t.mem[p].children, i + 2, Len(t.mem[p].children)))

LEMMA InsertUnfolds ==
  ASSUME NEW t, NEW p, NEW i, NEW s
  PROVE  InsertUnfolded(t, p, i, s)
BY DEF InsertUnfolded, InsertValue, WithValue

LEMMA InsertInner ==
  ASSUME NEW t, Treelike(t), NEW p, NEW y, HasPlaces(t.mem, p, y),
         NEW i \in Nat, i <= Len(t.mem[p].values), NEW s \in Int
  PROVE  PlaceMadeOK(t, InsertValue(t, p, i, s), p, i, s)
<1>1. PICK m, f, cp, g, cb, cs, e, q :
        /\ m = t.mem /\ f = m[p].values /\ cp = m[p].children /\ g = InsertAt(f, i + 1, s)
        /\ cb = Rest(cp, i + 2) /\ cs = <<NULL>> \o cb /\ e = i + 1 /\ q = Len(cp)
  OBVIOUS
<1>2. /\ TreeNodes(m) /\ p \in DOMAIN m /\ ~m[p].leaf /\ q = Len(f) + 1
      /\ Distinct(cp) /\ ~Occurs(cp, p) /\ \A j \in 1 .. q : cp[j] \in DOMAIN m
  BY <1>1 DEF HasPlaces
<1>3. /\ m[p] \in Node /\ f \in Seq(Int) /\ cp \in Seq(Nat) /\ Len(f) \in Nat /\ q \in Nat
      /\ i \in Nat /\ i <= Len(f) /\ i + 1 \in 1 .. Len(f) + 1 /\ e \in Nat /\ e <= q
      /\ e = i + 1 /\ e + 1 = i + 2 /\ q = Len(cp) /\ Len(f) + 1 = q
  <2>1. m[p] \in Node
    BY <1>2 DEF TreeNodes
  <2>2. f \in Seq(Int) /\ cp \in Seq(Nat)
    BY <1>1, <2>1 DEF Node
  <2>3. Len(f) \in Nat /\ i <= Len(f)
    BY <1>1, <2>2, LenProperties
  <2>4. q = Len(f) + 1 /\ q = Len(cp) /\ e = i + 1
    BY <1>1, <1>2
  <2>5. q \in Nat /\ i + 1 \in 1 .. Len(f) + 1 /\ e \in Nat /\ e <= q /\ e + 1 = i + 2
    BY <2>3, <2>4
  <2> QED BY <2>1, <2>2, <2>3, <2>4, <2>5
<1>4. /\ g \in Seq(Int) /\ IsWithout(f, g, i + 1) /\ g[i + 1] = s
  <2>1. e \in 1 .. Len(f) + 1 /\ g = InsertAt(f, e, s) /\ e = i + 1
    BY <1>1, <1>3
  <2>2. GrownBy(f, InsertAt(f, e, s), e, s)
    BY <1>3, <2>1, InsertedInt
  <2>3. g \in Seq(Int) /\ IsWithout(f, g, e) /\ g[e] = s
    BY <2>1, <2>2, Zenon DEF GrownBy
  <2> QED BY <2>1, <2>3, Zenon
<1>5. /\ cb \in Seq(Nat) /\ Len(cb) = q - e /\ \A j \in 1 .. q - e : cb[j] = cp[e + j]
  <2>1. /\ Rest(cp, e + 1) \in Seq(Nat) /\ Len(Rest(cp, e + 1)) = Len(cp) - e
        /\ \A j \in 1 .. Len(cp) - e : Rest(cp, e + 1)[j] = cp[e + j]
    <3>1. PartsIn(Nat, cp, e)
      BY <1>3, PartsNat
    <3> QED BY <3>1 DEF PartsIn
  <2> QED BY <1>1, <1>3, <2>1
<1>6. /\ cs \in Seq(Nat) /\ Len(cs) = q - e + 1 /\ cs[1] = 0
      /\ \A j \in 1 .. q - e : cs[1 + j] = cp[e + j]
  <2>1. PICK c0 : c0 = <<NULL>>
    OBVIOUS
  <2>2. c0 \in Seq(Nat) /\ Len(c0) = 1 /\ c0[1] = 0
    BY <2>1, SingleAt DEF NULL
  <2>3. /\ cs \in Seq(Nat) /\ Len(cs) = Len(c0) + Len(cb)
        /\ \A j \in 1 .. Len(c0) : cs[j] = c0[j]
        /\ \A j \in 1 .. Len(cb) : cs[Len(c0) + j] = cb[j]
    BY <1>1, <1>5, <2>1, <2>2, ConcatAt
  <2>4. Len(cs) = q - e + 1
    BY <1>3, <1>5, <2>2, <2>3
  <2> QED BY <1>5, <2>2, <2>3, <2>4
<1>7. \A j \in 1 .. Len(cs) : (cs[j] = 0 /\ j = 1) \/ (j - 1 \in 1 .. q - e /\ cs[j] = cp[e + (j - 1)])
  <2> SUFFICES ASSUME NEW j \in 1 .. Len(cs), j # 1
               PROVE  j - 1 \in 1 .. q - e /\ cs[j] = cp[e + (j - 1)]
    BY <1>6
  <2>1. PICK k : k = j - 1
    OBVIOUS
  <2>2. k \in 1 .. q - e /\ 1 + k = j
    BY <1>3, <1>6, <2>1
  <2> QED BY <1>6, <2>1, <2>2
<1>8. \A j \in 1 .. q - e : e + j \in 1 .. q /\ cp[e + j] \in DOMAIN m /\ cp[e + j] # 0
  <2> SUFFICES ASSUME NEW j \in 1 .. q - e
               PROVE  e + j \in 1 .. q /\ cp[e + j] \in DOMAIN m /\ cp[e + j] # 0
    OBVIOUS
  <2>1. e + j \in 1 .. q
    BY <1>3
  <2>2. cp[e + j] \in DOMAIN m
    BY <1>2, <2>1
  <2> QED BY <1>2, <2>1, <2>2 DEF TreeNodes
<1>9. Distinct(cs)
  <2> SUFFICES ASSUME NEW j \in 1 .. Len(cs), NEW k \in 1 .. Len(cs), cs[j] = cs[k]
               PROVE  j = k
    BY DEF Distinct
  <2>1. (cs[j] = 0 /\ j = 1) \/ (j - 1 \in 1 .. q - e /\ cs[j] = cp[e + (j - 1)])
    BY <1>7
  <2>2. (cs[k] = 0 /\ k = 1) \/ (k - 1 \in 1 .. q - e /\ cs[k] = cp[e + (k - 1)])
    BY <1>7
  <2>3. CASE cs[j] = 0 /\ j = 1
    BY <1>8, <2>2, <2>3
  <2>4. CASE cs[k] = 0 /\ k = 1
    BY <1>8, <2>1, <2>4
  <2>5. CASE /\ j - 1 \in 1 .. q - e /\ cs[j] = cp[e + (j - 1)]
             /\ k - 1 \in 1 .. q - e /\ cs[k] = cp[e + (k - 1)]
    <3>1. e + (j - 1) = e + (k - 1)
      BY <1>2, <1>3, <1>8, <2>5 DEF Distinct
    <3> QED BY <1>3, <3>1
  <2> QED BY <2>1, <2>2, <2>3, <2>4, <2>5
<1>10. \A z \in DOMAIN m : Occurs(cs, z) <=> \E j \in i + 2 .. q : cp[j] = z
  <2> SUFFICES ASSUME NEW z \in DOMAIN m PROVE Occurs(cs, z) <=> \E j \in i + 2 .. q : cp[j] = z
    OBVIOUS
  <2>1. z # 0
    BY <1>2 DEF TreeNodes
  <2>2. ASSUME NEW j \in 1 .. Len(cs), cs[j] = z PROVE \E k \in i + 2 .. q : cp[k] = z
    <3>1. j - 1 \in 1 .. q - e /\ cs[j] = cp[e + (j - 1)]
      BY <1>7, <2>1, <2>2
    <3>2. e + (j - 1) \in i + 2 .. q
      BY <1>3, <3>1
    <3> QED BY <2>2, <3>1, <3>2
  <2>3. ASSUME NEW k \in i + 2 .. q, cp[k] = z PROVE Occurs(cs, z)
    <3>1. PICK j : j = k - e
      OBVIOUS
    <3>2. j \in 1 .. q - e /\ e + j = k /\ 1 + j \in 1 .. q - e + 1
      BY <1>3, <3>1
    <3>3. cs[1 + j] = cp[e + j] /\ 1 + j \in 1 .. Len(cs)
      BY <1>6, <3>2, Zenon
    <3> QED BY <2>3, <3>2, <3>3 DEF Occurs
  <2> QED BY <2>2, <2>3 DEF Occurs
<1>11. ~Occurs(cs, p)
  <2> SUFFICES ASSUME NEW j \in i + 2 .. q, cp[j] = p PROVE FALSE
    BY <1>2, <1>10
  <2>1. j \in 1 .. q
    BY <1>3
  <2> QED BY <1>1, <1>2, <2>1 DEF Occurs
<1>12. PICK t1 : t1 = Checked(WithValue(t, p, i, s), i <= Len(t.mem[p].values))
  OBVIOUS
<1>13. t1 = [t EXCEPT !.mem = [m EXCEPT ![p].values = g]]
  <2>2. PICK t0 : t0 = WithValue(t, p, i, s)
    OBVIOUS
  <2>3. t0 = [t EXCEPT !.mem = [m EXCEPT ![p].values = g]]
    BY <1>1, <2>2 DEF Treelike, WithValue
  <2>4. Treelike(t0) /\ t0.ok = t.ok
    BY <2>3 DEF Treelike
  <2>5. Checked(t0, i <= Len(t.mem[p].values)) = t0
    BY <1>1, <1>3, <2>4 DEF Checked, Treelike
  <2> QED BY <1>12, <2>2, <2>3, <2>5
<1>14. Revalued(m, [m EXCEPT ![p].values = g], p, g)
  BY <1>2, <1>4, RevaluedIs
<1>15. /\ SameFields(t, t1) /\ t1.ok = t.ok /\ t1.mem = [m EXCEPT ![p].values = g]
  BY <1>1, <1>13, <1>14 DEF SameFields, Treelike, Revalued
<1>16. PICK m1 : m1 = t1.mem
  OBVIOUS
<1>17. Revalued(m, m1, p, g) /\ DOMAIN m1 = DOMAIN m /\ TreeNodes(m1)
  BY <1>14, <1>15, <1>16 DEF Revalued
<1>18. /\ m1[p].leaf = m[p].leaf /\ m1[p].max_count = m[p].max_count /\ m1[p].children = cp
       /\ m1[p].values = g /\ SameLink(m[p], m1[p])
  BY <1>1, <1>3, <1>17 DEF Revalued, Node, SameLink
<1>19. PICK u : u = SetChildren(t1, p, e, cs)
  BY Zenon
<1>20. InsertValue(t, p, i, s) = u
  <2>1. InsertValue(t, p, i, s)
          = IF t.mem[p].leaf THEN Checked(WithValue(t, p, i, s), i <= Len(t.mem[p].values))
            ELSE SetChildren(Checked(WithValue(t, p, i, s), i <= Len(t.mem[p].values)), p, i + 1,
                             <<NULL>> \o SubSeq(t.mem[p].children, i + 2, Len(t.mem[p].children)))
    BY InsertUnfolds DEF InsertUnfolded
  <2>2. ~t.mem[p].leaf
    BY <1>1, <1>2, Zenon
  <2>3. SubSeq(t.mem[p].children, i + 2, Len(t.mem[p].children)) = cb
    BY <1>1 DEF Rest
  <2> QED BY <1>1, <1>12, <1>19, <2>1, <2>2, <2>3
<1>21. /\ SameFields(t1, u) /\ u.ok = t1.ok /\ Placed(m1, u.mem, p, e, cs)
  <2>1. e \in Nat /\ e <= Len(t1.mem[p].children) /\ p \in DOMAIN t1.mem /\ TreeNodes(t1.mem)
        /\ Treelike(t1)
    BY <1>2, <1>3, <1>15, <1>16, <1>17, <1>18 DEF SameFields
  <2>2. /\ SameFields(t1, SetChildren(t1, p, e, cs)) /\ SetChildren(t1, p, e, cs).ok = t1.ok
        /\ Placed(t1.mem, SetChildren(t1, p, e, cs).mem, p, e, cs)
    BY <1>6, <1>9, <1>11, <2>1, SetChildrenIs
  <2> QED BY <1>16, <1>19, <2>2
<1>22. PICK n : n = u.mem
  OBVIOUS
<1>23. IsWithout(cp, n[p].children, i + 2)
  <2>1. PICK c : c = n[p].children
    OBVIOUS
  <2>2. /\ Len(c) = e + Len(cs)
        /\ \A j \in 1 .. e : c[j] = cp[j]
        /\ \A j \in 1 .. Len(cs) : c[e + j] = cs[j]
    BY <1>18, <1>21, <1>22, <2>1 DEF Placed
  <2>3. Len(c) = q + 1 /\ i + 2 \in 1 .. Len(c) /\ Len(cp) = Len(c) - 1 /\ i + 2 - 1 = e
        /\ Len(c) - 1 = q
    <3>1. Len(c) = q + 1
      BY <1>3, <1>6, <2>2
    <3> QED BY <1>3, <3>1
  <2>4. ASSUME NEW j \in i + 2 .. q PROVE cp[j] = c[j + 1]
    <3>1. PICK k : k = j - e
      OBVIOUS
    <3>2. k \in 1 .. q - e /\ e + k = j /\ e + (1 + k) = j + 1 /\ 1 + k \in 1 .. Len(cs)
      BY <1>3, <1>6, <3>1
    <3>3. c[e + (1 + k)] = cs[1 + k] /\ cs[1 + k] = cp[e + k]
      BY <1>6, <2>2, <3>2
    <3> QED BY <3>2, <3>3
  <2>5. /\ \A j \in 1 .. i + 2 - 1 : cp[j] = c[j]
        /\ \A j \in i + 2 .. Len(c) - 1 : cp[j] = c[j + 1]
    BY <2>2, <2>3, <2>4
  <2> QED BY <2>1, <2>3, <2>5 DEF IsWithout
<1>24. \A z \in DOMAIN m \ {p} : SameBody(m[z], n[z])
  BY <1>17, <1>21, <1>22 DEF Placed, Revalued
<1>25. ASSUME NEW j \in i + 2 .. q
       PROVE  n[cp[j]].parent = p /\ n[cp[j]].position = j
  <2>1. PICK k : k = j - e
    OBVIOUS
  <2>2. k \in 1 .. q - e /\ e + k = j /\ e + (1 + k) - 1 = j /\ 1 + k \in 1 .. Len(cs)
    BY <1>3, <1>6, <2>1
  <2>3. cs[1 + k] = cp[j] /\ cs[1 + k] \in DOMAIN m1
    BY <1>6, <1>8, <1>17, <2>2
  <2>4. n[cs[1 + k]].parent = p /\ n[cs[1 + k]].position = e + (1 + k) - 1
    BY <1>21, <1>22, <2>2, <2>3 DEF Placed
  <2> QED BY <2>2, <2>3, <2>4
<1>26. ASSUME NEW z \in DOMAIN m, \A j \in i + 2 .. q : cp[j] # z
       PROVE  SameLink(m[z], n[z])
  <2>1. ~Occurs(cs, z)
    BY <1>10, <1>26
  <2>2. SameLink(m1[z], n[z])
    BY <1>17, <1>21, <1>22, <2>1 DEF Placed
  <2>3. SameLink(m[z], m1[z])
    BY <1>17, <1>18 DEF Revalued, SameLink
  <2> QED BY <2>2, <2>3 DEF SameLink
<1>27. /\ TreeNodes(n) /\ DOMAIN n = DOMAIN m /\ m[p].leaf = n[p].leaf
       /\ m[p].max_count = n[p].max_count /\ n[p].values = g
  BY <1>17, <1>18, <1>21, <1>22 DEF Placed
<1>28. PlaceMade(m, n, p, i, s)
  BY <1>1, <1>4, <1>23, <1>24, <1>25, <1>26, <1>27, Zenon DEF PlaceMade
<1>29. SameFields(t, u) /\ u.ok = t.ok
  BY <1>15, <1>21 DEF SameFields
<1> QED BY <1>1, <1>20, <1>22, <1>28, <1>29 DEF PlaceMadeOK

\* The value behind the first k of x goes to its parent, y hangs behind it.
RaisedIn(t1, t, x, y, k) ==
  Hook(InsertValue(t1, t.mem[x].parent, t.mem[x].position, t.mem[x].values[k + 1]),
       t.mem[x].parent, y, t.mem[x].position)

SplitChildren(t3, t, x, y, k) ==
  IF t.mem[x].leaf THEN t3
  ELSE SetChildren(CutChildren(t3, x, k + 1), y, 0,
                   SubSeq(t.mem[x].children, k + 2, Len(t.mem[x].values) + 1))

SplitWith(t, x, y, k) ==
  SplitChildren(RaisedIn(Checked(SplitAt(t, x, y, k), Count(t, y) = 0 /\ k >= 0), t, x, y, k),
                t, x, y, k)

SplitUnfolded(t, x, y, i) ==
  Split(t, x, y, i) = SplitWith(t, x, y, Len(t.mem[x].values) - Moving(t, x, i) - 1)

LEMMA SplitUnfolds ==
  ASSUME NEW t, NEW x, NEW y, NEW i
  PROVE  SplitUnfolded(t, x, y, i)
<1>1. Split(t, x, y, i) = SplitWith(t, x, y, Len(t.mem[x].values) - Moving(t, x, i) - 1)
  BY Zenon DEF Split, RightShare, CutInTwo, HungBehind, SplitWith, SplitChildren, RaisedIn, Hook,
               SplitAt, CutChildren, Moving
<1> QED BY <1>1, Zenon DEF SplitUnfolded

LEMMA SplitIs ==
  ASSUME NEW t, Treelike(t), NEW h, NEW lo, NEW hi, Sound(t.mem, t.root, h, lo, hi),
         NEW p \in DOMAIN t.mem, NEW d \in 1 .. Len(t.mem[p].children), NEW x,
         t.mem[p].children[d] = x, Len(t.mem[x].values) >= 1, NEW max \in Nat, NEW i \in Nat,
         NEW above \in Nat
  PROVE  SplitDone(t, Split(Allocate(t, IsLeaf(t, x), above, max), x, Fresh(t), i), p, d, x, Fresh(t),
                   Len(t.mem[x].values) - Moving(t, x, i) - 1, max)
<1>1. PICK m, r, y, w, cx, q, k, a1, s, b, c0, tA, m1 :
        /\ m = t.mem /\ r = t.root /\ y = Fresh(t) /\ w = m[x].values /\ cx = m[x].children
        /\ q = Len(w) /\ k = q - Moving(t, x, i) - 1
        /\ a1 = Fore(w, k) /\ s = w[k + 1] /\ b = Rest(w, k + 2) /\ c0 = Blank(m[x].leaf, above, max)
        /\ tA = Allocate(t, IsLeaf(t, x), above, max) /\ m1 = tA.mem
  OBVIOUS
<1>2. Sound(m, r, h, lo, hi) /\ Typed(m, r, h, lo, hi) /\ TreeNodes(m) /\ p \in DOMAIN m
  BY <1>1, Zenon DEF Sound, Typed, TreeNodes
<1>3. /\ Child1(m, r, h, p, d, x) /\ x # r /\ m[x].parent = p /\ m[x].position = d - 1
      /\ d \in 1 .. Len(m[p].children)
  <2>1. p \in DOMAIN m /\ d \in 1 .. Len(m[p].children) /\ m[p].children[d] = x
    BY <1>1, Zenon
  <2>2. Child1At(m, r, h, p, d, x)
    BY <1>2, <2>1, Child1Is
  <2> QED BY <2>1, <2>2, Zenon DEF Child1At
<1>4. x \in DOMAIN m /\ x # p /\ ~m[p].leaf /\ ChildrenOK(m, r, h, x) /\ ChildrenOK(m, r, h, p)
  BY <1>2, <1>3 DEF Child1
<1>5. w \in Seq(Int) /\ q \in Nat /\ q = Len(w) /\ q >= 1 /\ m[x].leaf \in BOOLEAN /\ p \in Nat
  BY <1>1, <1>2, <1>4, NodeOf
<1>6. k \in Nat /\ k < q /\ k < Len(w) /\ k >= 0 /\ k + 1 + 1 = k + 2 /\ k + 1 \in Nat /\ k + 1 <= q + 1
  <2>1. Moving(t, x, i) \in 0 .. q - 1
    BY <1>1, <1>5, MovingIs
  <2>2. PICK g : g = Moving(t, x, i)
    OBVIOUS
  <2>3. k = q - g - 1 /\ g \in 0 .. q - 1
    BY <1>1, <2>1, <2>2
  <2>4. k \in Nat /\ k < q
    <3>1. q \in Nat
      BY <1>5
    <3> QED BY <2>3, <3>1
  <2> QED BY <1>5, <2>4
<1>7. /\ IsJoin(w, a1, s, b) /\ s \in Int /\ a1 \in Seq(Int) /\ b \in Seq(Int)
      /\ Len(a1) = k /\ Len(b) = q - k - 1
  <2>1. /\ IsJoin(w, Fore(w, k), w[k + 1], Rest(w, k + 2)) /\ w[k + 1] \in Int
        /\ Fore(w, k) \in Seq(Int) /\ Rest(w, k + 2) \in Seq(Int)
        /\ Len(Fore(w, k)) = k /\ Len(Rest(w, k + 2)) = Len(w) - k - 1
    BY <1>5, <1>6, JoinParts
  <2> QED BY <1>1, <2>1
\* The new node.
<1>8. AllocateOK(t, tA, y, c0)
  <2>1. TreeNodes(t.mem) /\ IsLeaf(t, x) = m[x].leaf
    BY <1>1, <1>2 DEF IsLeaf
  <2>2. AllocateOK(t, Allocate(t, m[x].leaf, above, max), Fresh(t), Blank(m[x].leaf, above, max))
    BY <1>5, <2>1, AllocateIs
  <2> QED BY <1>1, <2>1, <2>2
<1>9. /\ Treelike(tA) /\ tA.root = r /\ tA.rightmost = t.rightmost /\ tA.size = t.size
      /\ tA.ok = t.ok /\ Grown(m, m1, y, c0)
  BY <1>1, <1>8 DEF AllocateOK
<1>10. /\ TreeNodes(m1) /\ y \notin DOMAIN m /\ DOMAIN m1 = DOMAIN m \cup {y} /\ m1[y] = c0
       /\ m1[x] = m[x] /\ m1[p] = m[p] /\ y # x /\ y # p
       /\ x \in DOMAIN m1 /\ y \in DOMAIN m1 /\ p \in DOMAIN m1
  BY <1>2, <1>4, <1>9 DEF Grown
<1>11. c0.leaf = m[x].leaf /\ c0.values = <<>> /\ c0.children = <<>> /\ c0.max_count = max
  BY <1>1 DEF Blank
<1>12. Split(tA, x, y, i) = SplitWith(tA, x, y, k)
  <2>1. Moving(tA, x, i) = Moving(t, x, i)
    BY <1>1, <1>10 DEF Moving
  <2>2. Split(tA, x, y, i) = SplitWith(tA, x, y, Len(tA.mem[x].values) - Moving(tA, x, i) - 1)
    BY SplitUnfolds DEF SplitUnfolded
  <2>3. Len(tA.mem[x].values) = q
    BY <1>1, <1>10
  <2> QED BY <1>1, <2>1, <2>2, <2>3, Zenon
\* The values.
<1>13. PICK tB, m2 : tB = SplitAt(tA, x, y, k) /\ m2 = tB.mem
  BY Zenon
<1>14. SameFields(tA, tB) /\ tB.ok = tA.ok /\ HalvedOK(m1, m2, x, y, a1, b)
  <2>1. /\ TreeNodes(tA.mem) /\ x \in DOMAIN tA.mem /\ y \in DOMAIN tA.mem /\ tA.mem[x].values = w
    BY <1>1, <1>10
  <2>2. x # y /\ k < Len(tA.mem[x].values)
    BY <1>6, <1>10, <2>1
  <2>3. SplitAtOK(tA, SplitAt(tA, x, y, k), x, y, Fore(tA.mem[x].values, k),
                  Rest(tA.mem[x].values, k + 2))
    BY <1>6, <1>9, <2>1, <2>2, SplitAtIs
  <2> QED BY <1>1, <1>13, <2>1, <2>3 DEF SplitAtOK
<1>15. Treelike(tB) /\ TreeNodes(m2) /\ DOMAIN m2 = DOMAIN m1
  BY <1>14 DEF SameFields, HalvedOK
<1>16. Checked(tB, Count(tA, y) = 0 /\ k >= 0) = tB
  <2>1. Count(tA, y) = 0
    BY <1>1, <1>10, <1>11 DEF Count
  <2> QED BY <1>6, <1>15, <2>1 DEF Checked, Treelike
<1>17. m2[p] = m[p]
  <2>1. m2[p] = m1[p]
    BY <1>4, <1>10, <1>14 DEF HalvedOK
  <2> QED BY <1>10, <2>1
\* The place in the parent.
<1>18. PICK e, f, cp : e = d - 1 /\ f = m[p].values /\ cp = m[p].children
  OBVIOUS
<1>19. /\ cp \in Seq(Nat) /\ Len(cp) = Len(f) + 1 /\ Len(f) \in Nat /\ Distinct(cp)
       /\ ~Occurs(cp, p) /\ \A j \in 1 .. Len(cp) : cp[j] \in DOMAIN m
  <2>1. m[p].values \in Seq(Int)
    BY <1>2, NodeOf
  <2> QED BY <1>4, <1>18, <2>1, LenProperties DEF ChildrenOK
<1>20. /\ e \in Nat /\ e <= Len(f) /\ e + 2 \in 1 .. Len(f) + 2 /\ e + 1 = d
  <2>1. d \in 1 .. Len(f) + 1
    BY <1>3, <1>18, <1>19
  <2> QED BY <1>18, <1>19, <2>1
<1>21. HasPlaces(m2, p, y)
  <2>1. ~Occurs(cp, y)
    BY <1>10, <1>19 DEF Occurs
  <2>2. m2[p].children = cp /\ m2[p].values = f /\ ~m2[p].leaf
    BY <1>4, <1>17, <1>18
  <2>3. \A j \in 1 .. Len(m2[p].children) : m2[p].children[j] \in DOMAIN m2
    BY <1>10, <1>15, <1>19, <2>2
  <2> QED BY <1>10, <1>15, <1>19, <2>1, <2>2, <2>3 DEF HasPlaces
<1>22. PICK tC, m3 : tC = InsertValue(tB, p, e, s) /\ m3 = tC.mem
  OBVIOUS
<1>23. SameFields(tB, tC) /\ tC.ok = tB.ok /\ PlaceMade(m2, m3, p, e, s)
  <2>1. HasPlaces(tB.mem, p, y) /\ e <= Len(tB.mem[p].values)
    BY <1>13, <1>17, <1>18, <1>20, <1>21
  <2>2. PlaceMadeOK(tB, InsertValue(tB, p, e, s), p, e, s)
    BY <1>7, <1>15, <1>20, <2>1, InsertInner, Zenon
  <2> QED BY <1>13, <1>22, <2>2 DEF PlaceMadeOK
<1>24. Treelike(tC) /\ TreeNodes(m3) /\ DOMAIN m3 = DOMAIN m1
  BY <1>15, <1>23 DEF SameFields, PlaceMade
<1>25. PICK tD, n : tD = Hook(tC, p, y, e) /\ n = tD.mem
  OBVIOUS
<1>26. SameFields(tC, tD) /\ tD.ok = tC.ok /\ Hooked(m3, n, p, y, e)
  <2>1. e + 2 \in 1 .. Len(m3[p].children)
    <3>1. IsWithout(m2[p].children, m3[p].children, e + 2)
      BY <1>23 DEF PlaceMade
    <3> QED BY <3>1 DEF IsWithout
  <2>2. /\ TreeNodes(tC.mem) /\ p \in DOMAIN tC.mem /\ y \in DOMAIN tC.mem /\ p # y
        /\ e + 2 \in 1 .. Len(tC.mem[p].children)
    BY <1>10, <1>22, <1>24, <2>1
  <2>3. HookOK(tC, Hook(tC, p, y, e), p, y, e)
    BY <1>20, <1>24, <2>2, HookIs
  <2> QED BY <1>22, <1>25, <2>3 DEF HookOK
<1>27. SplitSteps(m, m1, m2, m3, n, p, d, x, y, a1, s, b)
  BY <1>9, <1>11, <1>14, <1>18, <1>23, <1>26, Zenon DEF SplitSteps
<1>28. Spliced(m, n, p, d, x, y, a1, s, b)
  BY <1>2, <1>3, <1>27, SplicedIs, Zenon
<1>29. SplicedAt(m, r, h, n, p, d, x, y, a1, s, b)
  BY <1>1, <1>2, <1>3, <1>7, <1>28, Zenon DEF SplicedAt
<1>30. RaisedIn(tB, tA, x, y, k) = tD
  <2>1. tA.mem[x] = m[x]
    BY <1>1, <1>10
  <2> QED BY <1>1, <1>3, <1>18, <1>22, <1>25, <2>1 DEF RaisedIn
<1>31. Split(tA, x, y, i) = SplitChildren(tD, tA, x, y, k)
  BY <1>12, <1>13, <1>16, <1>30 DEF SplitWith
<1>32. SameFields(tA, tD) /\ tD.ok = t.ok
  BY <1>9, <1>14, <1>23, <1>26, Zenon DEF SameFields
<1>33. ~Occurs(m[p].children, r) /\ ~Occurs(cx, r) /\ r \in DOMAIN m
  BY <1>1, <1>2, <1>3, <1>4, RootApart DEF Typed
<1>40. n[y].max_count = max /\ y \in DOMAIN n /\ DOMAIN n = DOMAIN m \cup {y}
  <2>1. m2[y].max_count = max
    BY <1>10, <1>11, <1>14 DEF HalvedOK
  <2>2. m3[y].max_count = m2[y].max_count
    BY <1>10, <1>15, <1>23 DEF PlaceMade, SameBody
  <2>3. n[y].max_count = m3[y].max_count
    BY <1>10, <1>24, <1>26 DEF Hooked, SameBody
  <2> QED BY <1>10, <1>24, <1>26, <2>1, <2>2, <2>3 DEF Hooked
<1>34. CASE m[x].leaf
  <2>1. Split(tA, x, y, i) = tD
    BY <1>1, <1>10, <1>31, <1>34 DEF SplitChildren
  <2>2. Joined(n, m, p, d, x, y) /\ Links(n)
    BY <1>29, <1>34, SplitLeaf
  <2>3. /\ TreeNodes(n) /\ n[x].leaf /\ n[x].values = a1 /\ n[y].values = b
        /\ \A z \in DOMAIN m : n[z].max_count = m[z].max_count
        /\ SameLink(m[r], n[r])
    BY <1>28, <1>33, <1>34 DEF Spliced
  <2>4. /\ Treelike(tD) /\ tD.root = r /\ tD.rightmost = t.rightmost /\ tD.size = t.size
    BY <1>9, <1>32, Zenon DEF SameFields
  <2>5. SplitDone(t, tD, p, d, x, y, k, max)
    BY <1>1, <1>7, <1>25, <1>32, <1>40, <2>2, <2>3, <2>4 DEF SplitDone
  <2> QED BY <1>1, <2>1, <2>5
<1>35. CASE ~m[x].leaf
  <2>1. PICK j, ca, cb, tE, tF : /\ j = k + 1 /\ ca = Fore(cx, j) /\ cb = Rest(cx, k + 2)
                                 /\ tE = CutChildren(tD, x, j) /\ tF = SetChildren(tE, y, 0, cb)
    BY Zenon
  <2>2. /\ cx \in Seq(Nat) /\ Len(cx) = q + 1 /\ Distinct(cx)
        /\ \A l \in 1 .. Len(cx) : cx[l] \in DOMAIN m
    BY <1>1, <1>4, <1>35 DEF ChildrenOK
  <2>3. j \in Nat /\ j <= Len(cx) /\ j + 1 = k + 2
    BY <1>6, <2>1, <2>2
  <2>4. /\ IsConcat(cx, ca, cb) /\ ca \in Seq(Nat) /\ cb \in Seq(Nat) /\ Len(ca) = j
    <3>1. /\ IsConcat(cx, Fore(cx, j), Rest(cx, j + 1)) /\ Fore(cx, j) \in Seq(Nat)
          /\ Rest(cx, j + 1) \in Seq(Nat) /\ Len(Fore(cx, j)) = j
      BY <2>2, <2>3, ConcatParts
    <3> QED BY <2>1, <2>3, <3>1
  <2>5. Distinct(cb) /\ \A z : Occurs(cx, z) <=> Occurs(ca, z) \/ Occurs(cb, z)
    BY <2>2, <2>4, PartsApart
  <2>6. ~Occurs(cb, y)
    <3>1. ~Occurs(cx, y)
      BY <1>10, <2>2 DEF Occurs
    <3> QED BY <2>5, <3>1
  <2>7. Split(tA, x, y, i) = tF
    <3>1. tA.mem[x].children = cx /\ ~tA.mem[x].leaf /\ Len(tA.mem[x].values) + 1 = Len(cx)
      BY <1>1, <1>10, <1>35, <2>2
    <3>2. SubSeq(cx, k + 2, Len(cx)) = cb
      BY <2>1, Zenon DEF Rest
    <3> QED BY <1>31, <2>1, <3>1, <3>2 DEF SplitChildren
  <2>8. TreeNodes(n) /\ DOMAIN n = DOMAIN m \cup {y} /\ n[x].children = cx
    BY <1>1, <1>28 DEF Spliced
  <2>9. SameFields(tD, tE) /\ tE.ok = tD.ok /\ Recut(n, tE.mem, x, ca)
    <3>1. /\ Treelike(tD) /\ TreeNodes(tD.mem) /\ x \in DOMAIN tD.mem /\ tD.mem[x].children = cx
          /\ j <= Len(tD.mem[x].children)
      BY <1>4, <1>25, <1>32, <2>3, <2>8 DEF SameFields
    <3>2. CutOK(tD, CutChildren(tD, x, j), x, Fore(tD.mem[x].children, j))
      BY <2>3, <3>1, CutIs
    <3> QED BY <1>25, <2>1, <3>1, <3>2 DEF CutOK
  <2>10. SameFields(tE, tF) /\ tF.ok = tE.ok /\ Placed(tE.mem, tF.mem, y, 0, cb)
    <3>1. TreeNodes(tE.mem) /\ y \in DOMAIN tE.mem /\ Treelike(tE)
      BY <2>8, <2>9 DEF Recut, SameFields
    <3>2. tE.mem[y].children \in Seq(Nat)
      BY <3>1 DEF TreeNodes, Node
    <3>3. 0 \in Nat /\ 0 <= Len(tE.mem[y].children)
      BY <3>2, LenProperties
    <3>4. /\ SameFields(tE, SetChildren(tE, y, 0, cb)) /\ SetChildren(tE, y, 0, cb).ok = tE.ok
          /\ Placed(tE.mem, SetChildren(tE, y, 0, cb).mem, y, 0, cb)
      BY <2>4, <2>5, <2>6, <3>1, <3>3, SetChildrenIs
    <3> QED BY <2>1, <3>4
  <2>11. SharedOut(m, n, tE.mem, tF.mem, x, y, ca, cb)
    BY <1>1, <2>4, <2>9, <2>10 DEF SharedOut
  <2>12. PICK n3 : n3 = tF.mem
    OBVIOUS
  <2>13. /\ Joined(n3, m, p, d, x, y) /\ Links(n3) /\ TreeNodes(n3)
         /\ n3[x].values = a1 /\ n3[y].values = b /\ Len(n3[x].children) = Len(ca)
         /\ \A z \in DOMAIN m : n3[z].max_count = m[z].max_count
         /\ \A z \in DOMAIN m : ~Occurs(m[p].children, z) /\ ~Occurs(m[x].children, z)
                                  => SameLink(m[z], n3[z])
    BY <1>29, <2>11, <2>12, SplitInner
  <2>14. SameLink(m[r], n3[r]) /\ Len(n3[x].children) = Len(n3[x].values) + 1
    BY <1>1, <1>7, <1>33, <2>1, <2>4, <2>13, Zenon
  <2>15. /\ Treelike(tF) /\ tF.root = r /\ tF.rightmost = t.rightmost /\ tF.size = t.size
         /\ tF.ok = t.ok
    BY <1>9, <1>32, <2>9, <2>10 DEF SameFields
  <2>17. n3[y].max_count = max
    <3>1. tE.mem[y].max_count = n[y].max_count
      BY <1>10, <1>40, <2>9 DEF Recut
    <3>2. n3[y].max_count = tE.mem[y].max_count
      BY <2>10, <2>12, Zenon DEF Placed
    <3> QED BY <1>40, <3>1, <3>2
  <2>16. SplitDone(t, tF, p, d, x, y, k, max)
    BY <1>1, <1>7, <2>12, <2>13, <2>14, <2>15, <2>17 DEF SplitDone
  <2> QED BY <1>1, <2>7, <2>16
<1> QED BY <1>5, <1>34, <1>35

\* merge_nodes joins two siblings of one parent whose values and the value
\* between them fit into one node: nothing is lost and nothing put out of order.
THEOREM MergeKeepsTree ==
  ASSUME NEW t, SearchTree(t), NEW p, NEW d, NEW x, NEW y, Siblings(t.mem, p, d, x, y), Joins(t, x, y)
  PROVE  KeepsTree(t, MergeNodes(t, x, y))
<1>1. PICK h, lo, hi : Sound(t.mem, t.root, h, lo, hi)
  BY DEF SearchTree
<1>2. PICK u : u = MergeNodes(t, x, y)
  OBVIOUS
<1>3. Kept(t, u) /\ Joined(t.mem, u.mem, p, d, x, y) /\ TreeNodes(u.mem) /\ Links(u.mem)
  <2>1. /\ Kept(t, MergeNodes(t, x, y))
        /\ Joined(t.mem, MergeNodes(t, x, y).mem, p, d, x, y)
        /\ TreeNodes(MergeNodes(t, x, y).mem) /\ Links(MergeNodes(t, x, y).mem)
    BY <1>1, MergeNodesIs DEF SearchTree
  <2> QED BY <1>2, <2>1
<1>4. TreeNodes(t.mem)
  BY <1>1 DEF Sound, Typed, TreeNodes
<1>5. TreeKeys(u.mem) = TreeKeys(t.mem)
  BY <1>3, <1>4, KeysJoined
<1>6. \E h2, lo2, hi2 : Sound(u.mem, u.root, h2, lo2, hi2)
  <2>1. Sound(u.mem, t.root, OnlyOf(h, u.mem), OnlyOf(lo, u.mem), JoinedHi(hi, u.mem, x, y))
    BY <1>1, <1>3, JoinSound
  <2> QED BY <1>3, <2>1 DEF Kept
<1>7. Fits(u.mem)
  <2>1. SameFrame(t.mem, u.mem, t.root) /\ Fits(t.mem)
    BY <1>3 DEF Kept, SearchTree
  <2>2. 1 + Len(t.mem[x].values) + Len(t.mem[y].values) <= t.mem[x].max_count
    BY DEF Joins, Count
  <2> QED BY <1>3, <1>4, <2>1, <2>2, JoinedFits
<1>8. /\ Treelike(u) /\ u.root = t.root /\ u.size = t.size /\ u.ok = t.ok
      /\ SameRoom(t.mem, u.mem)
  BY <1>3 DEF Kept, SameFrame, SameRoom
<1> QED BY <1>2, <1>5, <1>6, <1>7, <1>8 DEF KeepsTree, SearchTree

LEMMA RebalancedKeeps ==
  ASSUME NEW t, SearchTree(t), NEW p, NEW d, NEW x, NEW y, Siblings(t.mem, p, d, x, y),
         NEW u, NEW e, NEW i, NEW j, Rebalanced(t, u, p, d, x, y, e, i, j),
         i <= t.mem[x].max_count, j <= t.mem[y].max_count
  PROVE  KeepsTree(t, u)
<1>1. PICK h, lo, hi : Sound(t.mem, t.root, h, lo, hi)
  BY DEF SearchTree
<1>2. PICK m, n, r : m = t.mem /\ n = u.mem /\ r = t.root
  OBVIOUS
<1>3. /\ SameFields(t, u) /\ u.ok = t.ok /\ Shared(m, n, p, d, x, y, e)
      /\ Len(n[x].values) = i /\ Len(n[y].values) = j
  BY <1>2 DEF Rebalanced
<1>4. Treelike(t) /\ Sound(m, r, h, lo, hi) /\ Siblings(m, p, d, x, y)
  BY <1>1, <1>2 DEF SearchTree
<1>5. /\ Sound(n, r, h, At2(lo, y, e), At2(hi, x, e)) /\ TreeKeys(n) = TreeKeys(m)
  <2>1. Sharing(t, m, r, h, lo, hi, p, d, x, y, n, e)
    BY <1>2, <1>3, <1>4 DEF Sharing
  <2>2. SharedOK(m, r, h, lo, hi, p, d, x, y, n, e)
    BY <2>1, SharedSound
  <2> QED BY <2>2 DEF SharedOK
<1>6. Treelike(u) /\ u.root = t.root /\ u.size = t.size
  BY <1>3 DEF SameFields
<1>7. Fits(n) /\ SameRoom(m, n)
  <2>1. Fits(m)
    BY <1>2 DEF SearchTree
  <2>2. /\ DOMAIN n = DOMAIN m /\ \A z \in DOMAIN m \ {x, y, p} : SameBody(m[z], n[z])
        /\ n[x].max_count = m[x].max_count /\ n[y].max_count = m[y].max_count
        /\ n[p].max_count = m[p].max_count /\ Len(n[p].values) = Len(m[p].values)
    BY <1>3 DEF Shared
  <2>3. \A z \in DOMAIN m \ {x, y} : Len(n[z].values) <= n[z].max_count
    BY <2>1, <2>2 DEF Fits, SameBody
  <2>5. SameRoom(m, n)
    BY <2>2 DEF SameRoom, SameBody
  <2>4. Len(n[x].values) <= n[x].max_count /\ Len(n[y].values) <= n[y].max_count
    BY <1>2, <1>3, <2>2
  <2> QED BY <2>2, <2>3, <2>4, <2>5 DEF Fits
<1> QED BY <1>2, <1>3, <1>5, <1>6, <1>7 DEF KeepsTree, SearchTree

\* rebalance_right_to_left moves k values of the right sibling, which holds at
\* least as many as the left one, into the room of the left one.
THEOREM RightToLeftKeepsTree ==
  ASSUME NEW t, SearchTree(t), NEW p, NEW d, NEW x, NEW y, Siblings(t.mem, p, d, x, y),
         NEW k \in 1 .. Count(t, y), Count(t, y) >= Count(t, x), k <= Room(t, x)
  PROVE  KeepsTree(t, RebalanceRightToLeft(t, x, y, k))
<1>1. PICK h, lo, hi : Sound(t.mem, t.root, h, lo, hi)
  BY DEF SearchTree
<1>2. PICK i, j : i = Len(t.mem[x].values) + k /\ j = Len(t.mem[y].values) - k
  OBVIOUS
<1>3. /\ k \in 1 .. Len(t.mem[y].values) /\ Len(t.mem[y].values) >= Len(t.mem[x].values)
      /\ k <= t.mem[x].max_count - Len(t.mem[x].values)
  BY DEF Count, Room
<1>4. i <= t.mem[x].max_count /\ j <= t.mem[y].max_count
  <2>1. PICK f, g, b, c : /\ f = Len(t.mem[x].values) /\ g = Len(t.mem[y].values)
                          /\ b = t.mem[x].max_count /\ c = t.mem[y].max_count
    OBVIOUS
  <2>2. /\ Len(t.mem[x].values) \in Nat /\ Len(t.mem[y].values) \in Nat
        /\ t.mem[x].max_count \in Nat /\ t.mem[y].max_count \in Nat
        /\ Len(t.mem[x].values) <= t.mem[x].max_count
        /\ Len(t.mem[y].values) <= t.mem[y].max_count
    BY CountsOf
  <2>3. f \in Nat /\ g \in Nat /\ b \in Nat /\ c \in Nat /\ f <= b /\ g <= c
    BY <2>1, <2>2
  <2>4. k \in 1 .. g /\ k <= b - f /\ i = f + k /\ j = g - k
    BY <1>2, <1>3, <2>1
  <2>5. i <= b /\ j <= c
    BY <2>3, <2>4
  <2> QED BY <2>1, <2>5
<1>5. Rebalanced(t, RebalanceRightToLeft(t, x, y, k), p, d, x, y, t.mem[y].values[k],
                 Len(t.mem[x].values) + k, Len(t.mem[y].values) - k)
  BY <1>1, <1>3, RightToLeftIs DEF SearchTree
<1>6. Rebalanced(t, RebalanceRightToLeft(t, x, y, k), p, d, x, y, t.mem[y].values[k], i, j)
  BY <1>2, <1>5
<1> QED BY <1>4, <1>6, RebalancedKeeps

\* rebalance_left_to_right, the other way round: however many values are given to a
\* right sibling with room for them, the tree is a search tree with the same keys.
THEOREM LeftToRightKeepsTree ==
  ASSUME NEW t, SearchTree(t), NEW p, NEW d, NEW x, NEW y, Siblings(t.mem, p, d, x, y),
         NEW k \in 1 .. Count(t, x), Count(t, x) >= Count(t, y), k <= Room(t, y)
  PROVE  KeepsTree(t, RebalanceLeftToRight(t, x, y, k))
<1>1. PICK h, lo, hi : Sound(t.mem, t.root, h, lo, hi)
  BY DEF SearchTree
<1>2. PICK i, j : i = Len(t.mem[x].values) - k /\ j = Len(t.mem[y].values) + k
  OBVIOUS
<1>3. /\ k \in 1 .. Len(t.mem[x].values) /\ Len(t.mem[x].values) >= Len(t.mem[y].values)
      /\ k <= t.mem[y].max_count - Len(t.mem[y].values)
  BY DEF Count, Room
<1>4. i <= t.mem[x].max_count /\ j <= t.mem[y].max_count
  <2>1. PICK f, g, b, c : /\ f = Len(t.mem[x].values) /\ g = Len(t.mem[y].values)
                          /\ b = t.mem[x].max_count /\ c = t.mem[y].max_count
    OBVIOUS
  <2>2. /\ Len(t.mem[x].values) \in Nat /\ Len(t.mem[y].values) \in Nat
        /\ t.mem[x].max_count \in Nat /\ t.mem[y].max_count \in Nat
        /\ Len(t.mem[x].values) <= t.mem[x].max_count
        /\ Len(t.mem[y].values) <= t.mem[y].max_count
    BY CountsOf
  <2>3. f \in Nat /\ g \in Nat /\ b \in Nat /\ c \in Nat /\ f <= b /\ g <= c
    BY <2>1, <2>2
  <2>4. k \in 1 .. f /\ k <= c - g /\ i = f - k /\ j = g + k
    BY <1>2, <1>3, <2>1
  <2>5. i <= b /\ j <= c
    BY <2>3, <2>4
  <2> QED BY <2>1, <2>5
<1>5. Rebalanced(t, RebalanceLeftToRight(t, x, y, k), p, d, x, y,
                 t.mem[x].values[Len(t.mem[x].values) - k + 1],
                 Len(t.mem[x].values) - k, Len(t.mem[y].values) + k)
  BY <1>1, <1>3, LeftToRightIs DEF SearchTree
<1>6. Rebalanced(t, RebalanceLeftToRight(t, x, y, k), p, d, x, y,
                 t.mem[x].values[Len(t.mem[x].values) - k + 1], i, j)
  BY <1>2, <1>5
<1> QED BY <1>4, <1>6, RebalancedKeeps

LEMMA SplitFits ==
  ASSUME NEW t, Fits(t.mem), TreeNodes(t.mem), NEW u, NEW p, NEW d, NEW x, NEW y,
         NEW k \in Nat, NEW max \in Nat,
         SplitDone(t, u, p, d, x, y, k, max), k < Len(t.mem[x].values), Room(t, p) > 0,
         Len(t.mem[x].values) <= max
  PROVE  Fits(u.mem)
<1>1. PICK m, n : m = t.mem /\ n = u.mem
  OBVIOUS
<1>2. /\ TreeNodes(n) /\ Joined(n, m, p, d, x, y)
      /\ Len(n[x].values) = k /\ Len(n[y].values) = Len(m[x].values) - k - 1 /\ n[y].max_count = max
      /\ \A z \in DOMAIN m : n[z].max_count = m[z].max_count
  BY <1>1 DEF SplitDone
<1>3. /\ DOMAIN n = DOMAIN m \cup {y} /\ x \in DOMAIN m /\ p \in DOMAIN m
      /\ \A z \in DOMAIN m \ {x, p} : SameBody(n[z], m[z])
      /\ Len(m[p].values) = Len(n[p].values) - 1
  BY <1>2 DEF Joined, IsWithout
<1>4. \A z \in DOMAIN m : Len(m[z].values) \in Nat /\ m[z].max_count \in Nat
  <2> SUFFICES ASSUME NEW z \in DOMAIN m PROVE Len(m[z].values) \in Nat /\ m[z].max_count \in Nat
    OBVIOUS
  <2>1. m[z] \in Node
    BY <1>1 DEF TreeNodes
  <2>2. m[z].values \in Seq(Int) /\ m[z].max_count \in Nat
    BY <2>1 DEF Node
  <2> QED BY <2>2, LenProperties
<1>5. Len(n[p].values) \in Nat /\ n[y].max_count \in Nat
  <2>1. n[p] \in Node /\ n[y] \in Node
    BY <1>2, <1>3 DEF TreeNodes
  <2>2. n[p].values \in Seq(Int) /\ n[y].max_count \in Nat
    BY <2>1 DEF Node
  <2> QED BY <2>2, LenProperties
<1>6. Len(n[x].values) <= n[x].max_count
  <2>1. Len(m[x].values) <= m[x].max_count /\ n[x].max_count = m[x].max_count /\ k < Len(m[x].values)
    BY <1>1, <1>2, <1>3 DEF Fits
  <2> QED BY <1>2, <1>3, <1>4, <2>1
<1>7. Len(n[y].values) <= n[y].max_count
  <2>1. Len(m[x].values) <= n[y].max_count /\ Len(m[x].values) \in Nat
    BY <1>1, <1>2, <1>3, <1>4
  <2> QED BY <1>2, <1>5, <2>1
<1>8. Len(n[p].values) <= n[p].max_count
  <2>1. m[p].max_count - Len(m[p].values) > 0 /\ n[p].max_count = m[p].max_count
    BY <1>1, <1>2, <1>3 DEF Room, Count
  <2> QED BY <1>3, <1>4, <1>5, <2>1
<1>9. \A z \in DOMAIN m \ {x, p} : Len(n[z].values) <= n[z].max_count
  BY <1>1, <1>2, <1>3 DEF Fits, SameBody
<1> QED BY <1>1, <1>3, <1>6, <1>7, <1>8, <1>9 DEF Fits

\* internal_insert and rebalance_or_split split a node x that is full; its parent
\* has room for the value that comes up, and the new node, a sibling, for those
\* that leave x.  "above" is what the new node has for a parent until it is in its place.
THEOREM SplitKeepsTree ==
  ASSUME NEW t, SearchTree(t), NEW p \in DOMAIN t.mem, NEW d \in 1 .. Len(t.mem[p].children), NEW x,
         t.mem[p].children[d] = x, Count(t, x) >= 1, Room(t, p) > 0,
         NEW max \in Nat, Count(t, x) <= max, NEW i \in Nat, NEW above \in Nat
  PROVE  KeepsTree(t, Split(Allocate(t, IsLeaf(t, x), above, max), x, Fresh(t), i))
<1>1. PICK h, lo, hi : Sound(t.mem, t.root, h, lo, hi)
  BY DEF SearchTree
<1>2. PICK u, y, k : /\ u = Split(Allocate(t, IsLeaf(t, x), above, max), x, Fresh(t), i) /\ y = Fresh(t)
                     /\ k = Len(t.mem[x].values) - Moving(t, x, i) - 1
  OBVIOUS
<1>3. Len(t.mem[x].values) >= 1 /\ Len(t.mem[x].values) <= max
  BY DEF Count
<1>4. Child1(t.mem, t.root, h, p, d, x)
  BY <1>1, Child1Is DEF Child1At
<1>5. Typed(t.mem, t.root, h, lo, hi) /\ TreeNodes(t.mem) /\ x \in DOMAIN t.mem
  BY <1>1, <1>4 DEF Sound, Typed, TreeNodes, Child1
<1>6. Len(t.mem[x].values) \in Nat
  BY <1>5, NodeOf
<1>7. k \in Nat /\ k < Len(t.mem[x].values)
  <2>1. Moving(t, x, i) \in 0 .. Len(t.mem[x].values) - 1
    BY <1>3, <1>6, MovingIs
  <2>2. PICK f, g : f = Len(t.mem[x].values) /\ g = Moving(t, x, i)
    OBVIOUS
  <2>3. f \in Nat /\ g \in 0 .. f - 1 /\ k = f - g - 1
    BY <1>2, <1>6, <2>1, <2>2
  <2>4. k \in Nat /\ k < f
    BY <2>3
  <2> QED BY <2>2, <2>4
<1>8. SplitDone(t, u, p, d, x, y, k, max)
  <2>1. SplitDone(t, Split(Allocate(t, IsLeaf(t, x), above, max), x, Fresh(t), i), p, d, x, Fresh(t),
                  Len(t.mem[x].values) - Moving(t, x, i) - 1, max)
    BY <1>1, <1>3, SplitIs DEF SearchTree
  <2> QED BY <1>2, <2>1
<1>9. PICK m, n : m = t.mem /\ n = u.mem
  OBVIOUS
<1>10. /\ Treelike(u) /\ u.root = t.root /\ u.size = t.size /\ u.ok = t.ok
       /\ TreeNodes(n) /\ Joined(n, m, p, d, x, y) /\ SameRoom(m, n)
       /\ Links(n) /\ (~n[x].leaf => Len(n[x].children) = Len(n[x].values) + 1)
  BY <1>8, <1>9 DEF SplitDone, SameRoom
<1>11. TreeKeys(m) = TreeKeys(n)
  BY <1>5, <1>9, <1>10, KeysJoined
<1>12. Sound(n, t.root, Extended(h, n, y, h[x]), Extended(lo, n, y, n[p].values[d]),
             SplitHi(hi, n, x, y, n[p].values[d]))
  BY <1>1, <1>9, <1>10, SplitSound
<1>13. \E h2, lo2, hi2 : Sound(n, u.root, h2, lo2, hi2)
  BY <1>10, <1>12
<1>14. Fits(n)
  <2>1. Fits(t.mem)
    BY DEF SearchTree
  <2>2. Fits(u.mem)
    BY <1>3, <1>5, <1>7, <1>8, <2>1, SplitFits
  <2> QED BY <1>9, <2>2
<1> QED BY <1>2, <1>9, <1>10, <1>11, <1>13, <1>14 DEF KeepsTree, SearchTree

(***************************************************************************)
(* A node that fell below half its room.                                   *)
(***************************************************************************)
\* In a tree of more than one node all have room for NodeValues values.
FullSized(t) == \A z \in DOMAIN t.mem : t.mem[z].max_count = NodeValues

Spared(t, x, y) == Min({(Count(t, y) - Count(t, x)) \div 2, Count(t, y) - 1})

TryWith(t, iter, x, p, d, left, right) ==
  CASE d > 0 /\ Joins(t, left, x) ->
         Merged(MergeNodes(t, left, x), At(left, iter.position + 1 + Count(t, left)))
    [] ~(d > 0 /\ Joins(t, left, x)) /\ (d < Count(t, p) /\ Joins(t, right, x)) ->
         Merged(MergeNodes(t, x, right), iter)
    [] /\ ~(d > 0 /\ Joins(t, left, x)) /\ ~(d < Count(t, p) /\ Joins(t, right, x))
       /\ (/\ d < Count(t, p) /\ Count(t, right) > MinNodeValues
           /\ Count(t, x) = 0 \/ iter.position > 0) ->
         Unmerged(RebalanceRightToLeft(t, x, right, Spared(t, x, right)), iter)
    [] /\ ~(d > 0 /\ Joins(t, left, x)) /\ ~(d < Count(t, p) /\ Joins(t, right, x))
       /\ ~(/\ d < Count(t, p) /\ Count(t, right) > MinNodeValues
            /\ Count(t, x) = 0 \/ iter.position > 0)
       /\ (/\ d > 0 /\ Count(t, left) > MinNodeValues
           /\ Count(t, x) = 0 \/ iter.position < Count(t, x)) ->
         Unmerged(RebalanceLeftToRight(t, left, x, Spared(t, x, left)),
                  At(x, iter.position + Spared(t, x, left)))
    [] OTHER -> Unmerged(t, iter)

\* What the tree may become.
TryDone(t, u, x, p, d, left, right) ==
  \/ d > 0 /\ Joins(t, left, x) /\ u = MergeNodes(t, left, x)
  \/ d < Count(t, p) /\ Joins(t, right, x) /\ u = MergeNodes(t, x, right)
  \/ /\ d < Count(t, p) /\ ~Joins(t, right, x)
     /\ u = RebalanceRightToLeft(t, x, right, Spared(t, x, right))
  \/ /\ d > 0 /\ ~Joins(t, left, x)
     /\ u = RebalanceLeftToRight(t, left, x, Spared(t, x, left))
  \/ u = t

LEMMA TryUnfolds ==
  ASSUME NEW t, NEW iter
  PROVE  TryMergeOrRebalance(t, iter)
           = TryWith(t, iter, iter.node, t.mem[iter.node].parent, t.mem[iter.node].position,
                     Child(t, t.mem[iter.node].parent, t.mem[iter.node].position - 1),
                     Child(t, t.mem[iter.node].parent, t.mem[iter.node].position + 1))
BY Zenon DEF TryMergeOrRebalance, TryWith, Spared

LEMMA TryIs ==
  ASSUME NEW t, NEW iter, NEW x, NEW p, NEW d, NEW left, NEW right
  PROVE  TryDone(t, TryWith(t, iter, x, p, d, left, right).tree, x, p, d, left, right)
<1> DEFINE joinsLeft  == d > 0 /\ Joins(t, left, x)
           joinsRight == d < Count(t, p) /\ Joins(t, right, x)
           takesRight == /\ d < Count(t, p) /\ Count(t, right) > MinNodeValues
                         /\ Count(t, x) = 0 \/ iter.position > 0
           takesLeft  == /\ d > 0 /\ Count(t, left) > MinNodeValues
                         /\ Count(t, x) = 0 \/ iter.position < Count(t, x)
           w == TryWith(t, iter, x, p, d, left, right)
<1>1. CASE joinsLeft
  <2>1. w = Merged(MergeNodes(t, left, x), At(left, iter.position + 1 + Count(t, left)))
    BY <1>1 DEF TryWith
  <2> QED BY <1>1, <2>1 DEF TryDone, Merged
<1>2. CASE ~joinsLeft /\ joinsRight
  <2>1. w = Merged(MergeNodes(t, x, right), iter)
    BY <1>2 DEF TryWith
  <2> QED BY <1>2, <2>1 DEF TryDone, Merged
<1>3. CASE ~joinsLeft /\ ~joinsRight /\ takesRight
  <2>1. w = Unmerged(RebalanceRightToLeft(t, x, right, Spared(t, x, right)), iter)
    BY <1>3 DEF TryWith
  <2> QED BY <1>3, <2>1 DEF TryDone, Unmerged
<1>4. CASE ~joinsLeft /\ ~joinsRight /\ ~takesRight /\ takesLeft
  <2>1. w = Unmerged(RebalanceLeftToRight(t, left, x, Spared(t, x, left)),
                     At(x, iter.position + Spared(t, x, left)))
    BY <1>4 DEF TryWith
  <2> QED BY <1>4, <2>1 DEF TryDone, Unmerged
<1>5. CASE ~joinsLeft /\ ~joinsRight /\ ~takesRight /\ ~takesLeft
  <2>1. w = Unmerged(t, iter)
    BY <1>5 DEF TryWith
  <2> QED BY <1>5, <2>1 DEF TryDone, Unmerged
<1> QED BY <1>1, <1>2, <1>3, <1>4, <1>5

\* A node that is not the root and fell below half its room is merged with a sibling,
\* takes values from one, or is left as it is; the siblings' counts are such that no
\* assert of merge and rebalance fails, and the tree keeps its keys in order.
THEOREM TryMergeKeepsTree ==
  ASSUME NEW t, SearchTree(t), FullSized(t), NEW iter, iter.node \in DOMAIN t.mem \ {t.root},
         Count(t, iter.node) < MinNodeValues
  PROVE  KeepsTree(t, TryMergeOrRebalance(t, iter).tree)
<1>1. PICK u, x, p, d, left, right :
        /\ u = TryMergeOrRebalance(t, iter).tree /\ x = iter.node
        /\ p = t.mem[x].parent /\ d = t.mem[x].position
        /\ left = Child(t, p, d - 1) /\ right = Child(t, p, d + 1)
  OBVIOUS
<1>2. TryDone(t, u, x, p, d, left, right)
  <2>1. u = TryWith(t, iter, x, p, d, left, right).tree
    BY <1>1, TryUnfolds, Zenon
  <2> QED BY <2>1, TryIs, Zenon
<1>3. PlaceIn(t.mem, x, p, d)
  BY <1>1, PlaceOfNode
<1>4. /\ d > 0 => Siblings(t.mem, p, d, left, x)
      /\ d < Count(t, p) => Siblings(t.mem, p, d + 1, x, right)
  BY <1>1, <1>3, PlaceSiblings DEF Child, Count
<1>5. \A y \in DOMAIN t.mem : /\ Count(t, y) \in Nat /\ Count(t, y) <= NodeValues
                              /\ t.mem[y].max_count = NodeValues
  BY SearchCounts DEF FullSized, CountOK, Count
<1>6. x \in DOMAIN t.mem /\ Count(t, x) < NodeValues \div 2 /\ NodeValues \in Nat
  BY <1>1, AtLeastThree DEF MinNodeValues
<1>7. ASSUME NEW y \in DOMAIN t.mem, ~Joins(t, y, x) \/ ~Joins(t, x, y)
      PROVE  /\ Spared(t, x, y) \in 1 .. Count(t, y) /\ Count(t, y) >= Count(t, x)
             /\ Spared(t, x, y) <= Room(t, x)
  <2>1. PICK f, g, k : f = Count(t, x) /\ g = Count(t, y) /\ k = Spared(t, x, y)
    OBVIOUS
  <2>2. /\ f \in Nat /\ g \in Nat /\ g <= NodeValues /\ f < NodeValues \div 2
        /\ NodeValues \in Nat /\ k = Min({(g - f) \div 2, g - 1})
    BY <1>5, <1>6, <2>1 DEF Spared
  <2>3. 1 + f + g > NodeValues
    <3>1. ~(1 + f + g <= NodeValues) \/ ~(1 + g + f <= NodeValues)
      BY <1>5, <1>6, <1>7, <2>1 DEF Joins
    <3> QED BY <2>2, <3>1
  <2>4. k \in 1 .. g /\ g >= f /\ k <= NodeValues - f
    BY <2>2, <2>3, SpareIs
  <2> QED BY <1>5, <1>6, <2>1, <2>4 DEF Room
<1>8. CASE d > 0 /\ Joins(t, left, x) /\ u = MergeNodes(t, left, x)
  BY <1>1, <1>4, <1>8, MergeKeepsTree
<1>9. CASE d < Count(t, p) /\ Joins(t, right, x) /\ u = MergeNodes(t, x, right)
  <2>1. Siblings(t.mem, p, d + 1, x, right) /\ right \in DOMAIN t.mem
    BY <1>4, <1>9, SiblingsIn
  <2>2. Joins(t, x, right)
    BY <1>5, <1>6, <1>9, <2>1 DEF Joins
  <2> QED BY <1>1, <1>9, <2>1, <2>2, MergeKeepsTree
<1>10. CASE /\ d < Count(t, p) /\ ~Joins(t, right, x)
            /\ u = RebalanceRightToLeft(t, x, right, Spared(t, x, right))
  <2>1. Siblings(t.mem, p, d + 1, x, right) /\ right \in DOMAIN t.mem
    BY <1>4, <1>10, SiblingsIn
  <2>2. /\ Spared(t, x, right) \in 1 .. Count(t, right) /\ Count(t, right) >= Count(t, x)
        /\ Spared(t, x, right) <= Room(t, x)
    BY <1>7, <1>10, <2>1
  <2>3. KeepsTree(t, RebalanceRightToLeft(t, x, right, Spared(t, x, right)))
    BY <2>1, <2>2, RightToLeftKeepsTree
  <2> QED BY <1>1, <1>10, <2>3
<1>11. CASE /\ d > 0 /\ ~Joins(t, left, x)
            /\ u = RebalanceLeftToRight(t, left, x, Spared(t, x, left))
  <2>1. Siblings(t.mem, p, d, left, x) /\ left \in DOMAIN t.mem
    BY <1>4, <1>11, SiblingsIn
  <2>2. /\ Spared(t, x, left) \in 1 .. Count(t, left) /\ Count(t, left) >= Count(t, x)
        /\ Spared(t, x, left) <= Room(t, x)
    BY <1>7, <1>11, <2>1
  <2>3. KeepsTree(t, RebalanceLeftToRight(t, left, x, Spared(t, x, left)))
    BY <2>1, <2>2, LeftToRightKeepsTree
  <2> QED BY <1>1, <1>11, <2>3
<1>12. CASE u = t
  BY <1>1, <1>12 DEF KeepsTree, SameRoom
<1> QED BY <1>1, <1>2, <1>8, <1>9, <1>10, <1>11, <1>12 DEF TryDone

(***************************************************************************)
(* A node that is full.                                                    *)
(***************************************************************************)
\* There is room in the node, and the place is one before, between or behind its values.
HasRoom(u, x, position) ==
  /\ x \in DOMAIN u.mem /\ Room(u, x) > 0 /\ position \in 0 .. Count(u, x)

\* Place i of x in t is the place that came back, and below the level of x nothing moved.
Lands(t, x, i, l) ==
  \A h, lo, hi : Sound(t.mem, t.root, h, lo, hi)
    => Follows(t.mem, l.tree.mem, t.root, h, lo, hi, x, i, l.iter.node, l.iter.position)

RoomMade(t, x, i, l) ==
  /\ KeepsTree(t, l.tree) /\ FullSized(l.tree)
  /\ HasRoom(l.tree, l.iter.node, l.iter.position) /\ Lands(t, x, i, l)

LEMMA ShareIs ==
  ASSUME NEW room \in Nat, room > 0, NEW all \in BOOLEAN
  PROVE  Share(room, all) \in 1 .. room
<1>1. PICK k : k = IF all THEN room ELSE room \div 2
  OBVIOUS
<1>2. k \in Int /\ k <= room
  BY <1>1
<1>3. Max({1, k}) \in {1, k} /\ Max({1, k}) >= 1
  BY <1>2, MaxOfTwo
<1>4. Share(room, all) = Max({1, k})
  BY <1>1, Zenon DEF Share
<1> QED BY <1>2, <1>3, <1>4

LEMMA CheckedIs ==
  ASSUME NEW t, Treelike(t)
  PROVE  Checked(t, TRUE) = t
BY DEF Checked, Treelike

\* The counts that a rebalancing leaves.
LEMMA RebalancedCounts ==
  ASSUME NEW t, SearchTree(t), FullSized(t), NEW p, NEW d, NEW x, NEW y,
         Siblings(t.mem, p, d, x, y), NEW u, NEW e, NEW i, NEW j, Rebalanced(t, u, p, d, x, y, e, i, j)
  PROVE  /\ FullSized(u) /\ x \in DOMAIN u.mem /\ y \in DOMAIN u.mem
         /\ Count(u, x) = i /\ Count(u, y) = j
         /\ Room(u, x) = NodeValues - i /\ Room(u, y) = NodeValues - j
<1>1. x \in DOMAIN t.mem /\ y \in DOMAIN t.mem
  BY SiblingsIn
<1>2. PICK m, n : m = t.mem /\ n = u.mem
  OBVIOUS
<1>3. DOMAIN n = DOMAIN m /\ Shared(m, n, p, d, x, y, e) /\ Len(n[x].values) = i /\ Len(n[y].values) = j
  BY <1>2 DEF Rebalanced, SameFields
<1>4. /\ \A z \in DOMAIN m \ {x, y, p} : SameBody(m[z], n[z])
      /\ n[x].max_count = m[x].max_count /\ n[y].max_count = m[y].max_count
      /\ n[p].max_count = m[p].max_count
  BY <1>3 DEF Shared
<1>5. \A z \in DOMAIN m : n[z].max_count = m[z].max_count
  BY <1>4 DEF SameBody
<1>6. \A z \in DOMAIN n : n[z].max_count = NodeValues
  BY <1>2, <1>3, <1>5 DEF FullSized
<1> QED BY <1>1, <1>2, <1>3, <1>6 DEF FullSized, Count, Room

LEMMA RebalancedMoves ==
  ASSUME NEW t, SearchTree(t), NEW p, NEW d, NEW x, NEW y, Siblings(t.mem, p, d, x, y),
         NEW u, NEW e, NEW i, NEW j, Rebalanced(t, u, p, d, x, y, e, i, j), NEW k \in Nat,
         NEW h, NEW lo, NEW hi, Sound(t.mem, t.root, h, lo, hi)
  PROVE  SharedMoves(t.mem, u.mem, t.root, h, lo, hi, x, y, k)
<1>1. Shared(t.mem, u.mem, p, d, x, y, e) /\ Treelike(t)
  BY DEF Rebalanced, SearchTree
<1>2. Sharing(t, t.mem, t.root, h, lo, hi, p, d, x, y, u.mem, e)
  BY <1>1 DEF Sharing
<1>3. SharedOK(t.mem, t.root, h, lo, hi, p, d, x, y, u.mem, e)
  BY <1>2, SharedSound
<1> QED BY <1>1, <1>3, SharedFollows

GiveLeftWith(t, x, left, position, n, u) ==
  LET l == IF position < n THEN Landed(u, left, position - n + Count(u, left) + 1)
                           ELSE Landed(u, x, position - n)
  IN  [l EXCEPT !.tree = Checked(@, Room(u, x) = n /\ Room(u, l.iter.node) > 0)]

LEMMA GiveLeftUnfolds ==
  ASSUME NEW t, NEW x, NEW left, NEW position
  PROVE  GiveLeft(t, x, left, position)
           = GiveLeftWith(t, x, left, position,
                          Share(Room(t, left), position >= t.mem[left].max_count),
                          RebalanceRightToLeft(t, left, x,
                            Share(Room(t, left), position >= t.mem[left].max_count)))
BY Zenon DEF GiveLeft, GiveLeftWith

\* A full node gives values to the sibling on its left.
LEMMA GiveLeftMakesRoom ==
  ASSUME NEW t, SearchTree(t), FullSized(t), NEW p, NEW d, NEW x, NEW left,
         Siblings(t.mem, p, d, left, x), Room(t, x) = 0,
         NEW position \in 0 .. NodeValues, LeftTakes(t, x, left, position)
  PROVE  RoomMade(t, x, position, GiveLeft(t, x, left, position))
<1>1. PICK h, lo, hi : Sound(t.mem, t.root, h, lo, hi)
  BY DEF SearchTree
<1>2. PICK n, u, f, all : /\ all = (position >= t.mem[left].max_count)
                          /\ n = Share(Room(t, left), position >= t.mem[left].max_count)
                          /\ u = RebalanceRightToLeft(t, left, x, n) /\ f = Count(t, left)
  OBVIOUS
<1>3. /\ left \in DOMAIN t.mem /\ x \in DOMAIN t.mem
      /\ f \in Nat /\ f <= NodeValues /\ NodeValues \in Nat /\ Count(t, x) \in Nat
      /\ t.mem[left].max_count = NodeValues /\ t.mem[x].max_count = NodeValues
      /\ f = Len(t.mem[left].values) /\ Count(t, x) = Len(t.mem[x].values)
  BY <1>2, SiblingsIn, SearchCounts, AtLeastThree DEF FullSized, CountOK, Count
<1>4. Room(t, left) = NodeValues - f /\ Count(t, x) = NodeValues
  BY <1>2, <1>3 DEF Room
<1>5. n \in 1 .. NodeValues - f /\ (position - n >= 0 \/ n < NodeValues - f)
  <2>1. Room(t, left) > 0 /\ (position - n >= 0 \/ n < Room(t, left))
    BY <1>2, Zenon DEF LeftTakes
  <2>2. PICK room : room = NodeValues - f
    OBVIOUS
  <2>3. room \in Nat /\ room > 0
    BY <1>3, <1>4, <2>1, <2>2
  <2>4. n = Share(room, all) /\ all \in BOOLEAN
    BY <1>2, <1>4, <2>2
  <2> QED BY <1>4, <2>1, <2>2, <2>3, <2>4, ShareIs
<1>6. /\ n \in 1 .. NodeValues /\ NodeValues >= f /\ n \in Nat /\ n >= 1
  BY <1>3, <1>5
<1>7. KeepsTree(t, u)
  <2>1. n \in 1 .. Count(t, x) /\ Count(t, x) >= Count(t, left) /\ n <= Room(t, left)
    BY <1>2, <1>3, <1>4, <1>5, <1>6
  <2>2. KeepsTree(t, RebalanceRightToLeft(t, left, x, n))
    BY <2>1, RightToLeftKeepsTree
  <2> QED BY <1>2, <2>2
<1>8. /\ FullSized(u) /\ left \in DOMAIN u.mem /\ x \in DOMAIN u.mem
      /\ Count(u, left) = f + n /\ Count(u, x) = NodeValues - n
      /\ Room(u, left) = NodeValues - (f + n) /\ Room(u, x) = NodeValues - (NodeValues - n)
      /\ \A h1, lo1, hi1 : Sound(t.mem, t.root, h1, lo1, hi1)
           => SharedMoves(t.mem, u.mem, t.root, h1, lo1, hi1, left, x, position)
  <2>1. n \in 1 .. Len(t.mem[x].values) /\ Len(t.mem[x].values) >= Len(t.mem[left].values)
    BY <1>3, <1>4, <1>6
  <2>2. Rebalanced(t, RebalanceRightToLeft(t, left, x, n), p, d, left, x, t.mem[x].values[n],
                   Len(t.mem[left].values) + n, Len(t.mem[x].values) - n)
    BY <1>1, <2>1, RightToLeftIs DEF SearchTree
  <2>3. Rebalanced(t, u, p, d, left, x, t.mem[x].values[n], f + n, NodeValues - n)
    BY <1>2, <1>3, <1>4, <2>2
  <2>4. /\ FullSized(u) /\ left \in DOMAIN u.mem /\ x \in DOMAIN u.mem
        /\ Count(u, left) = f + n /\ Count(u, x) = NodeValues - n
        /\ Room(u, left) = NodeValues - (f + n) /\ Room(u, x) = NodeValues - (NodeValues - n)
    BY <2>3, RebalancedCounts
  <2>5. ASSUME NEW h1, NEW lo1, NEW hi1, Sound(t.mem, t.root, h1, lo1, hi1)
        PROVE  SharedMoves(t.mem, u.mem, t.root, h1, lo1, hi1, left, x, position)
    <3>1. position \in Nat
      BY <1>3
    <3> QED BY <2>3, <2>5, <3>1, RebalancedMoves
  <2> QED BY <2>4, <2>5
<1>9. Treelike(u)
  BY <1>7 DEF KeepsTree, SearchTree
<1>10. GiveLeft(t, x, left, position) = GiveLeftWith(t, x, left, position, n, u)
  BY <1>2, GiveLeftUnfolds, Zenon
<1>11. /\ Len(t.mem[left].values) = f /\ Len(u.mem[left].values) = f + n
       /\ f + 1 + position <= f + n <=> position < n
       /\ f + 1 + position > f + n <=> ~(position < n)
       /\ f + 1 + position - (f + n) - 1 = position - n
       /\ position - n + (f + n) + 1 = f + 1 + position
  <2>1. position \in Nat /\ n \in Nat /\ f \in Nat
    BY <1>3, <1>6
  <2>2. Len(t.mem[left].values) = f /\ Len(u.mem[left].values) = f + n
    BY <1>3, <1>8 DEF Count
  <2>3. /\ f + 1 + position <= f + n <=> position < n
        /\ f + 1 + position > f + n <=> ~(position < n)
        /\ f + 1 + position - (f + n) - 1 = position - n
        /\ position - n + (f + n) + 1 = f + 1 + position
    BY <2>1
  <2> QED BY <2>2, <2>3
<1>12. CASE position < n
  <2>1. /\ position - n + (f + n) + 1 \in 0 .. f + n /\ NodeValues - (f + n) > 0
        /\ NodeValues - (NodeValues - n) = n
    <3>1. f \in Nat /\ NodeValues \in Nat
      BY <1>3
    <3>2. position \in Nat /\ n \in Nat /\ n < NodeValues - f
      BY <1>5, <1>6, <1>12
    <3>3. position - n + (f + n) + 1 = position + f + 1
      BY <3>1, <3>2
    <3> QED BY <1>12, <3>1, <3>2, <3>3
  <2>2. PICK at : at = position - n + Count(u, left) + 1
    OBVIOUS
  <2>3. GiveLeftWith(t, x, left, position, n, u)
          = [Landed(u, left, at) EXCEPT !.tree = Checked(@, TRUE)]
    BY <1>8, <1>12, <2>1, <2>2 DEF GiveLeftWith, Landed, At
  <2>4. GiveLeft(t, x, left, position) = Landed(u, left, at)
    BY <1>9, <1>10, <2>3, CheckedIs DEF Landed
  <2>5. Lands(t, x, position, Landed(u, left, at))
    BY <1>8, <1>11, <1>12, <2>2 DEF Lands, SharedMoves, Landed, At
  <2> QED BY <1>7, <1>8, <2>1, <2>2, <2>4, <2>5 DEF RoomMade, HasRoom, Landed, At
<1>13. CASE ~(position < n)
  <2>1. /\ position - n \in 0 .. NodeValues - n /\ NodeValues - (NodeValues - n) = n /\ n > 0
    BY <1>3, <1>6, <1>13
  <2>3. GiveLeftWith(t, x, left, position, n, u)
          = [Landed(u, x, position - n) EXCEPT !.tree = Checked(@, TRUE)]
    BY <1>8, <1>13, <2>1 DEF GiveLeftWith, Landed, At
  <2>4. GiveLeft(t, x, left, position) = Landed(u, x, position - n)
    BY <1>9, <1>10, <2>3, CheckedIs DEF Landed
  <2>5. Lands(t, x, position, Landed(u, x, position - n))
    BY <1>8, <1>11, <1>13 DEF Lands, SharedMoves, Landed, At
  <2> QED BY <1>7, <1>8, <2>1, <2>4, <2>5 DEF RoomMade, HasRoom, Landed, At
<1> QED BY <1>12, <1>13

GiveRightWith(x, right, position, u) ==
  [BesideOf(u, x, right, position)
     EXCEPT !.tree = Checked(@, Room(@, BesideOf(u, x, right, position).iter.node) > 0)]

LEMMA GiveRightUnfolds ==
  ASSUME NEW t, NEW x, NEW right, NEW position
  PROVE  GiveRight(t, x, right, position)
           = GiveRightWith(x, right, position,
               RebalanceLeftToRight(t, x, right, Share(Room(t, right), position <= 0)))
BY Zenon DEF GiveRight, GiveRightWith

BesideAt(x, y, k, position, z, i) ==
  IF position > k THEN z = y /\ i = position - k - 1 ELSE z = x /\ i = position

\* Where a place of x is when x kept k of its values, and y to its right has j.
LEMMA BesideIs ==
  ASSUME NEW u, NEW x \in DOMAIN u.mem, NEW y \in DOMAIN u.mem,
         NEW k \in Nat, NEW j \in Nat, NEW position \in Nat, Count(u, x) = k, Count(u, y) = j,
         position <= k => Room(u, x) > 0,
         position > k => Room(u, y) > 0 /\ position - k - 1 <= j
  PROVE  \E z, i : /\ BesideOf(u, x, y, position) = Landed(u, z, i) /\ HasRoom(u, z, i)
                   /\ BesideAt(x, y, k, position, z, i)
<1>1. CASE position > k
  <2>1. BesideOf(u, x, y, position) = Landed(u, y, position - k - 1)
    BY <1>1 DEF BesideOf
  <2>2. position - k - 1 \in 0 .. j
    BY <1>1
  <2> QED BY <1>1, <2>1, <2>2 DEF HasRoom, BesideAt
<1>2. CASE ~(position > k)
  <2>1. BesideOf(u, x, y, position) = Landed(u, x, position)
    BY <1>2 DEF BesideOf
  <2>2. position \in 0 .. k
    BY <1>2
  <2> QED BY <1>2, <2>1, <2>2 DEF HasRoom, BesideAt
<1> QED BY <1>1, <1>2

\* The first half of what a move to the right makes of a place is what a split makes of it.
LEMMA MovesBeside ==
  ASSUME NEW m, NEW n, NEW r, NEW h, NEW lo, NEW hi, NEW x, NEW y, NEW k \in Int, NEW i \in Int,
         Len(n[x].values) = k, NEW z, NEW j, BesideAt(x, y, k, i, z, j),
         SharedMoves(m, n, r, h, lo, hi, x, y, i) \/ SplitMoves(m, n, r, h, lo, hi, x, y, i)
  PROVE  Follows(m, n, r, h, lo, hi, x, i, z, j)
<1>1. /\ i <= k => Follows(m, n, r, h, lo, hi, x, i, x, i)
      /\ i > k => Follows(m, n, r, h, lo, hi, x, i, y, i - k - 1)
  BY DEF SharedMoves, SplitMoves
<1> QED BY <1>1 DEF BesideAt

\* A full node gives values to the sibling on its right.
LEMMA GiveRightMakesRoom ==
  ASSUME NEW t, SearchTree(t), FullSized(t), NEW p, NEW d, NEW x, NEW right,
         Siblings(t.mem, p, d, x, right), Room(t, x) = 0,
         NEW position \in 0 .. NodeValues, RightTakes(t, x, right, position)
  PROVE  RoomMade(t, x, position, GiveRight(t, x, right, position))
<1>1. PICK h, lo, hi : Sound(t.mem, t.root, h, lo, hi)
  BY DEF SearchTree
<1>2. PICK n, u, f, all : /\ all = (position <= 0) /\ n = Share(Room(t, right), position <= 0)
                          /\ u = RebalanceLeftToRight(t, x, right, n) /\ f = Count(t, right)
  OBVIOUS
<1>3. /\ right \in DOMAIN t.mem /\ x \in DOMAIN t.mem
      /\ f \in Nat /\ f <= NodeValues /\ NodeValues \in Nat /\ Count(t, x) \in Nat
      /\ t.mem[right].max_count = NodeValues /\ t.mem[x].max_count = NodeValues
      /\ f = Len(t.mem[right].values) /\ Count(t, x) = Len(t.mem[x].values)
  BY <1>2, SiblingsIn, SearchCounts, AtLeastThree DEF FullSized, CountOK, Count
<1>4. Room(t, right) = NodeValues - f /\ Count(t, x) = NodeValues
  BY <1>2, <1>3 DEF Room
<1>5. n \in 1 .. NodeValues - f /\ (position <= NodeValues - n \/ n < NodeValues - f)
  <2>1. Room(t, right) > 0 /\ (position <= Count(t, x) - n \/ n < Room(t, right))
    BY <1>2, Zenon DEF RightTakes
  <2>2. PICK room : room = NodeValues - f
    OBVIOUS
  <2>3. room \in Nat /\ room > 0
    BY <1>3, <1>4, <2>1, <2>2
  <2>4. n = Share(room, all) /\ all \in BOOLEAN
    BY <1>2, <1>4, <2>2
  <2> QED BY <1>4, <2>1, <2>2, <2>3, <2>4, ShareIs
<1>6. /\ n \in 1 .. NodeValues /\ NodeValues >= f /\ n \in Nat /\ n >= 1
  BY <1>3, <1>5
<1>7. KeepsTree(t, u)
  <2>1. n \in 1 .. Count(t, x) /\ Count(t, x) >= Count(t, right) /\ n <= Room(t, right)
    BY <1>2, <1>3, <1>4, <1>5, <1>6
  <2>2. KeepsTree(t, RebalanceLeftToRight(t, x, right, n))
    BY <2>1, LeftToRightKeepsTree
  <2> QED BY <1>2, <2>2
<1>8. /\ FullSized(u) /\ right \in DOMAIN u.mem /\ x \in DOMAIN u.mem
      /\ Count(u, x) = NodeValues - n /\ Count(u, right) = f + n
      /\ Room(u, x) = NodeValues - (NodeValues - n) /\ Room(u, right) = NodeValues - (f + n)
      /\ \A h1, lo1, hi1 : Sound(t.mem, t.root, h1, lo1, hi1)
           => SharedMoves(t.mem, u.mem, t.root, h1, lo1, hi1, x, right, position)
  <2>1. n \in 1 .. Len(t.mem[x].values) /\ Len(t.mem[x].values) >= Len(t.mem[right].values)
    BY <1>3, <1>4, <1>6
  <2>2. Rebalanced(t, RebalanceLeftToRight(t, x, right, n), p, d, x, right,
                   t.mem[x].values[Len(t.mem[x].values) - n + 1],
                   Len(t.mem[x].values) - n, Len(t.mem[right].values) + n)
    BY <1>1, <2>1, LeftToRightIs DEF SearchTree
  <2>3. Rebalanced(t, u, p, d, x, right, t.mem[x].values[Len(t.mem[x].values) - n + 1],
                   NodeValues - n, f + n)
    BY <1>2, <1>3, <1>4, <2>2
  <2>4. /\ FullSized(u) /\ x \in DOMAIN u.mem /\ right \in DOMAIN u.mem
        /\ Count(u, x) = NodeValues - n /\ Count(u, right) = f + n
        /\ Room(u, x) = NodeValues - (NodeValues - n) /\ Room(u, right) = NodeValues - (f + n)
    BY <2>3, RebalancedCounts
  <2>5. ASSUME NEW h1, NEW lo1, NEW hi1, Sound(t.mem, t.root, h1, lo1, hi1)
        PROVE  SharedMoves(t.mem, u.mem, t.root, h1, lo1, hi1, x, right, position)
    <3>1. position \in Nat
      BY <1>3
    <3> QED BY <2>3, <2>5, <3>1, RebalancedMoves
  <2> QED BY <2>4, <2>5
<1>9. PICK z, i : /\ BesideOf(u, x, right, position) = Landed(u, z, i) /\ HasRoom(u, z, i)
                  /\ BesideAt(x, right, NodeValues - n, position, z, i)
  <2>1. PICK k, j : k = NodeValues - n /\ j = f + n
    OBVIOUS
  <2>2. k \in Nat /\ j \in Nat /\ position \in Nat /\ NodeValues - k > 0
    <3>1. /\ n \in Nat /\ f \in Nat /\ position \in Nat
          /\ NodeValues - n \in Nat /\ NodeValues - (NodeValues - n) > 0
      BY <1>3, <1>6
    <3> QED BY <2>1, <3>1
  <2>3. position > k => NodeValues - j > 0 /\ position - k - 1 <= j
    <3>1. ASSUME position > k PROVE NodeValues - j > 0 /\ position - k - 1 <= j
      <4>1. f \in Nat /\ NodeValues \in Nat /\ position <= NodeValues /\ n \in Nat
        BY <1>3, <1>6
      <4>2. n < NodeValues - f
        BY <1>5, <2>1, <2>2, <3>1, <4>1
      <4> QED BY <2>1, <4>1, <4>2
    <3> QED BY <3>1
  <2>4. Count(u, x) = k /\ Count(u, right) = j /\ Room(u, x) > 0 /\ Room(u, right) = NodeValues - j
    BY <1>8, <2>1, <2>2
  <2>5. \E z, i : /\ BesideOf(u, x, right, position) = Landed(u, z, i) /\ HasRoom(u, z, i)
                  /\ BesideAt(x, right, k, position, z, i)
    BY <1>8, <2>2, <2>3, <2>4, BesideIs
  <2> QED BY <2>1, <2>5
<1>10. GiveRight(t, x, right, position) = Landed(u, z, i)
  <2>1. GiveRight(t, x, right, position) = GiveRightWith(x, right, position, u)
    BY <1>2, GiveRightUnfolds, Zenon
  <2>2. GiveRightWith(x, right, position, u) = [Landed(u, z, i) EXCEPT !.tree = Checked(@, TRUE)]
    <3>1. (Room(u, z) > 0) = TRUE
      BY <1>9 DEF HasRoom
    <3>2. GiveRightWith(x, right, position, u)
            = [Landed(u, z, i) EXCEPT !.tree = Checked(@, Room(u, z) > 0)]
      <4>1. BesideOf(u, x, right, position) = [tree |-> u, iter |-> [node |-> z, position |-> i]]
        BY <1>9, Zenon DEF Landed, At
      <4>2. Landed(u, z, i) = [tree |-> u, iter |-> [node |-> z, position |-> i]]
        BY Zenon DEF Landed, At
      <4> QED BY <4>1, <4>2 DEF GiveRightWith
    <3> QED BY <3>1, <3>2
  <2>3. Treelike(u)
    BY <1>7 DEF KeepsTree, SearchTree
  <2> QED BY <2>1, <2>2, <2>3, CheckedIs DEF Landed
<1>11. Lands(t, x, position, Landed(u, z, i))
  <2> SUFFICES ASSUME NEW h1, NEW lo1, NEW hi1, Sound(t.mem, t.root, h1, lo1, hi1)
               PROVE  Follows(t.mem, u.mem, t.root, h1, lo1, hi1, x, position, z, i)
    BY DEF Lands, Landed, At
  <2>1. SharedMoves(t.mem, u.mem, t.root, h1, lo1, hi1, x, right, position)
    BY <1>8
  <2> QED BY <1>8, <1>9, <2>1, MovesBeside DEF Count
<1> QED BY <1>7, <1>8, <1>9, <1>10, <1>11 DEF RoomMade, Landed, At

SplitTree(t, x, above, position) ==
  Split(Allocate(t, IsLeaf(t, x), above, NodeValues), x, Fresh(t), position)

\* The map's last leaf is y where it was x.
Relocated(t, x, y, u) == IF IsLeaf(t, x) /\ t.rightmost = x THEN [u EXCEPT !.rightmost = y] ELSE u

LEMMA SplitNodeUnfolds ==
  ASSUME NEW t, NEW x, NEW above, NEW position
  PROVE  SplitNode(t, x, above, position)
           = BesideOf(Relocated(t, x, Fresh(t), SplitTree(t, x, above, position)), x, Fresh(t), position)
BY Zenon DEF SplitNode, Relocated, SplitTree

LEMMA RelocatedKeeps ==
  ASSUME NEW t, NEW x, NEW y \in Nat, NEW u, KeepsTree(t, u)
  PROVE  KeepsTree(t, Relocated(t, x, y, u)) /\ Relocated(t, x, y, u).mem = u.mem
<1>1. PICK v : v = [u EXCEPT !.rightmost = y]
  OBVIOUS
<1>2. Treelike(u)
  BY DEF KeepsTree, SearchTree
<1>3. /\ v.mem = u.mem /\ v.root = u.root /\ v.size = u.size /\ v.ok = u.ok /\ Treelike(v)
  BY <1>1, <1>2 DEF Treelike
<1>4. KeepsTree(t, v)
  BY <1>3 DEF KeepsTree, SearchTree
<1> QED BY <1>1, <1>3, <1>4 DEF Relocated

\* A full node, whose parent has room, is split.
LEMMA SplitNodeMakesRoom ==
  ASSUME NEW t, SearchTree(t), FullSized(t),
         NEW p \in DOMAIN t.mem, NEW d \in 1 .. Len(t.mem[p].children), NEW x,
         t.mem[p].children[d] = x, Count(t, x) = NodeValues, Room(t, p) > 0,
         NEW above \in Nat, NEW position \in 0 .. NodeValues
  PROVE  RoomMade(t, x, position, SplitNode(t, x, above, position))
<1>1. PICK h, lo, hi : Sound(t.mem, t.root, h, lo, hi)
  BY DEF SearchTree
<1>2. PICK u, y, k, j : /\ u = SplitTree(t, x, above, position) /\ y = Fresh(t)
                        /\ k = NodeValues - Moving(t, x, position) - 1 /\ j = NodeValues - k - 1
  OBVIOUS
<1>3. NodeValues \in Nat /\ NodeValues >= 1 /\ position \in Nat /\ Len(t.mem[x].values) = NodeValues
  BY AtLeastThree DEF Count
<1>4. k \in Nat /\ k < NodeValues /\ j \in Nat /\ j = NodeValues - k - 1
  <2>1. Moving(t, x, position) \in 0 .. NodeValues - 1
    BY <1>3, MovingIs
  <2>2. PICK g : g = Moving(t, x, position)
    OBVIOUS
  <2>3. g \in 0 .. NodeValues - 1 /\ k = NodeValues - g - 1
    BY <1>2, <2>1, <2>2
  <2>4. k \in Nat /\ k < NodeValues
    BY <1>3, <2>3
  <2> QED BY <1>2, <1>3, <2>4
<1>5. KeepsTree(t, u)
  <2>1. Count(t, x) >= 1 /\ Count(t, x) <= NodeValues
    BY <1>3
  <2> QED BY <1>2, <1>3, <2>1, SplitKeepsTree DEF SplitTree
<1>6. SplitDone(t, u, p, d, x, y, k, NodeValues)
  <2>1. SplitDone(t, Split(Allocate(t, IsLeaf(t, x), above, NodeValues), x, Fresh(t), position),
                  p, d, x, Fresh(t), Len(t.mem[x].values) - Moving(t, x, position) - 1, NodeValues)
    BY <1>1, <1>3, SplitIs DEF SearchTree
  <2> QED BY <1>2, <1>3, <2>1 DEF SplitTree
<1>7. /\ DOMAIN u.mem = DOMAIN t.mem \cup {y} /\ x \in DOMAIN t.mem
      /\ Len(u.mem[x].values) = k /\ Len(u.mem[y].values) = j /\ u.mem[y].max_count = NodeValues
      /\ \A z \in DOMAIN t.mem : u.mem[z].max_count = t.mem[z].max_count
  BY <1>2, <1>3, <1>6 DEF SplitDone, Joined
<1>8. PICK v : v = Relocated(t, x, y, u)
  OBVIOUS
<1>9. KeepsTree(t, v) /\ v.mem = u.mem
  <2>1. y \in Nat
    <3>1. Typed(t.mem, t.root, h, lo, hi) /\ TreeNodes(t.mem)
      BY <1>1 DEF Sound, Typed, TreeNodes
    <3> QED BY <1>2, <3>1, FreshIs DEF SearchTree
  <2> QED BY <1>5, <1>8, <2>1, RelocatedKeeps
<1>10. FullSized(v)
  BY <1>7, <1>9 DEF FullSized
<1>11. /\ x \in DOMAIN v.mem /\ y \in DOMAIN v.mem /\ Count(v, x) = k /\ Count(v, y) = j
       /\ Room(v, x) = NodeValues - k /\ Room(v, y) = NodeValues - j
  BY <1>7, <1>9, <1>10 DEF FullSized, Count, Room
<1>12. PICK z, i : /\ BesideOf(v, x, y, position) = Landed(v, z, i) /\ HasRoom(v, z, i)
                   /\ BesideAt(x, y, k, position, z, i)
  <2>1. NodeValues - k > 0 /\ NodeValues - j > 0 /\ position - k - 1 <= j
    BY <1>3, <1>4
  <2>2. \E z, i : /\ BesideOf(v, x, y, position) = Landed(v, z, i) /\ HasRoom(v, z, i)
                   /\ BesideAt(x, y, k, position, z, i)
    BY <1>3, <1>4, <1>11, <2>1, BesideIs
  <2> QED BY <2>2
<1>13. SplitNode(t, x, above, position) = Landed(v, z, i)
  BY <1>2, <1>8, <1>12, SplitNodeUnfolds, Zenon
<1>14. Lands(t, x, position, Landed(v, z, i))
  <2> SUFFICES ASSUME NEW h1, NEW lo1, NEW hi1, Sound(t.mem, t.root, h1, lo1, hi1)
               PROVE  Follows(t.mem, u.mem, t.root, h1, lo1, hi1, x, position, z, i)
    BY <1>9 DEF Lands, Landed, At
  <2>1. /\ Joined(u.mem, t.mem, p, d, x, y) /\ TreeNodes(u.mem) /\ Links(u.mem)
        /\ ~u.mem[x].leaf => Len(u.mem[x].children) = Len(u.mem[x].values) + 1
        /\ SameLink(t.mem[t.root], u.mem[t.root])
    BY <1>6 DEF SplitDone
  <2>2. SplitMoves(t.mem, u.mem, t.root, h1, lo1, hi1, x, y, position)
    BY <1>3, <2>1, SplitFollows
  <2>3. k \in Int /\ position \in Int /\ Len(u.mem[x].values) = k
    BY <1>3, <1>4, <1>7 DEF Count
  <2> QED BY <1>12, <2>2, <2>3, MovesBeside
<1> QED BY <1>9, <1>10, <1>12, <1>13, <1>14 DEF RoomMade, Landed, At

InWith(t, roomy, x, position, p, d, left, right) ==
  CASE x = t.root -> SplitRoot(Checked(t, Room(t, x) = 0), position)
    [] x # t.root /\ (d > 0 /\ LeftTakes(t, x, left, position)) ->
         GiveLeft(Checked(t, Room(t, x) = 0), x, left, position)
    [] x # t.root /\ ~(d > 0 /\ LeftTakes(t, x, left, position))
       /\ (d < Count(t, p) /\ RightTakes(t, x, right, position)) ->
         GiveRight(Checked(t, Room(t, x) = 0), x, right, position)
    [] OTHER -> SplitNode(Checked(roomy, Room(t, x) = 0), x, p, position)

LEMMA InUnfolds ==
  ASSUME NEW t, NEW roomy, NEW x, NEW position
  PROVE  RebalanceOrSplitIn(t, roomy, x, position)
           = InWith(t, roomy, x, position, t.mem[x].parent, t.mem[x].position,
                    Child(t, t.mem[x].parent, t.mem[x].position - 1),
                    Child(t, t.mem[x].parent, t.mem[x].position + 1))
BY Zenon DEF RebalanceOrSplitIn, InWith

LEMMA SearchTypes ==
  ASSUME NEW t, SearchTree(t), NEW x \in DOMAIN t.mem
  PROVE  t.mem[x].parent \in Nat
<1>1. PICK h, lo, hi : Typed(t.mem, t.root, h, lo, hi)
  BY DEF SearchTree, Sound
<1> QED BY <1>1, NodeOf

\* In n, which comes of t, x has the height and the bounds it had, and below it nothing moved.
Lifted(t, u, x, h, lo, hi, h2, lo2, hi2) ==
  /\ Sound(u.mem, u.root, h2, lo2, hi2) /\ SameLink(t.mem[t.root], u.mem[t.root])
  /\ Stays(t.mem, u.mem, h, lo, hi, h2, lo2, hi2, h[x] + 1)

\* In u, which comes of t, the parent of x has room.
RoomAbove(t, u, x) ==
  /\ KeepsTree(t, u) /\ FullSized(u) /\ Room(u, u.mem[x].parent) > 0
  /\ \A h, lo, hi : Sound(t.mem, t.root, h, lo, hi)
       => \E h2, lo2, hi2 : Lifted(t, u, x, h, lo, hi, h2, lo2, hi2)

LEMMA LiftedSame ==
  ASSUME NEW t, SearchTree(t), NEW x \in DOMAIN t.mem, NEW u, RoomAbove(t, u, x)
  PROVE  x \in DOMAIN u.mem /\ Room(u, x) = Room(t, x) /\ Count(u, x) = Count(t, x)
<1>1. PICK h, lo, hi : Sound(t.mem, t.root, h, lo, hi)
  BY DEF SearchTree
<1>2. PICK h2, lo2, hi2 : Lifted(t, u, x, h, lo, hi, h2, lo2, hi2)
  BY <1>1 DEF RoomAbove
<1>3. h[x] \in Nat
  BY <1>1, NodeOf DEF Sound
<1>4. x \in DOMAIN u.mem /\ SameBody(t.mem[x], u.mem[x])
  BY <1>2, <1>3 DEF Lifted, Stays
<1> QED BY <1>4 DEF SameBody, Room, Count

\* The parent of x has room in t itself.
LEMMA RoomAboveNow ==
  ASSUME NEW t, SearchTree(t), FullSized(t), NEW x, Room(t, t.mem[x].parent) > 0
  PROVE  RoomAbove(t, t, x)
<1>1. KeepsTree(t, t)
  BY DEF KeepsTree, SameRoom
<1>2. ASSUME NEW h, NEW lo, NEW hi, Sound(t.mem, t.root, h, lo, hi)
      PROVE  Lifted(t, t, x, h, lo, hi, h, lo, hi)
  BY <1>2 DEF Lifted, SameLink, Stays, SameBody
<1> QED BY <1>1, <1>2 DEF RoomAbove

\* What made room at the place of x in its parent made room above x.
LEMMA RoomAboveMade ==
  ASSUME NEW t, SearchTree(t), NEW x \in DOMAIN t.mem \ {t.root}, NEW y, NEW d,
         y = t.mem[x].parent, d = t.mem[x].position, NEW l, RoomMade(t, y, d, l)
  PROVE  RoomAbove(t, l.tree, x)
<1>1. PICK u, z, j : u = l.tree /\ z = l.iter.node /\ j = l.iter.position
  OBVIOUS
<1>2. KeepsTree(t, u) /\ FullSized(u) /\ Room(u, z) > 0 /\ u.root = t.root
  BY <1>1 DEF RoomMade, HasRoom, KeepsTree
<1>3. PlaceIn(t.mem, x, y, d)
  BY PlaceOfNode
<1>4. d + 1 \in 1 .. Len(t.mem[y].children) /\ t.mem[y].children[d + 1] = x
  <2>1. PICK n : n = Len(t.mem[y].values)
    OBVIOUS
  <2>2. /\ d \in Nat /\ n \in Nat /\ d <= n /\ Len(t.mem[y].children) = n + 1
        /\ t.mem[y].children[d + 1] = x
    BY <1>3, <2>1 DEF PlaceIn
  <2>3. d + 1 \in 1 .. n + 1
    BY <2>2
  <2> QED BY <2>2, <2>3
<1>5. ASSUME NEW h, NEW lo, NEW hi, Sound(t.mem, t.root, h, lo, hi)
      PROVE  /\ \E h2, lo2, hi2 : Lifted(t, u, x, h, lo, hi, h2, lo2, hi2)
             /\ u.mem[x].parent = z
  <2>1. Follows(t.mem, u.mem, t.root, h, lo, hi, y, d, z, j)
    BY <1>1, <1>5 DEF RoomMade, Lands
  <2>2. PICK h2, lo2, hi2 : Moves(t.mem, u.mem, t.root, h, lo, hi, h2, lo2, hi2, y, d, z, j)
    BY <2>1 DEF Follows
  <2>3. ChildrenOK(t.mem, t.root, h, y)
    <3>1. y \in DOMAIN t.mem
      BY <1>3 DEF PlaceIn
    <3> QED BY <1>5, <3>1, ChildrenAre
  <2>5. h[y] = h[x] + 1
    BY <2>3, <1>4 DEF ChildrenOK
  <2>6. Lifted(t, u, x, h, lo, hi, h2, lo2, hi2)
    BY <1>2, <2>2, <2>5 DEF Moves, Lifted
  <2>7. z \in DOMAIN u.mem /\ j + 1 \in 1 .. Len(u.mem[z].children) /\ u.mem[z].children[j + 1] = x
    BY <2>2, <1>4 DEF Moves, Stands
  <2>8. u.mem[x].parent = z
    <3>1. Links(u.mem)
      BY <2>2 DEF Moves, Sound
    <3> QED BY <2>7, <3>1 DEF Links
  <2> QED BY <2>6, <2>8
<1>6. \E h, lo, hi : Sound(t.mem, t.root, h, lo, hi)
  BY DEF SearchTree
<1> QED BY <1>1, <1>2, <1>5, <1>6 DEF RoomAbove

\* A place that lands from a tree in which the parent of x has room lands from t.
LEMMA LandsAfter ==
  ASSUME NEW t, NEW x \in DOMAIN t.mem, NEW u, RoomAbove(t, u, x), NEW i, NEW l, Lands(u, x, i, l)
  PROVE  Lands(t, x, i, l)
<1> SUFFICES ASSUME NEW h, NEW lo, NEW hi, Sound(t.mem, t.root, h, lo, hi)
             PROVE  Follows(t.mem, l.tree.mem, t.root, h, lo, hi, x, i, l.iter.node, l.iter.position)
  BY DEF Lands
<1>1. PICK h2, lo2, hi2 : Lifted(t, u, x, h, lo, hi, h2, lo2, hi2)
  BY DEF RoomAbove
<1>2. u.root = t.root
  BY DEF RoomAbove, KeepsTree
<1>3. Follows(u.mem, l.tree.mem, t.root, h2, lo2, hi2, x, i, l.iter.node, l.iter.position)
  BY <1>1, <1>2 DEF Lands, Lifted
<1> QED BY <1>1, <1>3, FollowsAfter DEF Lifted, Sound

\* rebalance_or_split, for a node x other than the root that is full.  In "roomy" the
\* parent of x has room: it is the tree itself, or what rebalance_or_split made of it one
\* level up.  The new value finds room in the node and at the place that come back, it
\* belongs there if it belonged at "position" of x, no assert on the way fails, and the tree
\* keeps its keys in order.
THEOREM RebalanceOrSplitMakesRoom ==
  ASSUME NEW t, SearchTree(t), FullSized(t), NEW x \in DOMAIN t.mem \ {t.root}, Room(t, x) = 0,
         NEW roomy, RoomAbove(t, roomy, x), NEW position \in 0 .. Count(t, x)
  PROVE  RoomMade(t, x, position, RebalanceOrSplitIn(t, roomy, x, position))
<1>1. PICK p, d, left, right, l :
        /\ p = t.mem[x].parent /\ d = t.mem[x].position
        /\ left = Child(t, p, d - 1) /\ right = Child(t, p, d + 1)
        /\ l = RebalanceOrSplitIn(t, roomy, x, position)
  OBVIOUS
<1>2. /\ l = InWith(t, roomy, x, position, p, d, left, right)
  BY <1>1, InUnfolds, Zenon
<1>3. /\ SearchTree(roomy) /\ roomy.root = t.root /\ Treelike(t) /\ Treelike(roomy)
      /\ FullSized(roomy) /\ Room(roomy, roomy.mem[x].parent) > 0 /\ KeepsTree(t, roomy)
      /\ x \in DOMAIN roomy.mem /\ Room(roomy, x) = 0
  BY LiftedSame DEF RoomAbove, KeepsTree, SearchTree
<1>4. Checked(t, Room(t, x) = 0) = t /\ Checked(roomy, Room(t, x) = 0) = roomy
  <2>1. (Room(t, x) = 0) = TRUE
    OBVIOUS
  <2> QED BY <1>3, <2>1, CheckedIs
<1>5. PlaceIn(t.mem, x, p, d)
  BY <1>1, PlaceOfNode
<1>6. /\ d > 0 => Siblings(t.mem, p, d, left, x)
      /\ d < Count(t, p) => Siblings(t.mem, p, d + 1, x, right)
  BY <1>1, <1>5, PlaceSiblings DEF Child, Count
<1>7. position \in 0 .. NodeValues /\ Count(roomy, x) = NodeValues /\ NodeValues \in Nat
  <2>1. /\ Count(t, x) \in Nat /\ t.mem[x].max_count = NodeValues
        /\ Count(roomy, x) \in Nat /\ roomy.mem[x].max_count = NodeValues /\ NodeValues \in Nat
    BY <1>3, SearchCounts, AtLeastThree DEF FullSized, CountOK, Count
  <2>2. Count(t, x) = NodeValues /\ Count(roomy, x) = NodeValues
    BY <1>3, <2>1 DEF Room
  <2> QED BY <2>1, <2>2
<1>8. CASE d > 0 /\ LeftTakes(t, x, left, position)
  <2>1. l = GiveLeft(t, x, left, position)
    BY <1>2, <1>4, <1>8 DEF InWith
  <2> QED BY <1>1, <1>6, <1>7, <1>8, <2>1, GiveLeftMakesRoom
<1>9. CASE /\ ~(d > 0 /\ LeftTakes(t, x, left, position))
           /\ d < Count(t, p) /\ RightTakes(t, x, right, position)
  <2>1. l = GiveRight(t, x, right, position)
    BY <1>2, <1>4, <1>9 DEF InWith
  <2> QED BY <1>1, <1>6, <1>7, <1>9, <2>1, GiveRightMakesRoom
<1>10. CASE /\ ~(d > 0 /\ LeftTakes(t, x, left, position))
            /\ ~(d < Count(t, p) /\ RightTakes(t, x, right, position))
  <2>1. l = SplitNode(roomy, x, p, position)
    BY <1>2, <1>4, <1>10 DEF InWith
  <2>2. PICK pr, dr : pr = roomy.mem[x].parent /\ dr = roomy.mem[x].position
    OBVIOUS
  <2>3. PlaceIn(roomy.mem, x, pr, dr)
    BY <1>3, <2>2, PlaceOfNode
  <2>4. /\ pr \in DOMAIN roomy.mem /\ dr + 1 \in 1 .. Len(roomy.mem[pr].children)
        /\ roomy.mem[pr].children[dr + 1] = x
    BY <2>3 DEF PlaceIn
  <2>5. Room(roomy, pr) > 0 /\ p \in Nat
    <3>1. t.mem[x].parent \in Nat
      BY SearchTypes
    <3> QED BY <1>1, <1>3, <2>2, <3>1
  <2>6. RoomMade(roomy, x, position, l)
    BY <1>3, <1>7, <2>1, <2>4, <2>5, SplitNodeMakesRoom
  <2>7. KeepsTree(t, l.tree)
    <3>1. SameRoom(t.mem, l.tree.mem)
      BY <2>6 DEF RoomMade, FullSized, SameRoom
    <3> QED BY <1>3, <2>6, <3>1 DEF RoomMade, KeepsTree
  <2>8. Lands(t, x, position, l)
    BY <2>6, LandsAfter DEF RoomMade
  <2> QED BY <1>1, <2>6, <2>7, <2>8 DEF RoomMade
<1> QED BY <1>8, <1>9, <1>10

(***************************************************************************)
(* Search.                                                                 *)
(***************************************************************************)
\* The values before place i are smaller than k, and no other is.
BoundIs(v, i, k) ==
  /\ i \in 0 .. Len(v)
  /\ \A j \in 1 .. Len(v) : (j <= i => v[j] < k) /\ (j > i => k <= v[j])

LEMMA LowerBoundIs ==
  ASSUME NEW t, NEW x, NEW l, NEW g, ValuesOK(t.mem[x].values, l, g), NEW k \in Int
  PROVE  BoundIs(t.mem[x].values, LowerBound(t, x, k), k)
<1>1. PICK v, n, b : v = t.mem[x].values /\ n = Len(v) /\ b = LowerBound(t, x, k)
  OBVIOUS
<1>2. n \in Nat /\ \A j \in 1 .. n : v[j] \in Int
  BY <1>1 DEF ValuesOK
<1>3. \A i, j \in 1 .. n : i < j => v[i] < v[j]
  BY <1>1 DEF ValuesOK
<1>4. b = CHOOSE i \in 0 .. n : /\ \A j \in 0 .. i - 1 : v[j + 1] < k
                                /\ i = n \/ v[i + 1] >= k
  BY <1>1, Zenon DEF LowerBound, Count, Value
<1>5. \E i \in 0 .. n : /\ \A j \in 0 .. i - 1 : v[j + 1] < k
                        /\ i = n \/ v[i + 1] >= k
  <2>1. PICK S : S = {i \in 0 .. n : i = n \/ v[i + 1] >= k}
    OBVIOUS
  <2>2. S \in SUBSET Nat /\ n \in S
    BY <1>2, <2>1
  <2>3. PICK i \in S : \A j \in S : i <= j
    BY <2>2, LeastOf
  <2>4. i \in 0 .. n /\ (i = n \/ v[i + 1] >= k)
    BY <2>1
  <2>5. ASSUME NEW j \in 0 .. i - 1 PROVE v[j + 1] < k
    <3>1. j \notin S /\ j \in 0 .. n /\ j # n /\ j + 1 \in 1 .. n
      BY <1>2, <2>3, <2>4
    <3>2. v[j + 1] \in Int
      BY <1>2, <3>1
    <3> QED BY <2>1, <3>1, <3>2
  <2> QED BY <2>4, <2>5
<1>6. b \in 0 .. n /\ (\A j \in 0 .. b - 1 : v[j + 1] < k) /\ (b = n \/ v[b + 1] >= k)
  BY <1>4, <1>5
<1>7. ASSUME NEW j \in 1 .. n PROVE (j <= b => v[j] < k) /\ (j > b => k <= v[j])
  <2>1. ASSUME j <= b PROVE v[j] < k
    <3>1. j - 1 \in 0 .. b - 1 /\ j - 1 + 1 = j
      BY <1>2, <1>6, <2>1
    <3>2. v[j - 1 + 1] < k
      BY <1>6, <3>1
    <3> QED BY <3>1, <3>2
  <2>2. ASSUME j > b PROVE k <= v[j]
    <3>1. b # n /\ b + 1 \in 1 .. n /\ (b + 1 = j \/ b + 1 < j)
      BY <1>2, <1>6, <2>2
    <3>2. v[b + 1] >= k /\ v[b + 1] \in Int /\ v[j] \in Int /\ (b + 1 = j \/ v[b + 1] < v[j])
      BY <1>2, <1>3, <1>6, <3>1
    <3> QED BY <3>2
  <2> QED BY <2>1, <2>2
<1> QED BY <1>1, <1>6, <1>7 DEF BoundIs

\* Where a search for k from y may end: at the first value not below k of a leaf
\* between the bounds of which k lies.
Reached(t, lo, hi, at, k) ==
  \E z \in DOMAIN t.mem : /\ IsLeaf(t, z) /\ at = At(z, LowerBound(t, z, k))
                          /\ lo[z] < k /\ k <= hi[z]

LEMMA LocateReaches ==
  ASSUME NEW t, NEW h, NEW lo, NEW hi, Sound(t.mem, t.root, h, lo, hi), NEW k \in Int,
         NEW x \in DOMAIN t.mem, lo[x] < k, k <= hi[x]
  PROVE  Reached(t, lo, hi, LocateFrom(t, x, k), k)
<1>1. PICK m, r, D : m = t.mem /\ r = t.root /\ D = DOMAIN m
  OBVIOUS
<1>2. PICK down, base : /\ down = [y \in D |-> Child(t, y, LowerBound(t, y, k))]
                        /\ base = [y \in D |-> At(y, LowerBound(t, y, k))]
  OBVIOUS
<1>3. /\ Typed(m, r, h, lo, hi) /\ Furnished(m, h) /\ Hung(m, r, h, lo, hi)
      /\ IsFiniteSet(D) /\ h \in [D -> Nat] /\ Sound(m, r, h, lo, hi)
  BY <1>1 DEF Sound, Shape, Typed
<1>4. \A y \in D : /\ IsLeaf(t, y) <=> h[y] = 0
                   /\ h[y] \in Nat /\ lo[y] \in Int /\ hi[y] \in Int /\ m[y].leaf \in BOOLEAN
  BY <1>1, <1>3, NodeOf DEF Furnished, IsLeaf
<1>5. \A y \in D : BoundIs(m[y].values, LowerBound(t, y, k), k)
  <2> SUFFICES ASSUME NEW y \in D PROVE BoundIs(m[y].values, LowerBound(t, y, k), k)
    OBVIOUS
  <2>1. ValuesOK(t.mem[y].values, lo[y], hi[y])
    BY <1>1, ValuesOf
  <2> QED BY <1>1, <2>1, LowerBoundIs
\* The child a search goes to, which has k between its bounds when y has.
<1>6. ASSUME NEW y \in D, h[y] # 0
      PROVE  /\ down[y] \in D /\ h[y] = h[down[y]] + 1
             /\ lo[y] < k /\ k <= hi[y] => lo[down[y]] < k /\ k <= hi[down[y]]
  <2>1. PICK v, n, i, c : /\ v = m[y].values /\ n = Len(v) /\ i = LowerBound(t, y, k)
                          /\ c = m[y].children[i + 1]
    OBVIOUS
  <2>2. down[y] = c
    BY <1>1, <1>2, <2>1 DEF Child
  <2>3. BoundIs(v, i, k) /\ ValuesOK(v, lo[y], hi[y])
    BY <1>1, <1>5, <2>1, ValuesOf
  <2>4. n \in Nat /\ i \in 0 .. n /\ lo[y] \in Int /\ hi[y] \in Int
    BY <2>1, <2>3 DEF BoundIs, ValuesOK
  <2>5. Len(m[y].children) = n + 1
    BY <1>3, <1>4, <1>6, <1>1, <2>1 DEF Furnished
  <2>6. Hangs(m, r, h, lo, hi, m[y].children[i + 1], y, i + 1)
    <3>1. i + 1 \in 1 .. Len(m[y].children)
      BY <2>4, <2>5
    <3> QED BY <1>1, <1>3, <3>1 DEF Hung
  <2>7. /\ c \in D /\ h[y] = h[c] + 1
        /\ lo[c] = Fence(v, lo[y], hi[y], i) /\ hi[c] = Fence(v, lo[y], hi[y], i + 1)
    <3>1. PICK j : j = i + 1
      OBVIOUS
    <3>2. j - 1 = i
      BY <2>4, <3>1
    <3>3. Hangs(m, r, h, lo, hi, c, y, j)
      BY <2>1, <2>6, <3>1
    <3>4. c \in D /\ h[y] = h[c] + 1 /\ lo[c] = Fence(v, lo[y], hi[y], j - 1) /\ hi[c] = Fence(v, lo[y], hi[y], j)
      BY <1>1, <2>1, <3>3 DEF Hangs
    <3> QED BY <3>1, <3>2, <3>4
  <2>8. ASSUME lo[y] < k, k <= hi[y] PROVE lo[c] < k /\ k <= hi[c]
    <3>1. lo[c] < k
      <4>1. CASE i = 0
        BY <2>7, <2>8, <4>1 DEF Fence
      <4>2. CASE i # 0
        <5>1. i \in 1 .. n /\ i # n + 1 /\ i <= i
          BY <2>4, <4>2
        <5>2. lo[c] = v[i] /\ v[i] < k
          BY <2>1, <2>3, <2>7, <4>2, <5>1 DEF Fence, BoundIs
        <5> QED BY <5>2
      <4> QED BY <4>1, <4>2
    <3>2. k <= hi[c]
      <4>1. CASE i = n
        <5>1. i + 1 # 0 /\ i + 1 = n + 1
          BY <2>4, <4>1
        <5> QED BY <2>1, <2>7, <2>8, <5>1 DEF Fence
      <4>2. CASE i # n
        <5>1. i + 1 \in 1 .. n /\ i + 1 # n + 1 /\ i + 1 > i /\ i + 1 # 0
          BY <2>4, <4>2
        <5>2. hi[c] = v[i + 1] /\ k <= v[i + 1]
          BY <2>1, <2>3, <2>7, <5>1 DEF Fence, BoundIs
        <5> QED BY <5>2
      <4> QED BY <4>1, <4>2
    <3> QED BY <3>1, <3>2
  <2> QED BY <1>4, <1>6, <2>2, <2>7, <2>8
<1> DEFINE Rec(f) == [y \in DOMAIN t.mem |->
                        LET i == LowerBound(t, y, k)
                        IN  IF IsLeaf(t, y) THEN At(y, i) ELSE f[Child(t, y, i)]]
           locate == CHOOSE f : f = Rec(f)
<1>7. LocateFrom(t, x, k) = locate[x]
  BY DEF LocateFrom
<1>8. PICK f : Descends(D, h, base, down, f)
  <2>1. \A y \in D : h[y] # 0 => down[y] \in D /\ h[down[y]] < h[y]
    BY <1>4, <1>6
  <2> HIDE DEF Rec, locate
  <2> QED BY <1>3, <2>1, DescentSolved
<1>9. f = Rec(f)
  <2>1. \A y \in D : (IF h[y] = 0 THEN base[y] ELSE f[down[y]])
                       = (LET i == LowerBound(t, y, k)
                          IN  IF IsLeaf(t, y) THEN At(y, i) ELSE f[Child(t, y, i)])
    BY <1>2, <1>4
  <2> QED BY <1>1, <1>8, <2>1 DEF Descends
<1>10. locate = Rec(locate)
  BY <1>9
<1>11. PICK g : g = locate
  OBVIOUS
<1>12. \A y \in D : g[y] = IF h[y] = 0 THEN base[y] ELSE g[down[y]]
  <2>1. \A y \in D : locate[y] = LET i == LowerBound(t, y, k)
                                 IN  IF IsLeaf(t, y) THEN At(y, i) ELSE locate[Child(t, y, i)]
    BY <1>1, <1>10
  <2> HIDE DEF locate
  <2> QED BY <1>2, <1>4, <1>11, <2>1
<1> HIDE DEF Rec, locate
<1>13. PICK T : T = {n \in Nat : \A y \in D : h[y] = n /\ lo[y] < k /\ k <= hi[y]
                                                => Reached(t, lo, hi, g[y], k)}
  OBVIOUS
<1>14. \A n \in 0 .. h[x] : n \in T
  <2>1. 0 \in T
    <3> SUFFICES ASSUME NEW y \in D, h[y] = 0, lo[y] < k, k <= hi[y]
                 PROVE  Reached(t, lo, hi, g[y], k)
      BY <1>13
    <3> QED BY <1>1, <1>2, <1>4, <1>12 DEF Reached
  <2>2. ASSUME NEW n \in 0 .. h[x] - 1, n \in T PROVE n + 1 \in T
    <3> SUFFICES ASSUME NEW y \in D, h[y] = n + 1, lo[y] < k, k <= hi[y]
                 PROVE  Reached(t, lo, hi, g[y], k)
      BY <1>13
    <3>1. h[y] # 0
      OBVIOUS
    <3>2. g[y] = g[down[y]] /\ down[y] \in D /\ lo[down[y]] < k /\ k <= hi[down[y]]
      BY <1>6, <1>12, <3>1
    <3>3. h[down[y]] = n
      <4>1. h[y] = h[down[y]] + 1 /\ h[down[y]] \in Nat
        BY <1>4, <1>6, <3>1, <3>2
      <4>2. PICK q : q = h[down[y]]
        OBVIOUS
      <4> QED BY <4>1, <4>2
    <3> QED BY <1>13, <2>2, <3>2, <3>3
  <2>3. h[x] \in Nat
    BY <1>1, <1>4
  <2> QED BY <2>1, <2>2, <2>3, UpTo
<1>15. Reached(t, lo, hi, g[x], k)
  <2>1. x \in D /\ h[x] \in 0 .. h[x]
    BY <1>1, <1>4
  <2> QED BY <1>13, <1>14, <2>1
<1> QED BY <1>7, <1>11, <1>15

\* The place behind y and all that hangs below it: a place of the first value that is
\* greater, or none.
BehindIs(t, hi, at, y) ==
  IF hi[y] = hi[t.root] THEN at.node = NULL
  ELSE /\ at.node \in DOMAIN t.mem /\ at.position \in Nat /\ at.position < Count(t, at.node)
       /\ Value(t, at.node, at.position) = hi[y]

StopsAt(t, y) ==
  IsLeaf(t, t.mem[y].parent) \/ t.mem[y].position < Count(t, t.mem[y].parent)

StopOf(t, y) ==
  IF IsLeaf(t, t.mem[y].parent) THEN At(NULL, t.mem[y].position)
  ELSE At(t.mem[y].parent, t.mem[y].position)

LastAt(t, f, y) ==
  LET up == At(t.mem[y].parent, t.mem[y].position)
  IN  IF IsLeaf(t, up.node) THEN [up EXCEPT !.node = NULL]
      ELSE IF up.position < Count(t, up.node) THEN up ELSE f[up.node]

LastRec(t, f) == [y \in DOMAIN t.mem |-> LastAt(t, f, y)]

LEMMA LastAtIs ==
  ASSUME NEW t, NEW f, NEW y
  PROVE  LastAt(t, f, y) = IF StopsAt(t, y) THEN StopOf(t, y) ELSE f[t.mem[y].parent]
<1>1. PICK x, d : x = t.mem[y].parent /\ d = t.mem[y].position
  OBVIOUS
<1>2. LastAt(t, f, y) = IF IsLeaf(t, x) THEN At(NULL, d)
                        ELSE IF d < Count(t, x) THEN At(x, d) ELSE f[x]
  BY <1>1 DEF LastAt, At
<1> QED BY <1>1, <1>2, Zenon DEF StopsAt, StopOf

LEMMA LastStep ==
  ASSUME NEW t, NEW f, f = LastRec(t, f)
  PROVE  \A y \in DOMAIN t.mem : f[y] = IF StopsAt(t, y) THEN StopOf(t, y) ELSE f[t.mem[y].parent]
<1> SUFFICES ASSUME NEW y \in DOMAIN t.mem
             PROVE  f[y] = IF StopsAt(t, y) THEN StopOf(t, y) ELSE f[t.mem[y].parent]
  OBVIOUS
<1>1. f[y] = LastAt(t, f, y)
  BY DEF LastRec
<1> QED BY <1>1, LastAtIs, Zenon

LEMMA LastSolved ==
  ASSUME NEW t, NEW h, NEW lo, NEW hi, Sound(t.mem, t.root, h, lo, hi), IsRoot(t, t.root)
  PROVE  \E f : f = LastRec(t, f)
<1>1. PICK m, r, D : m = t.mem /\ r = t.root /\ D = DOMAIN m
  OBVIOUS
<1>2. /\ Typed(m, r, h, lo, hi) /\ IsFiniteSet(D) /\ r \in D /\ Sound(m, r, h, lo, hi)
  BY <1>1 DEF Sound, Typed
<1>3. \A y \in D : h[y] \in Nat /\ h[y] <= h[r]
  <2> SUFFICES ASSUME NEW y \in D PROVE h[y] \in Nat /\ h[y] <= h[r]
    OBVIOUS
  <2>1. h[y] \in Nat /\ h[r] \in Nat
    <3>1. h \in [D -> Nat]
      BY <1>1, <1>2 DEF Typed
    <3> QED BY <1>2, <3>1
  <2>2. y = r \/ h[y] < h[r]
    BY <1>1, RootHighest
  <2> QED BY <2>1, <2>2
<1>4. PICK g, base, up : /\ g = [y \in D |-> IF StopsAt(t, y) THEN 0 ELSE h[r] - h[y] + 1]
                         /\ base = [y \in D |-> StopOf(t, y)] /\ up = [y \in D |-> m[y].parent]
  OBVIOUS
<1>5. \A y \in D : /\ g[y] = (IF StopsAt(t, y) THEN 0 ELSE h[r] - h[y] + 1) /\ g[y] \in Nat
                   /\ g[y] # 0 <=> ~StopsAt(t, y)
  BY <1>2, <1>3, <1>4
<1>6. g \in [D -> Nat]
  BY <1>4, <1>5
<1>7. ASSUME NEW y \in D, g[y] # 0 PROVE up[y] \in D /\ g[up[y]] < g[y]
  <2>1. ~StopsAt(t, y)
    BY <1>5, <1>7
  <2>2. y # r
    BY <1>1, <2>1 DEF StopsAt, IsRoot
  <2>3. PICK x, i, v : PlacedAt(m, h, lo, hi, y, x, i, v)
    BY <1>1, <1>7, <2>2, PlaceOf
  <2>4. x = m[y].parent /\ x \in D /\ h[x] = h[y] + 1
    BY <1>1, <2>3 DEF PlacedAt
  <2>5. up[y] = x
    BY <1>4, <2>4
  <2>6. PICK q, s, w : q = h[y] /\ s = h[r] /\ w = h[x]
    OBVIOUS
  <2>7. q \in Nat /\ s \in Nat /\ w = q + 1 /\ w <= s
    BY <1>2, <1>3, <2>4, <2>6
  <2>8. g[y] = s - q + 1 /\ (g[x] = 0 \/ g[x] = s - w + 1)
    BY <1>5, <2>1, <2>4, <2>6
  <2>9. g[x] < g[y]
    BY <2>7, <2>8
  <2> QED BY <2>4, <2>5, <2>9
<1>8. PICK f : Descends(D, g, base, up, f)
  BY <1>2, <1>6, <1>7, DescentSolved
<1>9. \A y \in D : (IF g[y] = 0 THEN base[y] ELSE f[up[y]])
                     = (IF StopsAt(t, y) THEN StopOf(t, y) ELSE f[m[y].parent])
  BY <1>4, <1>5
<1>10. \A y \in D : (IF g[y] = 0 THEN base[y] ELSE f[up[y]]) = LastAt(t, f, y)
  BY <1>1, <1>9, LastAtIs
<1>11. f = LastRec(t, f)
  BY <1>1, <1>8, <1>10 DEF Descends, LastRec
<1> QED BY <1>11

\* internal_last: a place that is not behind all values of its node stays.
LEMMA InternalLastIs ==
  ASSUME NEW t, NEW h, NEW lo, NEW hi, Sound(t.mem, t.root, h, lo, hi), IsRoot(t, t.root),
         NEW iter, iter.node \in DOMAIN t.mem
  PROVE  IF iter.position < Count(t, iter.node) THEN InternalLast(t, iter) = iter
         ELSE BehindIs(t, hi, InternalLast(t, iter), iter.node)
<1>1. PICK m, r : m = t.mem /\ r = t.root
  OBVIOUS
<1> DEFINE behind == CHOOSE f : f = LastRec(t, f)
<1>2. InternalLast(t, iter) = IF iter.position < Count(t, iter.node) THEN iter
                              ELSE behind[iter.node]
  BY DEF InternalLast, LastRec, LastAt
<1>3. behind = LastRec(t, behind)
  BY LastSolved
<1>4. PICK f : f = behind
  OBVIOUS
<1>5. f = LastRec(t, f)
  BY <1>3, <1>4
<1> HIDE DEF behind
<1>6. \A y \in DOMAIN m : f[y] = IF StopsAt(t, y) THEN StopOf(t, y) ELSE f[m[y].parent]
  BY <1>1, <1>5, LastStep
<1>7. PICK T : T = {y \in DOMAIN m : BehindIs(t, hi, f[y], y)}
  OBVIOUS
<1>8. r \in T
  <2>1. StopsAt(t, r) /\ IsLeaf(t, m[r].parent) /\ r \in DOMAIN m
    BY <1>1 DEF StopsAt, IsRoot, Sound, Typed
  <2>2. f[r] = At(NULL, m[r].position)
    BY <1>1, <1>6, <2>1 DEF StopOf
  <2> QED BY <1>1, <1>7, <2>1, <2>2 DEF BehindIs, At
<1>9. ASSUME NEW c, NEW x, NEW i, NEW v, c \in DOMAIN m \ {r}, x \in T,
             PlacedAt(m, h, lo, hi, c, x, i, v)
      PROVE  c \in T
  <2>1. /\ x = m[c].parent /\ i = m[c].position + 1 /\ v = m[x].values /\ x \in DOMAIN m
        /\ ~m[x].leaf /\ i \in 1 .. Len(v) + 1 /\ hi[c] = Fence(v, lo[x], hi[x], i)
    BY <1>9 DEF PlacedAt
  <2>2. ValuesOK(v, lo[x], hi[x])
    BY <1>1, <2>1, ValuesOf
  <2>3. PICK d, n : d = m[c].position /\ n = Len(v)
    OBVIOUS
  <2>4. d \in Nat /\ n \in Nat
    <3>1. Typed(m, r, h, lo, hi)
      BY <1>1 DEF Sound
    <3> QED BY <1>9, <2>2, <2>3, <3>1, NodeOf DEF ValuesOK
  <2>5. IsLeaf(t, x) = m[x].leaf /\ Count(t, x) = n
    BY <1>1, <2>1, <2>3 DEF IsLeaf, Count
  <2>6. CASE d < n
    <3>1. StopsAt(t, c)
      BY <1>1, <2>1, <2>3, <2>5, <2>6 DEF StopsAt
    <3>2. f[c] = At(x, d)
      BY <1>1, <1>6, <1>9, <2>1, <2>3, <2>5, <3>1 DEF StopOf
    <3>3. d + 1 \in 1 .. n /\ d + 1 # 0 /\ d + 1 # n + 1
      BY <2>4, <2>6
    <3>4. hi[c] = v[d + 1]
      BY <2>1, <2>3, <3>3 DEF Fence
    <3>5. hi[c] < hi[x] /\ hi[x] <= hi[r] /\ hi[c] \in Int /\ hi[x] \in Int /\ hi[r] \in Int
      <4>1. v[d + 1] < hi[x] /\ v[d + 1] \in Int /\ hi[x] \in Int
        BY <2>2, <2>3, <3>3 DEF ValuesOK
      <4>2. hi[x] <= hi[r] /\ hi[r] \in Int
        BY <1>1, <2>1, RootBounds, NodeOf DEF Sound, Typed
      <4> QED BY <3>4, <4>1, <4>2
    <3>6. hi[c] # hi[r]
      BY <3>5
    <3>7. Value(t, x, d) = hi[c]
      BY <1>1, <2>1, <3>4 DEF Value
    <3> QED BY <1>1, <1>7, <1>9, <2>1, <2>4, <2>5, <2>6, <3>2, <3>6, <3>7 DEF BehindIs, At
  <2>7. CASE ~(d < n)
    <3>1. i = n + 1 /\ i # 0
      <4>1. i = d + 1 /\ i \in 1 .. n + 1
        BY <2>1, <2>3
      <4> QED BY <2>4, <2>7, <4>1
    <3>2. hi[c] = hi[x]
      BY <2>1, <2>3, <3>1 DEF Fence
    <3>3. ~StopsAt(t, c)
      BY <1>1, <2>1, <2>3, <2>5, <2>7 DEF StopsAt
    <3>4. f[c] = f[x]
      BY <1>6, <1>9, <2>1, <3>3
    <3>5. BehindIs(t, hi, f[x], x)
      BY <1>7, <1>9
    <3> QED BY <1>1, <1>7, <1>9, <3>2, <3>4, <3>5 DEF BehindIs
  <2> QED BY <2>6, <2>7
<1>10. \A y \in DOMAIN m : y \in T
  BY <1>1, <1>8, <1>9, Downwards
<1>11. BehindIs(t, hi, f[iter.node], iter.node)
  BY <1>1, <1>7, <1>10
<1> QED BY <1>2, <1>4, <1>11

\* The keys below a leaf's bounds and those above them are in other nodes.
LEMMA KeysBeside ==
  ASSUME NEW m, NEW r, NEW h, NEW lo, NEW hi, Sound(m, r, h, lo, hi),
         NEW z \in DOMAIN m, m[z].leaf, NEW q \in TreeKeys(m)
  PROVE  q \in Int /\ q < hi[r] /\ (q <= lo[z] \/ hi[z] <= q \/ InSeq(m[z].values, q))
<1>1. Typed(m, r, h, lo, hi) /\ TreeNodes(m) /\ Furnished(m, h) /\ r \in DOMAIN m
  BY DEF Sound, Shape, Typed, TreeNodes
<1>2. KeyAt(m, q)
  BY <1>1, KeysAt
<1>3. PICK y \in DOMAIN m : \E i \in 1 .. Len(m[y].values) : m[y].values[i] = q
  BY <1>2 DEF KeyAt
<1>31. PICK i \in 1 .. Len(m[y].values) : m[y].values[i] = q
  BY <1>3
<1>4. ValuesOK(m[y].values, lo[y], hi[y])
  BY ValuesOf
<1>5. q \in Int /\ q < hi[y] /\ hi[y] \in Int
  BY <1>31, <1>4 DEF ValuesOK
<1>6. hi[y] <= hi[r] /\ hi[r] \in Int
  <2>1. hi \in [DOMAIN m -> Int]
    BY <1>1 DEF Typed
  <2> QED BY <1>1, <2>1, RootBounds
<1>7. CASE y = z
  BY <1>31, <1>5, <1>6, <1>7 DEF InSeq
<1>8. CASE y # z
  <2>1. h[z] <= h[y]
    <3>1. h \in [DOMAIN m -> Nat] /\ h[z] = 0
      BY <1>1 DEF Typed, Furnished
    <3> QED BY <3>1
  <2>2. m[y].values[i] <= lo[z] \/ hi[z] <= m[y].values[i]
    BY <1>8, <2>1, KeyOutside
  <2> QED BY <1>31, <1>5, <1>6, <2>2
<1> QED BY <1>7, <1>8

\* At the place "at" is the least key that is not smaller than k.
ClosestTo(t, at, k) ==
  /\ at.node \in DOMAIN t.mem /\ at.position \in Nat /\ at.position < Count(t, at.node)
  /\ k <= Value(t, at.node, at.position)
  /\ Value(t, at.node, at.position) \in TreeKeys(t.mem)
  /\ \A q \in TreeKeys(t.mem) : q < k \/ q >= Value(t, at.node, at.position)

LEMMA ValueIsKey ==
  ASSUME NEW m, TreeNodes(m), NEW x \in DOMAIN m, NEW i \in Nat, i < Len(m[x].values)
  PROVE  m[x].values[i + 1] \in TreeKeys(m) /\ m[x].values[i + 1] \in Int
<1>1. m[x].values \in Seq(Int) /\ Len(m[x].values) \in Nat
  BY LenProperties DEF TreeNodes, Node
<1>2. i + 1 \in 1 .. Len(m[x].values)
  BY <1>1
<1>3. KeyAt(m, m[x].values[i + 1])
  BY <1>2 DEF KeyAt
<1> QED BY <1>1, <1>2, <1>3, KeysAt, ElementOfSeq

\* Where the search for k ends: behind the first i values of the leaf z, which has the
\* bounds lo and hi, in a tree none of whose keys is beyond k.
Located(t, h, lo, hi, z, i, k) ==
  /\ Sound(t.mem, t.root, h, lo, hi) /\ k < hi[t.root]
  /\ z \in DOMAIN t.mem /\ t.mem[z].leaf /\ lo[z] < k /\ k <= hi[z]
  /\ LocateFrom(t, t.root, k) = At(z, i) /\ BoundIs(t.mem[z].values, i, k)
  /\ i = Count(t, z) => BehindIs(t, hi, InternalLast(t, At(z, i)), z)
  /\ i < Count(t, z) => InternalLast(t, At(z, i)) = At(z, i)

LEMMA LocatedIs ==
  ASSUME NEW t, SearchTree(t), IsRoot(t, t.root), NEW k \in Int
  PROVE  \E h, lo, hi, z, i : Located(t, h, lo, hi, z, i, k)
<1>1. PICK h, lo, hi : Sound(t.mem, t.root, h, lo, hi) /\ lo[t.root] < k /\ k < hi[t.root]
  <2>1. PICK h, lo, hi : Sound(t.mem, t.root, h, lo, hi)
    BY DEF SearchTree
  <2>2. \E l, g : Sound(t.mem, t.root, h, l, g) /\ l[t.root] < k /\ k < g[t.root]
    BY <2>1, Widened
  <2> QED BY <2>2
<1>2. t.root \in DOMAIN t.mem /\ hi[t.root] \in Int
  BY <1>1 DEF Sound, Typed
<1>3. Reached(t, lo, hi, LocateFrom(t, t.root, k), k)
  <2>1. k <= hi[t.root]
    BY <1>1, <1>2
  <2> QED BY <1>1, <1>2, <2>1, LocateReaches
<1>4. PICK z \in DOMAIN t.mem : /\ t.mem[z].leaf /\ LocateFrom(t, t.root, k) = At(z, LowerBound(t, z, k))
                                /\ lo[z] < k /\ k <= hi[z]
  BY <1>3 DEF Reached, IsLeaf
<1>5. PICK i : i = LowerBound(t, z, k)
  OBVIOUS
<1>6. ValuesOK(t.mem[z].values, lo[z], hi[z])
  BY <1>1, ValuesOf DEF Sound
<1>7. BoundIs(t.mem[z].values, i, k)
  BY <1>5, <1>6, LowerBoundIs
<1>8. PICK at : at = At(z, i)
  OBVIOUS
<1>9. at.node = z /\ at.position = i
  BY <1>8 DEF At
<1>10. IF i < Count(t, z) THEN InternalLast(t, at) = at ELSE BehindIs(t, hi, InternalLast(t, at), z)
  <2>1. at.node \in DOMAIN t.mem
    BY <1>9
  <2>2. IF at.position < Count(t, at.node) THEN InternalLast(t, at) = at
        ELSE BehindIs(t, hi, InternalLast(t, at), at.node)
    BY <1>1, <2>1, InternalLastIs
  <2> QED BY <1>9, <2>2
<1>11. i = Count(t, z) => ~(i < Count(t, z))
  <2>1. Count(t, z) \in Nat
    BY <1>6 DEF ValuesOK, Count
  <2> QED BY <2>1
<1>12. Located(t, h, lo, hi, z, i, k)
  BY <1>1, <1>4, <1>5, <1>7, <1>8, <1>10, <1>11 DEF Located
<1> QED BY <1>12

LEMMA LastOfLocate ==
  ASSUME NEW t, SearchTree(t), IsRoot(t, t.root), NEW k \in Int,
         NEW at, at = LocateFrom(t, t.root, k), NEW up, up = InternalLast(t, at)
  PROVE  IF up.node = NULL THEN \A q \in TreeKeys(t.mem) : q < k ELSE ClosestTo(t, up, k)
<1>1. PICK h, lo, hi, z, i : Located(t, h, lo, hi, z, i, k)
  BY LocatedIs
<1>2. PICK m, r, v, n : m = t.mem /\ r = t.root /\ v = m[z].values /\ n = Len(v)
  OBVIOUS
<1>3. Typed(m, r, h, lo, hi) /\ TreeNodes(m) /\ r \in DOMAIN m /\ Sound(m, r, h, lo, hi) /\ 0 \notin DOMAIN m
  BY <1>1, <1>2 DEF Located, Sound, Typed, TreeNodes
<1>4. \A y \in DOMAIN m : lo[y] \in Int /\ hi[y] \in Int
  BY <1>3 DEF Typed
<1>5. at = At(z, i) /\ at.node = z /\ at.position = i
  BY <1>1 DEF Located, At
<1>6. z \in DOMAIN m /\ m[z].leaf /\ lo[z] < k /\ k <= hi[z]
  BY <1>1, <1>2 DEF Located
<1>7. v = m[z].values /\ n = Len(v) /\ Count(t, z) = n
  BY <1>2 DEF Count
<1>8. ValuesOK(v, lo[z], hi[z])
  BY <1>2, <1>3, <1>6, ValuesOf
<1>9. BoundIs(v, i, k) /\ at.node = z /\ at.position = i
  BY <1>1, <1>2, <1>5 DEF Located
<1>10. /\ n \in Nat /\ i \in 0 .. n
       /\ \A j \in 1 .. n : v[j] \in Int /\ (j <= i => v[j] < k) /\ (j > i => k <= v[j])
       /\ \A j \in 1 .. n : v[j] < hi[z]
       /\ \A j, l \in 1 .. n : j < l => v[j] < v[l]
  BY <1>2, <1>8, <1>9 DEF BoundIs, ValuesOK
\* A key is smaller than k, or at a place behind i in the leaf, or beyond it.
<1>11. ASSUME NEW q \in TreeKeys(m)
       PROVE  /\ q \in Int /\ q < hi[r]
              /\ q < k \/ hi[z] <= q \/ \E j \in 1 .. n : j > i /\ v[j] = q
  <2>1. q \in Int /\ q < hi[r] /\ (q <= lo[z] \/ hi[z] <= q \/ InSeq(v, q))
    BY <1>3, <1>6, <1>7, KeysBeside
  <2>2. ASSUME InSeq(v, q) PROVE q < k \/ \E j \in 1 .. n : j > i /\ v[j] = q
    <3>1. PICK j \in 1 .. n : v[j] = q
      BY <1>7, <2>2 DEF InSeq
    <3>2. j <= i \/ j > i
      BY <1>10
    <3> QED BY <1>10, <3>1, <3>2
  <2>3. q <= lo[z] => q < k
    BY <1>4, <1>6, <2>1
  <2> QED BY <2>1, <2>2, <2>3
<1>12. CASE i < n
  <2>1. up = at
    <3>1. i < Count(t, z)
      BY <1>7, <1>12
    <3> QED BY <1>1, <1>5, <3>1 DEF Located
  <2>2. i + 1 \in 1 .. n /\ i + 1 > i /\ i \in Nat /\ i < Len(m[z].values)
    BY <1>7, <1>10, <1>12
  <2>3. PICK s : s = v[i + 1]
    OBVIOUS
  <2>4. s \in TreeKeys(m) /\ s \in Int
    BY <1>3, <1>6, <1>7, <2>2, <2>3, ValueIsKey
  <2>5. k <= s /\ s < hi[z]
    BY <1>10, <2>2, <2>3
  <2>6. ASSUME NEW q \in TreeKeys(m) PROVE q < k \/ q >= s
    <3>1. q \in Int
      BY <1>11
    <3>2. CASE hi[z] <= q
      BY <1>4, <1>6, <2>4, <2>5, <3>1, <3>2
    <3>3. ASSUME NEW j \in 1 .. n, j > i, v[j] = q PROVE q >= s
      <4>1. j = i + 1 \/ i + 1 < j
        BY <1>10, <3>3
      <4>2. v[j] = s \/ s < v[j]
        BY <1>10, <2>2, <2>3, <4>1
      <4> QED BY <2>4, <3>1, <3>3, <4>2
    <3> QED BY <1>11, <3>2, <3>3
  <2>7. Value(t, z, i) = s
    BY <1>2, <1>7, <2>3 DEF Value
  <2>8. ClosestTo(t, at, k)
    BY <1>2, <1>6, <1>7, <1>9, <1>12, <2>2, <2>4, <2>5, <2>6, <2>7 DEF ClosestTo
  <2> QED BY <1>3, <1>6, <1>9, <2>1, <2>8 DEF NULL
<1>13. CASE i = n
  <2>1. BehindIs(t, hi, up, z)
    <3>1. i = Count(t, z)
      BY <1>7, <1>13
    <3> QED BY <1>1, <1>5, <3>1 DEF Located
  <2>2. \A q \in TreeKeys(m) : q < k \/ hi[z] <= q
    <3> SUFFICES ASSUME NEW q \in TreeKeys(m) PROVE q < k \/ hi[z] <= q
      OBVIOUS
    <3>1. ~ \E j \in 1 .. n : j > i
      BY <1>10, <1>13
    <3> QED BY <1>11, <3>1
  <2>3. CASE hi[z] = hi[r]
    <3>1. up.node = NULL
      BY <1>2, <2>1, <2>3 DEF BehindIs
    <3>2. \A q \in TreeKeys(m) : q < k
      <4> SUFFICES ASSUME NEW q \in TreeKeys(m) PROVE q < k
        OBVIOUS
      <4>1. q \in Int /\ q < hi[r] /\ hi[r] \in Int
        BY <1>3, <1>4, <1>11
      <4> QED BY <2>2, <2>3, <4>1
    <3> QED BY <1>2, <3>1, <3>2
  <2>4. CASE hi[z] # hi[r]
    <3>1. /\ up.node \in DOMAIN m /\ up.position \in Nat /\ up.position < Count(t, up.node)
          /\ Value(t, up.node, up.position) = hi[z]
      BY <1>2, <2>1, <2>4 DEF BehindIs
    <3>2. hi[z] \in TreeKeys(m)
      <4>1. up.position < Len(m[up.node].values)
        BY <1>2, <3>1 DEF Count
      <4>2. m[up.node].values[up.position + 1] \in TreeKeys(m)
        BY <1>3, <3>1, <4>1, ValueIsKey
      <4> QED BY <1>2, <3>1, <4>2 DEF Value
    <3>3. \A q \in TreeKeys(m) : q < k \/ q >= hi[z]
      BY <1>4, <1>11, <2>2
    <3>4. ClosestTo(t, up, k)
      BY <1>2, <1>6, <3>1, <3>2, <3>3 DEF ClosestTo
    <3> QED BY <1>3, <3>1, <3>4 DEF NULL
  <2> QED BY <2>3, <2>4
<1> QED BY <1>10, <1>12, <1>13

\* btree_find_closest: in any search tree whose root knows that nothing is above it, the
\* place of the least key that is not smaller than k, or the end when all are smaller.
THEOREM FindClosestFinds ==
  ASSUME NEW t, SearchTree(t), IsRoot(t, t.root), NEW k \in Int
  PROVE  IF \E q \in TreeKeys(t.mem) : q >= k THEN ClosestTo(t, FindClosest(t, k), k)
         ELSE FindClosest(t, k) = End(t)
<1>1. PICK at, up : at = LocateFrom(t, t.root, k) /\ up = InternalLast(t, at)
  OBVIOUS
<1>2. IF up.node = NULL THEN \A q \in TreeKeys(t.mem) : q < k ELSE ClosestTo(t, up, k)
  BY <1>1, LastOfLocate
<1>3. PICK h, lo, hi : Sound(t.mem, t.root, h, lo, hi)
  BY DEF SearchTree
<1>4. t.root # NULL
  BY <1>3 DEF Sound, Typed, NULL
<1>5. FindClosest(t, k) = IF up.node = NULL THEN End(t) ELSE up
  BY <1>1, <1>4 DEF FindClosest
<1>6. \A q \in TreeKeys(t.mem) : q \in Int
  <2> SUFFICES ASSUME NEW q \in TreeKeys(t.mem) PROVE q \in Int
    OBVIOUS
  <2>1. KeyAt(t.mem, q)
    BY <1>3, KeysAt DEF Sound, Typed, TreeNodes
  <2>2. PICK y \in DOMAIN t.mem : \E i \in 1 .. Len(t.mem[y].values) : t.mem[y].values[i] = q
    BY <2>1 DEF KeyAt
  <2>3. ValuesOK(t.mem[y].values, lo[y], hi[y])
    BY <1>3, ValuesOf
  <2> QED BY <2>2, <2>3 DEF ValuesOK
<1>7. CASE up.node = NULL
  <2>1. ~ \E q \in TreeKeys(t.mem) : q >= k
    BY <1>2, <1>6, <1>7
  <2> QED BY <1>5, <1>7, <2>1
<1>8. CASE up.node # NULL
  <2>1. ClosestTo(t, up, k)
    BY <1>2, <1>8
  <2>2. \E q \in TreeKeys(t.mem) : q >= k
    <3>1. PICK s : s = Value(t, up.node, up.position)
      OBVIOUS
    <3>2. s \in TreeKeys(t.mem) /\ k <= s
      BY <2>1, <3>1 DEF ClosestTo
    <3> QED BY <1>6, <3>2
  <2> QED BY <1>5, <1>8, <2>1, <2>2
<1> QED BY <1>7, <1>8

\* The place of the key k.
PlaceHolds(t, at, k) ==
  /\ at.node \in DOMAIN t.mem /\ at.position \in Nat /\ at.position < Count(t, at.node)
  /\ Value(t, at.node, at.position) = k

\* btree_find: a key is found where it is, and no other key is found.
THEOREM FindUniqueFinds ==
  ASSUME NEW t, SearchTree(t), IsRoot(t, t.root), NEW k \in Int
  PROVE  IF k \in TreeKeys(t.mem) THEN FindUnique(t, k) # End(t) /\ PlaceHolds(t, FindUnique(t, k), k)
         ELSE FindUnique(t, k) = End(t)
<1>1. PICK at : at = FindClosest(t, k)
  OBVIOUS
<1>2. FindUnique(t, k) = IF at = End(t) \/ Value(t, at.node, at.position) # k THEN End(t) ELSE at
  BY <1>1 DEF FindUnique
<1>3. IF \E q \in TreeKeys(t.mem) : q >= k THEN ClosestTo(t, at, k) ELSE at = End(t)
  BY <1>1, FindClosestFinds
<1>4. ASSUME ClosestTo(t, at, k) PROVE at # End(t)
  <2>1. at.node \in DOMAIN t.mem /\ at.position \in Nat /\ at.position < Count(t, at.node)
    BY <1>4 DEF ClosestTo
  <2>2. at.node # NULL
    <3>1. PICK h, lo, hi : Typed(t.mem, t.root, h, lo, hi)
      BY DEF SearchTree, Sound
    <3> QED BY <2>1, <3>1 DEF Typed, NULL
  <2>3. PICK z : z = Rightmost(t)
    OBVIOUS
  <2>4. End(t) = At(z, IF z = NULL THEN 0 ELSE Count(t, z))
    BY <2>3 DEF End
  <2>5. Count(t, at.node) \in Nat
    BY <2>1, SearchCounts DEF CountOK, Count
  <2>6. ASSUME at = End(t) PROVE FALSE
    <3>1. at.node = z /\ at.position = IF z = NULL THEN 0 ELSE Count(t, z)
      BY <2>4, <2>6 DEF At
    <3> QED BY <2>1, <2>2, <2>5, <3>1
  <2> QED BY <2>6
<1>5. CASE k \in TreeKeys(t.mem)
  <2>1. ClosestTo(t, at, k)
    BY <1>3, <1>5
  <2>2. PICK s : s = Value(t, at.node, at.position)
    OBVIOUS
  <2>3. k <= s /\ s \in TreeKeys(t.mem) /\ (k < k \/ k >= s)
    BY <1>5, <2>1, <2>2 DEF ClosestTo
  <2>4. s \in Int
    <3>1. PICK h, lo, hi : Typed(t.mem, t.root, h, lo, hi)
      BY DEF SearchTree, Sound
    <3>2. at.position < Len(t.mem[at.node].values) /\ at.node \in DOMAIN t.mem /\ at.position \in Nat
      BY <2>1 DEF ClosestTo, Count
    <3>3. TreeNodes(t.mem)
      BY <3>1 DEF Typed, TreeNodes
    <3>4. t.mem[at.node].values[at.position + 1] \in Int
      BY <3>2, <3>3, ValueIsKey
    <3> QED BY <2>2, <3>4 DEF Value
  <2>5. s = k
    BY <2>3, <2>4
  <2> QED BY <1>2, <1>4, <1>5, <2>1, <2>2, <2>5 DEF PlaceHolds, ClosestTo
<1>6. CASE k \notin TreeKeys(t.mem)
  <2>1. at = End(t) \/ Value(t, at.node, at.position) # k
    BY <1>3, <1>6 DEF ClosestTo
  <2> QED BY <1>2, <1>6, <2>1
<1> QED BY <1>5, <1>6

\* Where a search for a key that the tree does not hold ends, the key may be put.
THEOREM LocateFindsPlace ==
  ASSUME NEW t, SearchTree(t), IsRoot(t, t.root), NEW k \in Int, k \notin TreeKeys(t.mem),
         NEW at, at = LocateFrom(t, t.root, k)
  PROVE  at.node \in DOMAIN t.mem /\ IsLeaf(t, at.node) /\ PlaceFor(t.mem, t.root, at.node, at.position, k)
<1>1. PICK h, lo, hi, z, i : Located(t, h, lo, hi, z, i, k)
  BY LocatedIs
<1>2. PICK m, v, n, up : m = t.mem /\ v = t.mem[z].values /\ n = Len(v) /\ up = InternalLast(t, At(z, i))
  OBVIOUS
<1>3. /\ Sound(m, t.root, h, lo, hi) /\ k < hi[t.root] /\ z \in DOMAIN m /\ m[z].leaf
      /\ lo[z] < k /\ k <= hi[z] /\ at = At(z, i) /\ BoundIs(v, i, k)
      /\ i = n => BehindIs(t, hi, up, z)
  BY <1>1, <1>2 DEF Located, Count
<1>4. TreeNodes(m) /\ t.root \in DOMAIN m /\ lo[z] \in Int /\ hi[z] \in Int /\ hi[t.root] \in Int
  BY <1>3 DEF Sound, Typed, TreeNodes
<1>5. ValuesOK(v, lo[z], hi[z])
  BY <1>2, <1>3, ValuesOf DEF Sound
<1>6. /\ n \in Nat /\ i \in 0 .. n
      /\ \A j \in 1 .. n : v[j] \in Int /\ v[j] < hi[z] /\ (j <= i => v[j] < k) /\ (j > i => k <= v[j])
  BY <1>2, <1>3, <1>5 DEF ValuesOK, BoundIs
<1>7. \A j \in 1 .. n : v[j] # k
  <2> SUFFICES ASSUME NEW j \in 1 .. n PROVE v[j] \in TreeKeys(m)
    BY <1>2
  <2>1. KeyAt(m, v[j])
    BY <1>2, <1>3 DEF KeyAt
  <2> QED BY <1>4, <2>1, KeysAt
<1>8. hi[z] # k
  <2>1. CASE i # n
    <3>1. i + 1 \in 1 .. n /\ i + 1 > i
      BY <1>6, <2>1
    <3>2. v[i + 1] \in Int /\ k <= v[i + 1] /\ v[i + 1] < hi[z]
      BY <1>6, <3>1
    <3> QED BY <1>4, <3>2
  <2>2. CASE i = n /\ hi[z] = hi[t.root]
    BY <1>3, <1>4, <2>2
  <2>3. CASE i = n /\ hi[z] # hi[t.root]
    <3>1. /\ up.node \in DOMAIN m /\ up.position \in Nat /\ up.position < Len(m[up.node].values)
          /\ m[up.node].values[up.position + 1] = hi[z]
      BY <1>2, <1>3, <2>3 DEF BehindIs, Count, Value
    <3>2. hi[z] \in TreeKeys(m) /\ k \notin TreeKeys(m)
      BY <1>2, <1>4, <3>1, ValueIsKey
    <3> QED BY <3>2, Zenon
  <2> QED BY <2>1, <2>2, <2>3
<1>9. Put(v, lo[z], hi[z], i, k)
  <2>1. k < hi[z]
    BY <1>3, <1>4, <1>8
  <2>2. \A j \in 1 .. n : (j <= i => v[j] < k) /\ (j > i => k < v[j])
    <3> SUFFICES ASSUME NEW j \in 1 .. n PROVE (j <= i => v[j] < k) /\ (j > i => k < v[j])
      OBVIOUS
    <3>1. v[j] \in Int /\ v[j] # k /\ (j <= i => v[j] < k) /\ (j > i => k <= v[j])
      BY <1>6, <1>7
    <3> QED BY <3>1
  <2> QED BY <1>2, <1>3, <1>6, <2>1, <2>2 DEF Put
<1>10. PlaceFor(m, t.root, z, i, k)
  BY <1>2, <1>3, <1>9 DEF PlaceFor
<1>11. at.node = z /\ at.position = i
  BY <1>3 DEF At
<1> QED BY <1>2, <1>3, <1>10, <1>11 DEF IsLeaf

(***************************************************************************)
(* The leaf.                                                               *)
(***************************************************************************)
LEMMA KeyIsInt ==
  ASSUME NEW m, NEW r, NEW h, NEW lo, NEW hi, Sound(m, r, h, lo, hi), NEW q \in TreeKeys(m)
  PROVE  q \in Int
<1>1. Typed(m, r, h, lo, hi) /\ TreeNodes(m)
  BY DEF Sound, Typed, TreeNodes
<1>2. PICK y \in DOMAIN m : InSeq(m[y].values, q)
  BY <1>1, HoldsKey
<1>3. ValuesOK(m[y].values, lo[y], hi[y])
  BY ValuesOf
<1> QED BY <1>2, <1>3 DEF InSeq, ValuesOK

\* The search tree u is t with the keys K.
HoldsKeys(t, u, K) ==
  /\ SearchTree(u) /\ u.root = t.root /\ u.ok = t.ok
  /\ TreeKeys(u.mem) = K /\ SameRoom(t.mem, u.mem) /\ SameLinks(t.mem, u.mem)

LEMMA LeafInserted ==
  ASSUME NEW t, Treelike(t), NEW x, t.mem[x].leaf, NEW i, i <= Len(t.mem[x].values), NEW k,
         NEW u, u = InsertValue(t, x, i, k)
  PROVE  /\ Treelike(u) /\ u.root = t.root /\ u.ok = t.ok /\ u.size = t.size
         /\ u.mem = [t.mem EXCEPT ![x].values = InsertAt(t.mem[x].values, i + 1, k)]
<1>1. u = Checked([t EXCEPT !.mem[x].values = InsertAt(t.mem[x].values, i + 1, k)], TRUE)
  BY DEF InsertValue
<1> QED BY <1>1 DEF Checked, Treelike

LEMMA LeafRemoved ==
  ASSUME NEW t, Treelike(t), NEW x, t.mem[x].leaf, NEW i, NEW u, u = RemoveValue(t, x, i)
  PROVE  /\ Treelike(u) /\ u.root = t.root /\ u.ok = t.ok /\ u.size = t.size
         /\ u.mem = [t.mem EXCEPT ![x].values = RemoveAt(t.mem[x].values, i + 1)]
<1>1. u = [t EXCEPT !.mem[x].values = RemoveAt(t.mem[x].values, i + 1)]
  BY DEF RemoveValue
<1> QED BY <1>1 DEF Treelike

\* insert_value: put in its place in a leaf with room, a key is one more key of the tree.
THEOREM InsertValueAddsKey ==
  ASSUME NEW t, SearchTree(t), NEW x \in DOMAIN t.mem, IsLeaf(t, x), Room(t, x) > 0,
         NEW i, NEW k \in Int, PlaceFor(t.mem, t.root, x, i, k), NEW u, u = InsertValue(t, x, i, k)
  PROVE  HoldsKeys(t, u, TreeKeys(t.mem) \cup {k})
<1>1. PICK h, lo, hi : Sound(t.mem, t.root, h, lo, hi) /\ Put(t.mem[x].values, lo[x], hi[x], i, k)
  BY DEF PlaceFor
<1>2. PICK v, w, e, max : /\ v = t.mem[x].values /\ w = InsertAt(v, i + 1, k) /\ e = i + 1
                          /\ max = t.mem[x].max_count
  OBVIOUS
<1>3. ValuesOK(v, lo[x], hi[x]) /\ t.mem[x].leaf /\ Treelike(t) /\ TreeNodes(t.mem)
  BY <1>1, <1>2, ValuesOf DEF Sound, IsLeaf, SearchTree, Typed, TreeNodes
<1>4. Put(v, lo[x], hi[x], i, k)
  BY <1>1, <1>2
<1>5. GrownBy(v, w, e, k) /\ ValuesOK(w, lo[x], hi[x])
  BY <1>2, <1>3, <1>4, PutKeeps
<1>6. IsWithout(v, w, e) /\ w[e] = k /\ Len(w) \in Nat
  BY <1>5 DEF GrownBy, ValuesOK
<1>7. Len(v) \in Nat /\ max \in Nat /\ max - Len(v) > 0 /\ i <= Len(v)
  BY <1>2, <1>4, SearchCounts DEF CountOK, Room, Count, Put
<1>8. Len(w) <= max
  <2>1. Len(v) = Len(w) - 1
    BY <1>6 DEF IsWithout
  <2> QED BY <1>6, <1>7, <2>1
<1>9. /\ Treelike(u) /\ u.root = t.root /\ u.ok = t.ok
      /\ u.mem = [t.mem EXCEPT ![x].values = w]
  BY <1>2, <1>3, <1>7, LeafInserted
<1>10. /\ SearchTree(u) /\ Revalued(t.mem, u.mem, x, w)
       /\ SameRoom(t.mem, u.mem) /\ SameLinks(t.mem, u.mem)
  BY <1>1, <1>2, <1>3, <1>5, <1>8, <1>9, LeafChanged
<1>11. TreeKeys(u.mem) = TreeKeys(t.mem) \cup {k}
  BY <1>2, <1>3, <1>6, <1>10, KeysGrown
<1> QED BY <1>9, <1>10, <1>11, Zenon DEF HoldsKeys

\* remove_value: what is removed from a leaf is one key of the tree, and no other.
THEOREM RemoveValueTakesKey ==
  ASSUME NEW t, SearchTree(t), NEW x \in DOMAIN t.mem, IsLeaf(t, x),
         NEW i \in Nat, i < Count(t, x), NEW u, u = RemoveValue(t, x, i)
  PROVE  HoldsKeys(t, u, TreeKeys(t.mem) \ {Value(t, x, i)})
<1>1. PICK h, lo, hi : Sound(t.mem, t.root, h, lo, hi)
  BY DEF SearchTree
<1>2. PICK v, w, e, max : /\ v = t.mem[x].values /\ w = RemoveAt(v, i + 1) /\ e = i + 1
                          /\ max = t.mem[x].max_count
  OBVIOUS
<1>3. ValuesOK(v, lo[x], hi[x]) /\ t.mem[x].leaf /\ Treelike(t)
  BY <1>1, <1>2, ValuesOf DEF Sound, IsLeaf, SearchTree
<1>4. Len(v) \in Nat /\ max \in Nat /\ Len(v) <= max /\ e \in 1 .. Len(v)
  <2>1. Len(v) \in Nat /\ max \in Nat /\ Len(v) <= max /\ i < Len(v)
    BY <1>2, SearchCounts DEF CountOK, Count
  <2> QED BY <1>2, <2>1
<1>5. IsWithout(w, v, e) /\ ValuesOK(w, lo[x], hi[x])
  BY <1>2, <1>3, <1>4, RemovedKeeps
<1>6. Len(w) \in Nat /\ Len(w) <= max
  <2>1. Len(w) = Len(v) - 1 /\ Len(w) \in Nat
    BY <1>5 DEF IsWithout, ValuesOK
  <2> QED BY <1>4, <2>1
<1>7. /\ Treelike(u) /\ u.root = t.root /\ u.ok = t.ok
      /\ u.mem = [t.mem EXCEPT ![x].values = w]
  BY <1>2, <1>3, LeafRemoved
<1>8. /\ SearchTree(u) /\ Revalued(t.mem, u.mem, x, w)
      /\ SameRoom(t.mem, u.mem) /\ SameLinks(t.mem, u.mem)
  BY <1>1, <1>2, <1>3, <1>5, <1>6, <1>7, LeafChanged
<1>9. TreeKeys(u.mem) = TreeKeys(t.mem) \ {v[e]}
  <2>1. IsWithout(w, t.mem[x].values, e) /\ Revalued(t.mem, u.mem, x, w) /\ Len(w) \in Nat
    BY <1>2, <1>5, <1>6, <1>8
  <2>2. OneKeyLess(t.mem, u.mem, t.mem[x].values[e])
    BY <2>1, KeysShrunk
  <2> QED BY <1>2, <2>2 DEF OneKeyLess
<1> QED BY <1>2, <1>7, <1>8, <1>9 DEF HoldsKeys, Value

\* btree_insert of a key that is in the map changes nothing.
THEOREM InsertUniquePresent ==
  ASSUME NEW t, SearchTree(t), IsRoot(t, t.root), NEW k \in TreeKeys(t.mem)
  PROVE  InsertUnique(t, k) = t
<1>1. PICK at, up : at = LocateFrom(t, t.root, k) /\ up = InternalLast(t, at)
  OBVIOUS
<1>2. PICK h, lo, hi : Sound(t.mem, t.root, h, lo, hi)
  BY DEF SearchTree
<1>3. k \in Int
  BY <1>2, KeyIsInt
<1>4. t.root # NULL
  BY <1>2 DEF Sound, Typed, NULL
<1>5. IF up.node = NULL THEN \A q \in TreeKeys(t.mem) : q < k ELSE ClosestTo(t, up, k)
  BY <1>1, <1>3, LastOfLocate
<1>6. up.node # NULL
  <2>1. ~(k < k)
    BY <1>3
  <2> QED BY <1>5, <2>1
<1>7. Value(t, up.node, up.position) <= k
  <2>1. PICK s : s = Value(t, up.node, up.position)
    OBVIOUS
  <2>2. s \in TreeKeys(t.mem) /\ (k < k \/ k >= s)
    BY <1>5, <1>6, <2>1 DEF ClosestTo
  <2>3. s \in Int
    BY <1>2, <2>2, KeyIsInt
  <2> QED BY <1>3, <2>1, <2>2, <2>3
<1> QED BY <1>1, <1>4, <1>6, <1>7 DEF InsertUnique

LEMMA InsertsAt ==
  ASSUME NEW t, NEW at, NEW k, Room(t, at.node) > 0, Room(t, at.node) # 0,
         NEW s, s = IF IsLeaf(t, t.root) THEN t ELSE [t EXCEPT !.size = @ + 1]
  PROVE  InternalInsert(t, at, k) = InsertValue(s, at.node, at.position, k)
BY DEF InternalInsert, Landed, At

\* btree_insert of another key, when the leaf it belongs to has room: the map has that key
\* more, and all others.
THEOREM InsertUniqueAddsKey ==
  ASSUME NEW t, SearchTree(t), IsRoot(t, t.root), NEW k \in Int, k \notin TreeKeys(t.mem),
         Room(t, LocateFrom(t, t.root, k).node) > 0
  PROVE  HoldsKeys(t, InsertUnique(t, k), TreeKeys(t.mem) \cup {k})
<1>1. PICK at, up, s, u : /\ at = LocateFrom(t, t.root, k) /\ up = InternalLast(t, at)
                          /\ s = IF IsLeaf(t, t.root) THEN t ELSE [t EXCEPT !.size = @ + 1]
                          /\ u = InsertValue(s, at.node, at.position, k)
  OBVIOUS
<1>2. PICK h, lo, hi : Sound(t.mem, t.root, h, lo, hi)
  BY DEF SearchTree
<1>3. t.root # NULL
  BY <1>2 DEF Sound, Typed, NULL
<1>4. ~(up.node # NULL /\ Value(t, up.node, up.position) <= k)
  <2> SUFFICES ASSUME up.node # NULL PROVE ~(Value(t, up.node, up.position) <= k)
    OBVIOUS
  <2>1. ClosestTo(t, up, k)
    BY <1>1, LastOfLocate
  <2>2. PICK q : q = Value(t, up.node, up.position)
    OBVIOUS
  <2>3. q \in TreeKeys(t.mem) /\ k <= q
    BY <2>1, <2>2 DEF ClosestTo
  <2>4. q \in Int
    BY <1>2, <2>3, KeyIsInt
  <2> QED BY <2>2, <2>3, <2>4
<1>5. /\ at.node \in DOMAIN t.mem /\ IsLeaf(t, at.node) /\ Room(t, at.node) > 0
      /\ PlaceFor(t.mem, t.root, at.node, at.position, k)
  BY <1>1, LocateFindsPlace
<1>6. InsertUnique(t, k) = InternalInsert(t, at, k)
  BY <1>1, <1>3, <1>4 DEF InsertUnique
<1>7. InternalInsert(t, at, k) = u
  <2>1. Room(t, at.node) # 0
    BY <1>5
  <2> QED BY <1>1, <1>5, <2>1, InsertsAt
<1>8. s.mem = t.mem /\ s.root = t.root /\ s.ok = t.ok /\ SearchTree(s)
  <2>1. /\ Treelike(t) /\ Fits(t.mem)
    BY DEF SearchTree
  <2>2. Treelike(s) /\ s.mem = t.mem /\ s.root = t.root /\ s.ok = t.ok
    BY <1>1, <2>1 DEF Treelike
  <2> QED BY <1>2, <2>1, <2>2 DEF SearchTree
<1>9. HoldsKeys(s, u, TreeKeys(s.mem) \cup {k})
  <2>1. /\ at.node \in DOMAIN s.mem /\ IsLeaf(s, at.node) /\ Room(s, at.node) > 0
        /\ PlaceFor(s.mem, s.root, at.node, at.position, k)
    BY <1>5, <1>8 DEF IsLeaf, Room, Count
  <2> QED BY <1>1, <1>8, <2>1, InsertValueAddsKey
<1> QED BY <1>6, <1>7, <1>8, <1>9 DEF HoldsKeys

(***************************************************************************)
(* The heap.                                                               *)
(***************************************************************************)
Facts == INSTANCE ItemHeap_proofs WITH Less <- LessThan

LEMMA SameOperations ==
  ASSUME NEW b, NEW i, NEW n
  PROVE  /\ Heap!HeapAdjust(b, i, n) = Facts!HeapAdjust(b, i, n)
         /\ Heap!MakeHeap(b, n) = Facts!MakeHeap(b, n)
<1>1. Heap!HeapAdjust(b, i, n) = Facts!HeapAdjust(b, i, n)
  BY Zenon DEF Heap!HeapAdjust, Facts!HeapAdjust, Heap!Swapped, Facts!Swapped,
               Heap!Range, Facts!Range
<1>2. Heap!MakeHeap(b, n) = Facts!MakeHeap(b, n)
  BY Zenon DEF Heap!MakeHeap, Facts!MakeHeap, Heap!HeapAdjust, Facts!HeapAdjust,
               Heap!Swapped, Facts!Swapped, Heap!Range, Facts!Range
<1> QED BY <1>1, <1>2

Keys == 1 .. MaxKey

\* The number of items with key k behind the first.
Behind(f, n, k) == Cardinality({i \in 1 .. n - 1 : f[i] = k})

LEMMA CountsSplit ==
  ASSUME NEW n \in Nat \ {0}, NEW f, NEW k \in Keys
  PROVE  /\ Behind(f, n, k) \in Nat
         /\ Counts(f, n)[k] = Behind(f, n, k) + IF f[0] = k THEN 1 ELSE 0
<1>1. PICK B, A : B = {i \in 1 .. n - 1 : f[i] = k} /\ A = {i \in 0 .. n - 1 : f[i] = k}
  OBVIOUS
<1>2. IsFiniteSet(B) /\ Cardinality(B) \in Nat
  <2>1. IsFiniteSet(1 .. n - 1)
    BY FS_Interval
  <2> QED BY <1>1, <2>1, FS_Subset, FS_CardinalityType
<1>3. Counts(f, n)[k] = Cardinality(A) /\ Behind(f, n, k) = Cardinality(B)
  BY <1>1 DEF Counts, Behind, Keys
<1>4. CASE f[0] = k
  <2>1. A = B \cup {0} /\ 0 \notin B
    BY <1>1, <1>4
  <2>2. Cardinality(A) = Cardinality(B) + 1
    BY <1>2, <2>1, FS_AddElement
  <2> QED BY <1>2, <1>3, <1>4, <2>2
<1>5. CASE f[0] # k
  <2>1. A = B
    BY <1>1, <1>5
  <2> QED BY <1>2, <1>3, <1>5, <2>1
<1> QED BY <1>4, <1>5

LEMMA CountsRearranged ==
  ASSUME NEW n \in Nat, NEW b, NEW c, Facts!Rearranged(b, c, n)
  PROVE  Counts(c, n) = Counts(b, n)
<1>1. PICK p : Facts!Rearranges(b, c, n, p)
  BY DEF Facts!Rearranged
<1>2. /\ p \in [0 .. n - 1 -> 0 .. n - 1]
      /\ \A x, y \in 0 .. n - 1 : p[x] = p[y] => x = y
      /\ \A y \in 0 .. n - 1 : \E x \in 0 .. n - 1 : p[x] = y
      /\ \A x \in 0 .. n - 1 : c[x] = b[p[x]]
  BY <1>1 DEF Facts!Rearranges, Facts!Bijection, Facts!Injection, Facts!Surjection,
              Facts!IsInjective
<1>3. ASSUME NEW k \in Keys
      PROVE  Cardinality({i \in 0 .. n - 1 : c[i] = k}) = Cardinality({i \in 0 .. n - 1 : b[i] = k})
  <2>1. PICK B, C : B = {i \in 0 .. n - 1 : b[i] = k} /\ C = {i \in 0 .. n - 1 : c[i] = k}
    OBVIOUS
  <2>2. IsFiniteSet(C)
    <3>1. IsFiniteSet(0 .. n - 1)
      BY FS_Interval
    <3> QED BY <2>1, <3>1, FS_Subset
  <2>3. PICK f : f = [i \in C |-> p[i]]
    OBVIOUS
  <2>4. f \in [C -> B] /\ \A x \in C : f[x] = p[x]
    BY <1>2, <2>1, <2>3
  <2>5. ASSUME NEW x \in C, NEW y \in C, f[x] = f[y] PROVE x = y
    <3>1. x \in 0 .. n - 1 /\ y \in 0 .. n - 1 /\ p[x] = p[y]
      BY <2>1, <2>4, <2>5
    <3> QED BY <1>2, <3>1, Zenon
  <2>6. ASSUME NEW y \in B PROVE \E x \in C : f[x] = y
    <3>1. y \in 0 .. n - 1 /\ b[y] = k
      BY <2>1
    <3>2. PICK x \in 0 .. n - 1 : p[x] = y
      BY <1>2, <3>1, Zenon
    <3>3. c[x] = k
      BY <1>2, <3>1, <3>2
    <3> QED BY <2>1, <2>4, <3>2, <3>3
  <2>7. f \in Bijection(C, B)
    BY <2>4, <2>5, <2>6, Zenon DEF Bijection, Injection, Surjection, IsInjective
  <2>8. Cardinality(C) = Cardinality(B)
    BY <2>2, <2>7, FS_Bijection, Zenon DEF ExistsBijection
  <2> QED BY <2>1, <2>8
<1> QED BY <1>3 DEF Counts, Keys

-----------------------------------------------------------------------------
HeapInv ==
  /\ len \in Nat /\ a \in [0 .. len - 1 -> Keys] /\ ItemsKept

LEMMA ArrayIsArray ==
  ASSUME NEW b, NEW n \in Nat, NEW m \in Nat, m <= n, b \in [0 .. n - 1 -> Keys]
  PROVE  Facts!IsArray(b, m)
  BY DEF Facts!IsArray

\* An array that is rearranged has the same keys.
LEMMA RearrangedTyped ==
  ASSUME NEW b, NEW c, NEW n \in Nat, NEW m \in Nat, m <= n, b \in [0 .. n - 1 -> Keys],
         Facts!IsArray(c, m), Facts!Rearranged(b, c, m)
  PROVE  c \in [0 .. n - 1 -> Keys]
<1>1. PICK p : Facts!Rearranges(b, c, m, p)
  BY DEF Facts!Rearranged
<1>2. /\ DOMAIN c = 0 .. n - 1 /\ p \in [0 .. m - 1 -> 0 .. m - 1]
      /\ \A x \in 0 .. m - 1 : c[x] = b[p[x]]
      /\ \A x \in (0 .. n - 1) \ (0 .. m - 1) : c[x] = b[x]
  BY <1>1 DEF Facts!Rearranges, Facts!Bijection, Facts!Injection
<1>3. c = [x \in 0 .. n - 1 |-> c[x]]
  BY <1>2 DEF Facts!IsArray
<1>4. ASSUME NEW x \in 0 .. n - 1 PROVE c[x] \in Keys
  <2>1. CASE x \in 0 .. m - 1
    <3>1. p[x] \in 0 .. m - 1
      BY <1>2, <2>1
    <3>2. p[x] \in 0 .. n - 1
      BY <3>1
    <3> QED BY <1>2, <2>1, <3>2
  <2>2. CASE x \notin 0 .. m - 1
    BY <1>2, <2>2
  <2> QED BY <2>1, <2>2
<1> QED BY <1>3, <1>4

LEMMA MakeKeeps == ASSUME HeapInv, Make PROVE HeapInv'
<1>1. /\ len \in Nat /\ a \in [0 .. len - 1 -> Keys] /\ keys = Counts(a, len)
      /\ a' = Facts!MakeHeap(a, len) /\ len' = len /\ keys' = keys
  BY SameOperations DEF HeapInv, ItemsKept, Make
<1>2. Facts!IsArray(a, len)
  BY <1>1, ArrayIsArray
<1>3. Facts!IsArray(a', len) /\ Facts!Rearranged(a, a', len)
  BY <1>1, <1>2, Facts!MakeHeapRearranges
<1>4. a' \in [0 .. len - 1 -> Keys] /\ Counts(a', len) = Counts(a, len)
  BY <1>1, <1>3, RearrangedTyped, CountsRearranged
<1>5. Counts(a, len)' = Counts(a', len')
  BY DEF Counts
<1> QED BY <1>1, <1>4, <1>5 DEF HeapInv, ItemsKept

LEMMA ReplaceTopKeeps == ASSUME HeapInv, ReplaceTop PROVE HeapInv'
<1>1. len \in Nat \ {0} /\ a \in [0 .. len - 1 -> Keys] /\ keys = Counts(a, len) /\ len' = len
  BY DEF HeapInv, ItemsKept, ReplaceTop
<1>2. PICK k \in a[0] .. MaxKey :
        /\ a' = Heap!HeapAdjust([a EXCEPT ![0] = k], 0, len)
        /\ keys' = [[keys EXCEPT ![a[0]] = @ - 1] EXCEPT ![k] = @ + 1]
  BY DEF ReplaceTop
<1>3. 0 \in 0 .. len - 1 /\ a[0] \in Keys /\ k \in Keys
  BY <1>1, MCItemHeapAssumption DEF Keys
<1>4. PICK b : b = [a EXCEPT ![0] = k]
  OBVIOUS
<1>5. b \in [0 .. len - 1 -> Keys] /\ b[0] = k /\ \A i \in 1 .. len - 1 : b[i] = a[i]
  BY <1>1, <1>3, <1>4
<1>6. Facts!IsArray(b, len) /\ len \in Nat /\ 0 \in 0 .. len
  BY <1>1, <1>5, ArrayIsArray
<1>7. a' = Facts!HeapAdjust(b, 0, len)
  BY <1>2, <1>4, SameOperations
<1>8. Facts!IsArray(a', len) /\ Facts!Rearranged(b, a', len)
  BY <1>6, <1>7, Facts!AdjustRearranges
<1>9. a' \in [0 .. len - 1 -> Keys] /\ Counts(a', len) = Counts(b, len)
  BY <1>5, <1>6, <1>8, RearrangedTyped, CountsRearranged
<1>10. ASSUME NEW m \in Keys PROVE Counts(b, len)[m] = keys'[m]
  <2>1. Behind(b, len, m) = Behind(a, len, m)
    BY <1>5 DEF Behind
  <2>2. /\ Behind(a, len, m) \in Nat
        /\ Counts(a, len)[m] = Behind(a, len, m) + IF a[0] = m THEN 1 ELSE 0
        /\ Counts(b, len)[m] = Behind(b, len, m) + IF b[0] = m THEN 1 ELSE 0
    BY <1>1, CountsSplit
  <2>3. keys = [i \in Keys |-> keys[i]]
    BY <1>1 DEF Counts, Keys
  <2>4. keys'[m] = keys[m] - (IF m = a[0] THEN 1 ELSE 0) + IF m = k THEN 1 ELSE 0
    BY <1>1, <1>2, <1>3, <2>2, <2>3
  <2> QED BY <1>1, <1>5, <2>1, <2>2, <2>4
<1>11. keys' = [i \in Keys |-> keys'[i]]
  BY <1>1, <1>2 DEF Counts, Keys
<1>12. Counts(b, len) = [i \in Keys |-> Counts(b, len)[i]]
  BY DEF Counts, Keys
<1>13. keys' = Counts(b, len)
  BY <1>10, <1>11, <1>12
<1>14. Counts(a, len)' = Counts(a', len')
  BY DEF Counts
<1> QED BY <1>1, <1>9, <1>13, <1>14 DEF HeapInv, ItemsKept

LEMMA DropTopKeeps == ASSUME HeapInv, DropTop PROVE HeapInv'
<1>1. /\ len \in Nat /\ len > 1 /\ a \in [0 .. len - 1 -> Keys] /\ keys = Counts(a, len)
      /\ len' = len - 1 /\ len - 1 \in Nat /\ len - 2 = (len - 1) - 1
  BY DEF HeapInv, ItemsKept, DropTop
<1>2. PICK n \in Nat : n = len - 1
  BY <1>1
<1>3. PICK b : b = [a EXCEPT ![0] = a[len - 1]]
  OBVIOUS
<1>4. PICK c : c = Facts!HeapAdjust(b, 0, n)
  OBVIOUS
<1>5. /\ a' = [x \in 0 .. n - 1 |-> c[x]]
      /\ keys' = [keys EXCEPT ![a[0]] = @ - 1]
  BY <1>1, <1>2, <1>3, <1>4, SameOperations DEF DropTop, Restrict
<1>6. /\ b \in [0 .. len - 1 -> Keys] /\ b[0] = a[n] /\ \A i \in 1 .. n : b[i] = a[i]
  BY <1>1, <1>2, <1>3
<1>7. Facts!IsArray(b, n) /\ 0 \in 0 .. n
  BY <1>1, <1>2, <1>6, ArrayIsArray
<1>8. Facts!IsArray(c, n) /\ Facts!Rearranged(b, c, n)
  BY <1>4, <1>7, Facts!AdjustRearranges
<1>9. c \in [0 .. len - 1 -> Keys] /\ Counts(c, n) = Counts(b, n)
  BY <1>1, <1>2, <1>6, <1>8, RearrangedTyped, CountsRearranged
<1>10. a' \in [0 .. n - 1 -> Keys] /\ \A i \in 0 .. n - 1 : a'[i] = c[i]
  BY <1>1, <1>2, <1>5, <1>9
<1>11. Counts(a', n) = Counts(c, n)
  BY <1>10 DEF Counts
<1>12. ASSUME NEW m \in Keys PROVE Counts(b, n)[m] = Behind(a, len, m)
  <2>1. PICK B, A : B = {i \in 0 .. n - 1 : b[i] = m} /\ A = {i \in 1 .. n : a[i] = m}
    OBVIOUS
  <2>2. IsFiniteSet(B)
    <3>1. IsFiniteSet(0 .. n - 1)
      BY FS_Interval
    <3> QED BY <2>1, <3>1, FS_Subset
  <2>3. PICK f : f = [i \in B |-> IF i = 0 THEN n ELSE i]
    OBVIOUS
  <2>4. f \in [B -> A] /\ \A x \in B : f[x] = IF x = 0 THEN n ELSE x
    BY <1>1, <1>2, <1>6, <2>1, <2>3
  <2>5. \A x, y \in B : f[x] = f[y] => x = y
    BY <2>1, <2>4
  <2>6. ASSUME NEW y \in A PROVE \E x \in B : f[x] = y
    <3>1. y \in 1 .. n /\ a[y] = m
      BY <2>1
    <3>2. CASE y = n
      <4>1. 0 \in B
        BY <1>1, <1>2, <1>6, <2>1, <3>1, <3>2
      <4> QED BY <2>4, <3>2, <4>1
    <3>3. CASE y # n
      <4>1. y \in B /\ y # 0
        BY <1>6, <2>1, <3>1, <3>3
      <4> QED BY <2>4, <4>1
    <3> QED BY <3>2, <3>3
  <2>7. f \in Bijection(B, A)
    BY <2>4, <2>5, <2>6, Zenon DEF Bijection, Injection, Surjection, IsInjective
  <2>8. Cardinality(A) = Cardinality(B)
    BY <2>2, <2>7, FS_Bijection, Zenon DEF ExistsBijection
  <2> QED BY <1>2, <2>1, <2>8 DEF Counts, Behind, Keys
<1>13. ASSUME NEW m \in Keys PROVE Counts(b, n)[m] = keys'[m]
  <2>1. /\ Behind(a, len, m) \in Nat
        /\ Counts(a, len)[m] = Behind(a, len, m) + IF a[0] = m THEN 1 ELSE 0
    BY <1>1, CountsSplit
  <2>2. keys = [i \in Keys |-> keys[i]]
    BY <1>1 DEF Counts, Keys
  <2>3. keys'[m] = keys[m] - IF m = a[0] THEN 1 ELSE 0
    BY <1>1, <1>5, <2>1, <2>2
  <2> QED BY <1>1, <1>12, <2>1, <2>3
<1>14. keys' = [i \in Keys |-> keys'[i]]
  BY <1>1, <1>5 DEF Counts, Keys
<1>15. Counts(b, n) = [i \in Keys |-> Counts(b, n)[i]]
  BY DEF Counts, Keys
<1>16. keys' = Counts(b, n)
  BY <1>13, <1>14, <1>15
<1>17. Counts(a, len)' = Counts(a', len')
  BY DEF Counts
<1> QED BY <1>1, <1>2, <1>9, <1>10, <1>11, <1>16, <1>17 DEF HeapInv, ItemsKept

LEMMA HeapInvAlways == Spec => []HeapInv
<1>1. Init => HeapInv
  BY MCItemHeapAssumption DEF Init, HeapInv, ItemsKept, Keys
<1>2. HeapInv /\ [Next]_<<a, len, phase, keys>> => HeapInv'
  <2> SUFFICES ASSUME HeapInv, [Next]_<<a, len, phase, keys>> PROVE HeapInv'
    OBVIOUS
  <2>1. CASE UNCHANGED <<a, len, phase, keys>>
    BY <2>1 DEF HeapInv, ItemsKept, Counts
  <2> QED BY <2>1, MakeKeeps, ReplaceTopKeeps, DropTopKeeps DEF Next
<1> QED BY <1>1, <1>2, PTL DEF Spec

\* _make_heap and _heap_adjust only move items: whatever batch is merged and
\* whichever worker is exhausted, no item is lost or doubled in the heap.
THEOREM HeapItemsKept == Spec => []ItemsKept
<1>1. HeapInv => ItemsKept
  BY DEF HeapInv
<1> QED BY <1>1, HeapInvAlways, PTL
=============================================================================
