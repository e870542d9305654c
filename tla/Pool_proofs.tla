----------------------------- MODULE Pool_proofs -----------------------------
(***************************************************************************)
(* The object pool keeps its free list intact, and implements PoolSpec,    *)
(* for every number of objects.                                            *)
(***************************************************************************)
EXTENDS Pool, FiniteSetTheorems, TLAPS

\* The inductive invariant.  The three safety invariants need each other: a
\* released object was unlinked because the list holds only free objects, and
\* nb_frees stays at most count because it counts them.
Inv == PoolTypeOK /\ FreeListOK /\ HeldReleasable /\ CountsFree

-----------------------------------------------------------------------------
\* pool_header_init links all objects, in the order 0, 1, ...: number i of the
\* list, counted from its end, is object count - i.
LEMMA InitInv == PoolInit => Inv
<1> SUFFICES ASSUME PoolInit PROVE Inv
  OBVIOUS
<1> USE CountAssumption
<1>1. PoolTypeOK
  BY DEF PoolInit, PoolTypeOK, Objects, HeadNode, ListNodes, Links
<1>2. FreeListOK
  <2> DEFINE f == [i \in 1 .. nb_frees |-> count - i]
  <2>1. f \in [1 .. nb_frees -> Objects]
    BY DEF PoolInit, Objects
  <2>2. {f[i] : i \in 1 .. nb_frees} = Objects \ out
    <3>1. ASSUME NEW o \in Objects PROVE \E i \in 1 .. nb_frees : f[i] = o
      <4>1. count - o \in 1 .. nb_frees /\ count - (count - o) = o
        BY DEF PoolInit, Objects
      <4> QED BY <4>1
    <3> QED BY <2>1, <3>1 DEF PoolInit
  <2>3. next[HeadNode] = f[nb_frees] /\ nb_frees # 0
    BY DEF PoolInit, HeadNode, ListNodes
  <2>4. ASSUME NEW i \in 1 .. nb_frees
        PROVE  next[f[i]] = IF i = 1 THEN MAX ELSE f[i - 1]
    <3>1. f[i] \in ListNodes /\ f[i] # HeadNode
      BY DEF PoolInit, HeadNode, ListNodes, Objects
    <3>2. CASE i = 1
      BY <3>1, <3>2 DEF PoolInit
    <3>3. CASE i # 1
      BY <3>1, <3>3 DEF PoolInit
    <3> QED BY <3>2, <3>3
  <2>5. \A i, j \in 1 .. nb_frees : f[i] = f[j] => i = j
    BY DEF PoolInit
  <2>6. Lists(f)
    BY <2>2, <2>3, <2>4, <2>5 DEF Lists
  <2> QED BY <2>1, <2>6 DEF FreeListOK
<1>3. HeldReleasable
  BY DEF PoolInit, HeldReleasable
<1>4. CountsFree
  BY FS_EmptySet DEF PoolInit, CountsFree
<1> QED BY <1>1, <1>2, <1>3, <1>4 DEF Inv

-----------------------------------------------------------------------------
\* When the pool is not exhausted the head points to a free object.
LEMMA HeadIsFree ==
  ASSUME Inv, nb_frees # 0
  PROVE  /\ next[HeadNode] \in Objects \ out
         /\ next[HeadNode] # HeadNode
<1> USE CountAssumption
<1>1. PICK f \in [1 .. nb_frees -> Objects] : Lists(f)
  BY DEF Inv, FreeListOK
<1>2. nb_frees \in 1 .. nb_frees
  BY DEF Inv, PoolTypeOK
<1>3. next[HeadNode] = f[nb_frees]
  BY <1>1 DEF Lists
<1>4. f[nb_frees] \in Objects \ out
  BY <1>1, <1>2 DEF Lists
<1> QED BY <1>3, <1>4 DEF Objects, HeadNode

\* The held objects are finitely many, so that counting them makes sense.
LEMMA OutFinite == Inv => IsFiniteSet(out) /\ Cardinality(out) \in Nat
<1> SUFFICES ASSUME Inv PROVE IsFiniteSet(out) /\ Cardinality(out) \in Nat
  OBVIOUS
<1>1. 0 \in Int /\ count - 1 \in Int
  BY CountAssumption
<1>2. IsFiniteSet(Objects)
  BY <1>1, FS_Interval DEF Objects
<1>3. out \subseteq Objects
  BY DEF Inv, PoolTypeOK
<1>4. IsFiniteSet(out)
  BY <1>2, <1>3, FS_Subset
<1> QED BY <1>4, FS_CardinalityType

\* Taking an object from the pool: the list loses its first element.
LEMMA GetInv == Inv /\ PoolGet => Inv'
<1> SUFFICES ASSUME Inv, PoolGet PROVE Inv'
  OBVIOUS
<1> USE CountAssumption
<1>0. PICK o : o = next[HeadNode]
  OBVIOUS
<1>1. PICK f \in [1 .. nb_frees -> Objects] : Lists(f)
  BY DEF Inv, FreeListOK
<1>2. /\ nb_frees \in 1 .. count
      /\ o = f[nb_frees]
      /\ o \in Objects \ out
      /\ o # HeadNode
  BY HeadIsFree, <1>0, <1>1 DEF Inv, PoolTypeOK, Lists, PoolGet
<1>3. /\ next' = [next EXCEPT ![HeadNode] = next[o], ![o] = MAX]
      /\ out' = out \cup {o}
      /\ ret' = o
      /\ nb_frees' = nb_frees - 1
  BY <1>0 DEF PoolGet
<1>4. PoolTypeOK'
  <2>1. next \in [ListNodes -> Links] /\ next[o] \in Links /\ MAX \in Links
    BY <1>2 DEF Inv, PoolTypeOK, ListNodes, Links
  <2>2. next' \in [ListNodes -> Links]
    BY <1>3, <2>1
  <2>3. out' \subseteq Objects /\ ret' \in Links /\ nb_frees' \in 0 .. count
    BY <1>2, <1>3 DEF Inv, PoolTypeOK, Links
  <2> QED BY <2>2, <2>3 DEF PoolTypeOK, ListNodes, Links, Objects, HeadNode
<1>5. FreeListOK'
  <2>0. PICK g : g = [i \in 1 .. nb_frees' |-> f[i]]
    OBVIOUS
  <2>1. g \in [1 .. nb_frees' -> Objects]
    BY <2>0, <1>1, <1>2, <1>3
  <2>2. \A i, j \in 1 .. nb_frees' : g[i] = g[j] => i = j
    BY <2>0, <1>1, <1>2, <1>3 DEF Lists
  <2>3. {g[i] : i \in 1 .. nb_frees'} = (Objects \ out)'
    <3>1. ASSUME NEW p \in (Objects \ out)'
          PROVE  \E i \in 1 .. nb_frees' : g[i] = p
      <4>1. PICK i \in 1 .. nb_frees : f[i] = p
        BY <1>1, <1>3, <3>1 DEF Lists, Objects
      <4>2. i # nb_frees
        BY <1>2, <1>3, <3>1, <4>1
      <4>3. i \in 1 .. nb_frees'
        BY <1>2, <1>3, <4>2
      <4> QED BY <2>0, <4>1, <4>3
    <3>2. ASSUME NEW i \in 1 .. nb_frees'
          PROVE  g[i] \in (Objects \ out)'
      <4>1. i \in 1 .. nb_frees /\ nb_frees \in 1 .. nb_frees /\ i # nb_frees
        BY <1>2, <1>3
      <4>2. f[i] \in Objects \ out /\ f[i] # o
        BY <1>1, <1>2, <4>1 DEF Lists
      <4> QED BY <2>0, <1>3, <4>2 DEF Objects
    <3> QED BY <3>1, <3>2
  <2>4. next'[HeadNode] = IF nb_frees' = 0 THEN MAX ELSE g[nb_frees']
    <3>1. next'[HeadNode] = next[o]
      BY <1>2, <1>3 DEF Inv, PoolTypeOK, ListNodes
    <3>2. next[o] = IF nb_frees = 1 THEN MAX ELSE f[nb_frees - 1]
      BY <1>1, <1>2 DEF Lists
    <3> QED BY <1>2, <1>3, <2>0, <3>1, <3>2
  <2>5. ASSUME NEW i \in 1 .. nb_frees'
        PROVE  next'[g[i]] = IF i = 1 THEN MAX ELSE g[i - 1]
    <3>1. i \in 1 .. nb_frees /\ nb_frees \in 1 .. nb_frees /\ i # nb_frees
      BY <1>2, <1>3
    <3>2. g[i] = f[i] /\ f[i] # o /\ f[i] # HeadNode /\ f[i] \in ListNodes
      BY <2>0, <1>1, <1>2, <3>1 DEF Lists, Objects, ListNodes, HeadNode
    <3>3. next'[g[i]] = next[f[i]]
      BY <2>0, <1>3, <3>2 DEF Inv, PoolTypeOK
    <3>4. next[f[i]] = IF i = 1 THEN MAX ELSE f[i - 1]
      BY <1>1, <3>1 DEF Lists
    <3>5. i # 1 => g[i - 1] = f[i - 1]
      BY <2>0, <1>2, <1>3
    <3> QED BY <3>3, <3>4, <3>5
  <2>6. Lists(g)'
    BY <2>2, <2>3, <2>4, <2>5 DEF Lists, Objects, HeadNode
  <2> QED BY <2>1, <2>6 DEF FreeListOK, Objects
<1>6. HeldReleasable'
  BY <1>2, <1>3 DEF Inv, PoolTypeOK, HeldReleasable, Releasable, Objects, HeadNode, ListNodes
<1>7. CountsFree'
  <2>1. IsFiniteSet(out)
    BY OutFinite
  <2>2. Cardinality(out') = Cardinality(out) + 1
    BY <1>2, <1>3, <2>1, FS_AddElement
  <2>3. Cardinality(out) \in Nat
    BY OutFinite
  <2> QED BY <1>2, <1>3, <2>2, <2>3 DEF Inv, CountsFree
<1> QED BY <1>4, <1>5, <1>6, <1>7 DEF Inv

-----------------------------------------------------------------------------
\* Putting a held object back: it becomes the first of the list.
LEMMA ReleaseInv ==
  ASSUME NEW o \in out, Inv, PoolRelease(o)
  PROVE  Inv'
<1> USE CountAssumption
<1>1. PICK f \in [1 .. nb_frees -> Objects] : Lists(f)
  BY DEF Inv, FreeListOK
<1>2. /\ next' = [next EXCEPT ![o] = next[HeadNode], ![HeadNode] = o]
      /\ out' = out \ {o}
      /\ ret' = ret
      /\ nb_frees' = nb_frees + 1
  BY DEF PoolRelease, Link
<1>3. o \in Objects /\ o # HeadNode /\ o \in ListNodes /\ HeadNode \in ListNodes
  BY DEF Inv, PoolTypeOK, Objects, HeadNode, ListNodes
<1>4. IsFiniteSet(out) /\ Cardinality(out) \in Nat
  BY OutFinite
<1>5. Cardinality(out') = Cardinality(out) - 1
  BY <1>2, <1>4, FS_RemoveElement
<1>6. Cardinality(out') \in Nat
  BY <1>2, <1>4, FS_Subset, FS_CardinalityType
<1>7. nb_frees \in Nat /\ nb_frees' \in 1 .. count
  BY <1>2, <1>4, <1>5, <1>6 DEF Inv, PoolTypeOK, CountsFree
<1>8. PoolTypeOK'
  <2>1. next \in [ListNodes -> Links] /\ next[HeadNode] \in Links /\ o \in Links
    BY <1>3 DEF Inv, PoolTypeOK, Links
  <2>2. next' \in [ListNodes -> Links]
    BY <1>2, <2>1
  <2>3. out' \subseteq Objects /\ ret' \in Links /\ nb_frees' \in 0 .. count
    BY <1>2, <1>7 DEF Inv, PoolTypeOK
  <2> QED BY <2>2, <2>3 DEF PoolTypeOK, ListNodes, Links, Objects, HeadNode
<1>9. FreeListOK'
  <2>0. PICK g : g = [i \in 1 .. nb_frees' |-> IF i = nb_frees' THEN o ELSE f[i]]
    OBVIOUS
  <2>1. g \in [1 .. nb_frees' -> Objects]
    BY <2>0, <1>1, <1>2, <1>3, <1>7
  <2>2. \A i \in 1 .. nb_frees : f[i] \in Objects \ out /\ f[i] # o /\ f[i] # HeadNode
    BY <1>1 DEF Lists, Objects, HeadNode
  <2>3. \A i, j \in 1 .. nb_frees' : g[i] = g[j] => i = j
    BY <2>0, <1>1, <1>2, <1>7, <2>2 DEF Lists
  <2>4. {g[i] : i \in 1 .. nb_frees'} = (Objects \ out)'
    <3>1. ASSUME NEW p \in (Objects \ out)'
          PROVE  \E i \in 1 .. nb_frees' : g[i] = p
      <4>1. CASE p = o
        <5>1. nb_frees' \in 1 .. nb_frees' /\ g[nb_frees'] = p
          BY <2>0, <1>7, <4>1
        <5> QED BY <5>1
      <4>2. CASE p # o
        <5>1. PICK i \in 1 .. nb_frees : f[i] = p
          BY <1>1, <1>2, <3>1, <4>2 DEF Lists, Objects
        <5>2. i \in 1 .. nb_frees' /\ i # nb_frees'
          BY <1>2, <1>7
        <5> QED BY <2>0, <5>1, <5>2
      <4> QED BY <4>1, <4>2
    <3>2. ASSUME NEW i \in 1 .. nb_frees'
          PROVE  g[i] \in (Objects \ out)'
      <4>1. i = nb_frees' \/ i \in 1 .. nb_frees
        BY <1>2, <1>7
      <4> QED BY <2>0, <1>2, <1>3, <2>2, <4>1 DEF Objects
    <3> QED BY <3>1, <3>2
  <2>5. next'[HeadNode] = IF nb_frees' = 0 THEN MAX ELSE g[nb_frees']
    BY <2>0, <1>2, <1>3, <1>7 DEF Inv, PoolTypeOK
  <2>6. ASSUME NEW i \in 1 .. nb_frees'
        PROVE  next'[g[i]] = IF i = 1 THEN MAX ELSE g[i - 1]
    <3>1. CASE i = nb_frees'
      <4>1. next'[o] = next[HeadNode]
        BY <1>2, <1>3 DEF Inv, PoolTypeOK
      <4>2. next[HeadNode] = IF nb_frees = 0 THEN MAX ELSE f[nb_frees]
        BY <1>1 DEF Lists
      <4>3. i - 1 = nb_frees /\ (nb_frees # 0 => g[i - 1] = f[nb_frees])
        BY <2>0, <1>2, <1>7, <3>1
      <4>4. g[i] = o /\ (i = 1 <=> nb_frees = 0)
        BY <1>2, <1>7, <2>0, <3>1
      <4> QED BY <4>1, <4>2, <4>3, <4>4
    <3>2. CASE i # nb_frees'
      <4>1. i \in 1 .. nb_frees
        BY <1>2, <1>7, <3>2
      <4>2. next'[f[i]] = next[f[i]]
        BY <1>2, <1>3, <2>2, <4>1 DEF Inv, PoolTypeOK, ListNodes
      <4>3. next[f[i]] = IF i = 1 THEN MAX ELSE f[i - 1]
        BY <1>1, <4>1 DEF Lists
      <4>4. g[i] = f[i] /\ (i # 1 => g[i - 1] = f[i - 1])
        BY <2>0, <1>2, <1>7, <3>2, <4>1
      <4> QED BY <2>0, <4>2, <4>3, <4>4
    <3> QED BY <3>1, <3>2
  <2>7. Lists(g)'
    BY <2>3, <2>4, <2>5, <2>6 DEF Lists, Objects, HeadNode
  <2> QED BY <2>1, <2>7 DEF FreeListOK, Objects
<1>10. HeldReleasable'
  BY <1>2, <1>3 DEF Inv, PoolTypeOK, HeldReleasable, Releasable, Objects, HeadNode, ListNodes
<1>11. CountsFree'
  BY <1>2, <1>4, <1>5, <1>7 DEF Inv, CountsFree
<1> QED BY <1>8, <1>9, <1>10, <1>11 DEF Inv

-----------------------------------------------------------------------------
\* Every step of the pool keeps the invariant.
LEMMA NextInv == Inv /\ [PoolNext]_poolVars => Inv'
<1> SUFFICES ASSUME Inv, [PoolNext]_poolVars PROVE Inv'
  OBVIOUS
<1>1. CASE PoolGet
  BY <1>1, GetInv
<1>2. CASE PoolGetNone
  BY <1>2 DEF PoolGetNone, Inv, PoolTypeOK, FreeListOK, Lists, HeldReleasable,
              Releasable, CountsFree, Links
<1>3. CASE \E o \in out : PoolRelease(o)
  BY <1>3, ReleaseInv
<1>4. CASE UNCHANGED poolVars
  BY <1>4 DEF poolVars, Inv, PoolTypeOK, FreeListOK, Lists, HeldReleasable, Releasable,
              CountsFree
<1> QED BY <1>1, <1>2, <1>3, <1>4 DEF PoolNext

\* In every reachable state of a pool of any size: the fields have their types,
\* the free list is acyclic and links exactly the objects nobody holds, the
\* assertion of pool_release accepts every held object, and nb_frees is the
\* number of free ones.
THEOREM PoolSafety ==
  PoolBehavior => [](PoolTypeOK /\ FreeListOK /\ HeldReleasable /\ CountsFree)
<1>1. PoolBehavior => []Inv
  BY InitInv, NextInv, PTL DEF PoolBehavior
<1> QED BY <1>1, PTL DEF Inv

\* The conjuncts on their own: the fields of the pool and its objects have their
\* types,
THEOREM PoolTypes == PoolBehavior => []PoolTypeOK
  BY PoolSafety, PTL

\* the free list is never broken, however pool_get and pool_release alternate,
THEOREM PoolListIntact == PoolBehavior => []FreeListOK
  BY PoolSafety, PTL

\* the assertion of pool_release never fails for an object the caller holds,
THEOREM PoolHeldReleasable == PoolBehavior => []HeldReleasable
  BY PoolSafety, PTL

\* and nb_frees, on which the worker relies, counts the objects nobody holds.
THEOREM PoolCountsFree == PoolBehavior => []CountsFree
  BY PoolSafety, PTL

\* The pool of any size implements PoolSpec: pool_get never returns an object
\* that is already held, and returns NULL only when all are.
THEOREM PoolRefinement == PoolBehavior => RefinesPoolSpec
<1>1. PoolInit => Abstract!Init
  BY DEF PoolInit, Abstract!Init
<1>2. Inv /\ [PoolNext]_poolVars => [Abstract!Next]_<<out, ret>>
  <2> SUFFICES ASSUME Inv, [PoolNext]_poolVars PROVE [Abstract!Next]_<<out, ret>>
    OBVIOUS
  <2>1. CASE PoolGet
    <3>1. next[HeadNode] \in Objects \ out
      BY <2>1, HeadIsFree DEF PoolGet
    <3>2. Abstract!Get
      BY <2>1, <3>1 DEF PoolGet, Abstract!Get
    <3> QED BY <3>2 DEF Abstract!Next
  <2>2. CASE PoolGetNone
    <3>1. PICK f \in [1 .. nb_frees -> Objects] : Lists(f)
      BY DEF Inv, FreeListOK
    <3>2. {f[i] : i \in 1 .. nb_frees} = {}
      BY <2>2 DEF PoolGetNone
    <3>3. Objects \ out = {} /\ out \subseteq Objects
      BY <3>1, <3>2 DEF Lists, Inv, PoolTypeOK
    <3>4. out = Objects
      BY <3>3
    <3> QED BY <2>2, <3>4 DEF PoolGetNone, Abstract!GetNone, Abstract!Next
  <2>3. CASE \E o \in out : PoolRelease(o)
    BY <2>3 DEF PoolRelease, Link, Abstract!Release, Abstract!Next
  <2>4. CASE UNCHANGED poolVars
    BY <2>4 DEF poolVars
  <2> QED BY <2>1, <2>2, <2>3, <2>4 DEF PoolNext
<1>3. PoolBehavior => []Inv
  BY InitInv, NextInv, PTL DEF PoolBehavior
<1> QED BY <1>1, <1>2, <1>3, PTL DEF PoolBehavior, RefinesPoolSpec, Abstract!Spec
=============================================================================
