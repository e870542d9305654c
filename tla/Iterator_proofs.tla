-------------------------- MODULE Iterator_proofs --------------------------
(***************************************************************************)
(* The scan of an iterator, for any number of workers and keys, any store  *)
(* and any batch size, whatever answers are late or fail: no key comes     *)
(* twice, none of a merged worker is lost, no item of a freed batch is     *)
(* shown, and every batch is freed.                                        *)
(***************************************************************************)
EXTENDS Iterator, StructureLemmas

Facts == INSTANCE ItemHeap_proofs WITH Less <- ByKey

-----------------------------------------------------------------------------
(* The invariant.                                                          *)

Loading == {"seek_load", "seek_merge", "first_load", "first_merge"}
Merged  == {"idle", "next_wait"}

Entries == ToSet(item_array)
Top     == item_array[1]

InOrder(s) == \A i, j \in DOMAIN s : i < j => s[i] < s[j]

\* The batch tells of k: it holds it, or it is full and k comes later.
TellsOf(b, k) ==
  \/ k \in ToSet(b.items)
  \/ Len(b.items) = b.batch /\ \A i \in DOMAIN b.items : b.items[i] < k

\* What a batch of a worker with keys ks is, from whatever base.
BatchOK(b, ks) ==
  /\ b \in Batches /\ Len(b.items) <= MaxKey /\ InOrder(b.items)
  /\ ToSet(b.items) \subseteq ks
  /\ \A k \in ks : \A i \in DOMAIN b.items : b.items[i] < k => TellsOf(b, k)

\* The batch begins right above base.
FromBase(b, ks, base) ==
  /\ \A k \in ToSet(b.items) : k > base
  /\ \A k \in ks : k > base => TellsOf(b, k)

\* Where the user thread is, and what it has prepared.
PhaseOK ==
  /\ \A w \in Workers : scan_res[w] # NULL => BatchOK(scan_res[w], KeysOf(w))
  /\ live >= Cardinality(Held(Workers))
  /\ pc \in {"seek_wait", "seek_load", "seek_merge"} => start \in Keys
  /\ pc \in {"first_load", "first_merge"} => start = 0
  /\ pc \in {"seek_load", "seek_merge"} =>
       seek_key = start /\ item_array = <<[wid |-> shard[start], key |-> start, own |-> TRUE]>>
  /\ pc \in {"seek_wait", "first_load", "first_merge"} => item_array = << >>
  /\ pc \in Loading \cup {"seek_wait"} =>
       per_worker_idx = [w \in Workers |-> 0] /\ seen = << >> /\ joined = {}
  /\ pc = "next_wait" => item_array # << >>

\* What the workers still have to answer.
QueueOK ==
  /\ live = Cardinality(Held(Workers))
  /\ \A w \in Workers : scan_res[w] # NULL =>
       queue[w] = << >> /\ \A k \in ToSet(scan_res[w].items) : k > start
  /\ \A w \in Workers : \A i \in DOMAIN queue[w] :
       queue[w][i].op # "seek" => i = Len(queue[w]) /\ queue[w][i].base >= start
  /\ pc = "seek_wait" => \A w \in Workers :
       scan_res[w] = NULL /\ \A i \in DOMAIN queue[w] : queue[w][i].op = "seek"
  /\ pc \in Loading => \A w \in Workers :
       /\ \A i \in DOMAIN queue[w] : queue[w][i].op # "seek" => queue[w][i].base = start
       /\ scan_res[w] # NULL => FromBase(scan_res[w], KeysOf(w), start)

\* kv_iterator_next waits for the next batch of the worker on top.
WaitOK ==
  pc = "next_wait" =>
    /\ per_worker_idx[Top.wid] = 0
    /\ \A i \in DOMAIN queue[Top.wid] :
         /\ queue[Top.wid][i].op # "seek" /\ queue[Top.wid][i].base = Top.key
         /\ queue[Top.wid][i].batch = BatchSize
    /\ scan_res[Top.wid] # NULL =>
         /\ FromBase(scan_res[Top.wid], KeysOf(Top.wid), Top.key)
         /\ scan_res[Top.wid].batch = BatchSize

\* ItemsAlive, and more of the entry that is the iterator's own.
EntryOK(e) ==
  /\ e.own /\ e.wid \in joined =>
       /\ per_worker_idx[e.wid] = 0 /\ scan_res[e.wid] # NULL
       /\ FromBase(scan_res[e.wid], KeysOf(e.wid), start)
  /\ ~e.own =>
       /\ scan_res[e.wid] # NULL
       /\ per_worker_idx[e.wid] \in DOMAIN scan_res[e.wid].items
       /\ e.key = scan_res[e.wid].items[per_worker_idx[e.wid]]

EntriesOK ==
  pc \in Merged =>
    /\ \A e \in Entries : e.own => start \in Keys /\ e.wid = shard[start] /\ e.key = seek_key
    /\ \A e \in Entries : pc = "idle" \/ e # Top => EntryOK(e)

\* The keys that the scan has returned.
SeenOK ==
  /\ IsInjective(seen)
  /\ \A k \in ToSet(seen) : k = start \/ (k \in stored /\ k > start)

\* The heap stands between the keys that were returned and those to come.
OrderOK ==
  pc \in Merged =>
    /\ item_array # << >> => Top.key \in ToSet(seen)
    /\ \A e \in Entries :
         /\ shard[e.key] = e.wid /\ (e.key = start \/ (e.key \in stored /\ e.key > start))
         /\ \A k \in ToSet(seen) : shard[k] = e.wid => k <= e.key /\ (k = e.key => e = Top)
    /\ \A w \in joined :
         \/ \A k \in KeysOf(w) : k >= start => k \in ToSet(seen)
         \/ \E e \in Entries :
              /\ e.wid = w
              /\ \A k \in KeysOf(w) : start <= k /\ k < e.key => k \in ToSet(seen)

IterInv ==
  /\ TypeOK /\ PhaseOK
  /\ ~abandoned => QueueOK /\ WaitOK /\ EntriesOK
  /\ ~abandoned /\ SeekKeyKept => SeenOK /\ OrderOK

-----------------------------------------------------------------------------
(* The batches of the workers.                                             *)

\* What Smallest chooses.
IsSmallest(s, ns, n) ==
  /\ s \in [1 .. n -> ns]
  /\ \A i, j \in 1 .. n : i < j => s[i] < s[j]
  /\ \A k \in ns : k \in ToSet(s) \/ \A i \in 1 .. n : s[i] < k

LEMMA SmallestGoesOn ==
  ASSUME NEW ns \in SUBSET Nat, IsFiniteSet(ns), NEW n \in Nat, n < Cardinality(ns),
         NEW s, IsSmallest(s, ns, n)
  PROVE  \E t : IsSmallest(t, ns, n + 1)
<1>1. /\ s \in [1 .. n -> ns] /\ \A i, j \in 1 .. n : i < j => s[i] < s[j]
      /\ \A k \in ns : k \in ToSet(s) \/ \A i \in 1 .. n : s[i] < k
  BY DEF IsSmallest
<1>2. ToSet(s) = {s[i] : i \in 1 .. n}
  BY <1>1 DEF ToSet
<1>3. ns \ ToSet(s) # {}
  <2>1. s \in Seq(ns) /\ Len(s) = n /\ DOMAIN s = 1 .. n
    BY <1>1
  <2>2. IsInjective(s)
    <3>1. \A i \in 1 .. n : s[i] \in Nat
      BY <1>1
    <3>2. \A i, j \in 1 .. n : s[i] = s[j] => i = j
      BY <1>1, <3>1
    <3> QED BY <2>1, <3>2 DEF IsInjective
  <2>3. Cardinality(ToSet(s)) = n
    BY <2>1, <2>2, LengthIsCardinality
  <2>4. ToSet(s) \subseteq ns
    BY <1>1, <1>2
  <2>5. ToSet(s) # ns
    BY <2>3
  <2> QED BY <2>4, <2>5
<1>4. PICK x \in ns \ ToSet(s) : \A y \in ns \ ToSet(s) : x <= y
  <2>1. ns \ ToSet(s) \in SUBSET Nat
    OBVIOUS
  <2> QED BY <1>3, <2>1, Facts!LeastOf
<1>5. PICK t : t = [i \in 1 .. n + 1 |-> IF i = n + 1 THEN x ELSE s[i]]
  OBVIOUS
<1>6. /\ t \in [1 .. n + 1 -> ns] /\ t[n + 1] = x /\ \A i \in 1 .. n : t[i] = s[i]
  BY <1>1, <1>5
<1>7. \A i \in 1 .. n : s[i] < x
  BY <1>1
<1>8. \A i, j \in 1 .. n + 1 : i < j => t[i] < t[j]
  <2> SUFFICES ASSUME NEW i \in 1 .. n + 1, NEW j \in 1 .. n + 1, i < j PROVE t[i] < t[j]
    OBVIOUS
  <2>1. i \in 1 .. n /\ (j \in 1 .. n \/ j = n + 1)
    OBVIOUS
  <2> QED BY <1>1, <1>6, <1>7, <2>1
<1>9. ASSUME NEW k \in ns, k \notin ToSet(t) PROVE \A i \in 1 .. n + 1 : t[i] < k
  <2>1. \A i \in 1 .. n + 1 : t[i] # k
    BY <1>6, <1>9 DEF ToSet
  <2>2. n + 1 \in 1 .. n + 1 /\ \A i \in 1 .. n : i \in 1 .. n + 1
    OBVIOUS
  <2>3. k \notin ToSet(s) /\ k # x
    BY <1>2, <1>6, <2>1, <2>2
  <2>4. x <= k /\ \A i \in 1 .. n : s[i] < k
    BY <1>1, <1>4, <2>3
  <2>5. x < k
    BY <2>3, <2>4
  <2> QED BY <1>6, <2>4, <2>5
<1> QED BY <1>6, <1>8, <1>9 DEF IsSmallest

LEMMA SmallestIs ==
  ASSUME NEW ns \in SUBSET Nat, IsFiniteSet(ns), NEW n \in Nat, n <= Cardinality(ns)
  PROVE  IsSmallest(Smallest(ns, n), ns, n)
<1>1. Cardinality(ns) \in Nat
  BY FS_CardinalityType
<1>2. PICK U : U = {m \in 0 .. Cardinality(ns) : \A s : ~IsSmallest(s, ns, m)}
  OBVIOUS
<1>3. U = {}
  <2> SUFFICES ASSUME U # {} PROVE FALSE
    OBVIOUS
  <2>1. U \in SUBSET Nat
    BY <1>2
  <2>2. PICK m \in U : \A j \in U : m <= j
    BY <2>1, Facts!LeastOf
  <2>3. m # 0
    <3>1. IsSmallest([i \in 1 .. 0 |-> i], ns, 0)
      BY DEF IsSmallest
    <3> QED BY <1>2, <3>1
  <2>4. m - 1 \in Nat /\ m - 1 < Cardinality(ns) /\ m - 1 \notin U /\ m - 1 + 1 = m
    BY <1>1, <1>2, <2>2, <2>3
  <2>5. PICK s : IsSmallest(s, ns, m - 1)
    BY <1>1, <1>2, <2>4
  <2>6. \E t : IsSmallest(t, ns, m - 1 + 1)
    BY <2>4, <2>5, SmallestGoesOn
  <2> QED BY <1>2, <2>2, <2>4, <2>6
<1>4. PICK s : IsSmallest(s, ns, n)
  BY <1>1, <1>2, <1>3
<1> QED BY <1>4 DEF IsSmallest, Smallest

LEMMA KeysAre ==
  /\ Keys \subseteq Nat /\ \A k \in Keys \cup {0} : k \in Nat
  /\ IsFiniteSet(Keys) /\ Cardinality(Keys) = MaxKey
<1>1. MaxKey \in Nat
  BY IteratorAssumption
<1>2. IsFiniteSet(1 .. MaxKey) /\ Cardinality(1 .. MaxKey) = MaxKey
  BY <1>1, FS_Interval
<1>3. 1 .. MaxKey \subseteq Nat
  BY <1>1
<1> QED BY <1>2, <1>3 DEF Keys

\* A worker that loads above base answers with all its keys there, as far as
\* they fit into the batch.
LEMMA LoadIs ==
  ASSUME stored \subseteq Keys, NEW w, NEW base \in Nat, NEW batch \in Nat
  PROVE  LET b == Load(w, base, batch)
         IN  BatchOK(b, KeysOf(w)) /\ FromBase(b, KeysOf(w), base) /\ b.batch = batch /\ b # NULL
<1>1. PICK above : above = {k \in KeysOf(w) : k > base}
  OBVIOUS
<1>2. PICK n : n = Cardinality(above)
  OBVIOUS
<1>3. PICK m : m = IF batch < n THEN batch ELSE n
  OBVIOUS
<1>4. PICK s : s = Smallest(above, m)
  OBVIOUS
<1>5. PICK b : b = [items |-> s, batch |-> batch]
  OBVIOUS
<1>6. Load(w, base, batch) = b
  BY <1>1, <1>2, <1>3, <1>4, <1>5 DEF Load
<1>7. KeysOf(w) \subseteq Keys /\ Keys \subseteq Nat /\ IsFiniteSet(Keys) /\ Cardinality(Keys) = MaxKey
  BY KeysAre DEF KeysOf
<1>8. above \subseteq Keys
  BY <1>1, <1>7
<1>9. IsFiniteSet(above) /\ n \in Nat /\ n <= MaxKey
  BY <1>2, <1>7, <1>8, FS_Subset, FS_CardinalityType
<1>10. m \in Nat /\ m <= n /\ (m = batch \/ m = n)
  BY <1>3, <1>9
<1>11. IsSmallest(s, above, m)
  BY <1>2, <1>4, <1>7, <1>8, <1>9, <1>10, SmallestIs
<1>12. /\ s \in [1 .. m -> above] /\ \A i, j \in 1 .. m : i < j => s[i] < s[j]
       /\ \A k \in above : k \in ToSet(s) \/ \A i \in 1 .. m : s[i] < k
  BY <1>11 DEF IsSmallest
<1>13. s \in Seq(above) /\ s \in Seq(Keys) /\ Len(s) = m /\ DOMAIN s = 1 .. m
  BY <1>8, <1>10, <1>12
<1>14. ToSet(s) \subseteq above /\ \A i \in 1 .. m : s[i] \in above /\ s[i] \in Nat
  BY <1>7, <1>8, <1>12, <1>13 DEF ToSet
<1>15. m = n => ToSet(s) = above
  <2>1. \A i, j \in 1 .. m : s[i] = s[j] => i = j
    BY <1>10, <1>12, <1>14
  <2>2. IsInjective(s)
    BY <1>13, <2>1 DEF IsInjective
  <2>3. Cardinality(ToSet(s)) = m
    BY <1>13, <2>2, LengthIsCardinality
  <2> QED BY <1>2, <1>9, <1>14, <2>3, FS_Subset
<1>16. b.items = s /\ b.batch = batch /\ b \in Batches
  BY <1>5, <1>13 DEF Batches
<1>17. ASSUME NEW k \in KeysOf(w), k > base PROVE TellsOf(b, k)
  <2>1. k \in above
    BY <1>1, <1>17
  <2> QED BY <1>10, <1>12, <1>13, <1>15, <1>16, <2>1 DEF TellsOf
<1>18. \A k \in above : k \in KeysOf(w) /\ k > base /\ k \in Nat
  BY <1>1, <1>7
<1>19. FromBase(b, KeysOf(w), base)
  BY <1>14, <1>16, <1>17, <1>18 DEF FromBase
<1>20. ASSUME NEW k \in KeysOf(w), NEW i \in 1 .. m, s[i] < k PROVE TellsOf(b, k)
  <2>1. s[i] > base /\ s[i] \in Nat /\ k \in Nat
    BY <1>7, <1>14, <1>18
  <2>2. k > base
    BY <1>20, <2>1
  <2> QED BY <1>17, <2>2
<1>21. InOrder(s) /\ m <= MaxKey /\ ToSet(s) \subseteq KeysOf(w)
  <2>1. MaxKey \in Nat
    BY IteratorAssumption
  <2> QED BY <1>9, <1>10, <1>12, <1>13, <1>14, <1>18, <2>1 DEF InOrder
<1>22. BatchOK(b, KeysOf(w))
  BY <1>13, <1>16, <1>20, <1>21 DEF BatchOK
<1>23. b # NULL
  BY <1>16, IteratorAssumption DEF Batches, Keys
<1> QED BY <1>6, <1>16, <1>19, <1>22, <1>23

-----------------------------------------------------------------------------
(* The entries of the heap.                                                *)

AllEntries == [wid : Workers, key : Keys, own : BOOLEAN]

\* A sequence of entries, at most one of each worker.
AreEntries(s) ==
  s \in Seq(AllEntries) /\ \A i, j \in DOMAIN s : s[i].wid = s[j].wid => i = j

LEMMA SameOperations ==
  ASSUME NEW b, NEW i, NEW n
  PROVE  /\ Heap!HeapAdjust(b, i, n) = Facts!HeapAdjust(b, i, n)
         /\ Heap!MakeHeap(b, n) = Facts!MakeHeap(b, n)
<1>1. Heap!HeapAdjust(b, i, n) = Facts!HeapAdjust(b, i, n)
  BY Zenon DEF Heap!HeapAdjust, Facts!HeapAdjust, Heap!Swapped, Facts!Swapped,
               Heap!Range, Facts!Range
<1>2. Heap!MakeHeap(b, n) = Facts!MakeHeap(b, n)
  BY Zenon DEF Heap!MakeHeap, Facts!MakeHeap, Heap!HeapAdjust, Facts!HeapAdjust,
               Heap!Swapped, Facts!Swapped, Heap!Range, Facts!Range
<1> QED BY <1>1, <1>2

LEMMA EntriesAre ==
  ASSUME NEW s, AreEntries(s)
  PROVE  /\ Len(s) \in Nat /\ DOMAIN s = 1 .. Len(s) /\ s \in [1 .. Len(s) -> AllEntries]
         /\ ToSet(s) \subseteq AllEntries
         /\ s # << >> => 1 \in DOMAIN s /\ s[1] \in ToSet(s)
         /\ s = << >> <=> ToSet(s) = {}
         /\ \A d, e \in ToSet(s) : d.wid = e.wid => d = e
<1>1. Len(s) \in Nat /\ DOMAIN s = 1 .. Len(s) /\ s \in [1 .. Len(s) -> AllEntries]
  BY LenProperties DEF AreEntries
<1>2. ToSet(s) = {s[i] : i \in 1 .. Len(s)}
  BY <1>1 DEF ToSet
<1>3. s # << >> => Len(s) # 0
  BY EmptySeq DEF AreEntries
<1>4. s = << >> => Len(s) = 0
  OBVIOUS
<1>5. s # << >> => 1 \in 1 .. Len(s)
  BY <1>1, <1>3
<1>6. s = << >> => ToSet(s) = {}
  BY <1>1, <1>2, <1>4
<1>7. s # << >> => s[1] \in ToSet(s)
  BY <1>2, <1>5
<1>8. ToSet(s) \subseteq AllEntries
  BY <1>1, <1>2
<1>9. \A d, e \in ToSet(s) : d.wid = e.wid => d = e
  BY <1>1, <1>2 DEF AreEntries
<1> QED BY <1>1, <1>5, <1>6, <1>7, <1>8, <1>9

\* What the heap's operations do to the entries.
LEMMA RearrangedEntries ==
  ASSUME NEW s, AreEntries(s), NEW n \in Nat, n = Len(s), NEW c, Facts!Rearranged(ToArray(s), c, n)
  PROVE  LET t == ToSequence(c, n)
         IN  AreEntries(t) /\ Len(t) = n /\ ToSet(t) = ToSet(s)
<1>1. PICK t : t = ToSequence(c, n)
  OBVIOUS
<1>2. PICK p : Facts!Rearranges(ToArray(s), c, n, p)
  BY DEF Facts!Rearranged
<1>3. /\ p \in [0 .. n - 1 -> 0 .. n - 1]
      /\ \A x, y \in 0 .. n - 1 : p[x] = p[y] => x = y
      /\ \A y \in 0 .. n - 1 : \E x \in 0 .. n - 1 : p[x] = y
      /\ \A x \in 0 .. n - 1 : c[x] = ToArray(s)[p[x]]
  BY <1>2 DEF Facts!Rearranges, Facts!Bijection, Facts!Injection, Facts!Surjection,
              Facts!IsInjective
<1>4. \A x \in 0 .. n - 1 : ToArray(s)[x] = s[x + 1]
  BY DEF ToArray
<1>5. DOMAIN s = 1 .. n /\ s \in [1 .. n -> AllEntries]
  BY EntriesAre
<1>6. t = [i \in 1 .. n |-> c[i - 1]]
  BY <1>1 DEF ToSequence
<1>7. ASSUME NEW i \in 1 .. n
      PROVE  i - 1 \in 0 .. n - 1 /\ p[i - 1] \in 0 .. n - 1 /\ p[i - 1] + 1 \in 1 .. n
  <2>1. i - 1 \in 0 .. n - 1
    OBVIOUS
  <2>2. p[i - 1] \in 0 .. n - 1
    BY <1>3, <2>1
  <2> QED BY <2>1, <2>2
<1>8. \A i \in 1 .. n : t[i] = s[p[i - 1] + 1]
  BY <1>3, <1>4, <1>6, <1>7
<1>9. t \in [1 .. n -> AllEntries]
  BY <1>5, <1>6, <1>7, <1>8
<1>10. t \in Seq(AllEntries) /\ Len(t) = n /\ DOMAIN t = 1 .. n
  BY <1>9
<1>11. ASSUME NEW i \in 1 .. n, NEW j \in 1 .. n, t[i].wid = t[j].wid PROVE i = j
  <2>1. p[i - 1] + 1 = p[j - 1] + 1
    <3>1. PICK x, y \in 1 .. n : x = p[i - 1] + 1 /\ y = p[j - 1] + 1
      BY <1>7
    <3>2. t[i] = s[x] /\ t[j] = s[y]
      BY <1>8, <3>1
    <3> QED BY <1>5, <1>11, <3>1, <3>2 DEF AreEntries
  <2>2. p[i - 1] = p[j - 1]
    BY <1>7, <2>1
  <2>3. i - 1 = j - 1
    BY <1>3, <1>7, <2>2
  <2> QED BY <2>3
<1>12. ToSet(t) \subseteq ToSet(s)
  BY <1>5, <1>7, <1>8, <1>10 DEF ToSet
<1>13. ASSUME NEW i \in 1 .. n PROVE \E j \in 1 .. n : t[j] = s[i]
  <2>1. PICK x \in 0 .. n - 1 : p[x] = i - 1
    BY <1>3, <1>7
  <2>2. x + 1 \in 1 .. n /\ (x + 1) - 1 = x /\ p[x] + 1 = i
    BY <2>1
  <2> QED BY <1>8, <2>2
<1>14. ToSet(s) \subseteq ToSet(t)
  BY <1>5, <1>10, <1>13 DEF ToSet
<1> QED BY <1>1, <1>10, <1>11, <1>12, <1>14 DEF AreEntries

LEMMA HeapedEntries ==
  ASSUME NEW s, AreEntries(s)
  PROVE  /\ AreEntries(Made(s)) /\ ToSet(Made(s)) = ToSet(s)
         /\ AreEntries(Adjusted(s)) /\ ToSet(Adjusted(s)) = ToSet(s)
<1>1. PICK n \in Nat : n = Len(s)
  BY EntriesAre
<1>2. Facts!IsArray(ToArray(s), n) /\ 0 \in 0 .. n
  BY <1>1 DEF Facts!IsArray, ToArray
<1>3. /\ Facts!Rearranged(ToArray(s), Facts!HeapAdjust(ToArray(s), 0, n), n)
      /\ Facts!Rearranged(ToArray(s), Facts!MakeHeap(ToArray(s), n), n)
  BY <1>2, Facts!AdjustRearranges, Facts!MakeHeapRearranges
<1>4. /\ Made(s) = ToSequence(Facts!MakeHeap(ToArray(s), n), n)
      /\ Adjusted(s) = ToSequence(Facts!HeapAdjust(ToArray(s), 0, n), n)
  BY <1>1, SameOperations DEF Made, Adjusted
<1> QED BY <1>1, <1>3, <1>4, RearrangedEntries

\* Another entry of the same worker on top.
LEMMA TopReplaced ==
  ASSUME NEW s, AreEntries(s), s # << >>, NEW e \in AllEntries, e.wid = s[1].wid
  PROVE  LET t == [s EXCEPT ![1] = e]
         IN  AreEntries(t) /\ ToSet(t) = (ToSet(s) \ {s[1]}) \cup {e}
<1>1. PICK n \in Nat : n = Len(s)
  BY EntriesAre
<1>2. PICK t : t = [s EXCEPT ![1] = e]
  OBVIOUS
<1>3. 1 \in 1 .. n /\ DOMAIN s = 1 .. n /\ s \in [1 .. n -> AllEntries]
  BY <1>1, EntriesAre
<1>4. t \in [1 .. n -> AllEntries] /\ t[1] = e /\ \A i \in 1 .. n : i # 1 => t[i] = s[i]
  BY <1>2, <1>3
<1>5. t \in Seq(AllEntries) /\ DOMAIN t = 1 .. n
  BY <1>4
<1>6. \A i \in 1 .. n : t[i].wid = s[i].wid
  BY <1>3, <1>4
<1>7. AreEntries(t)
  BY <1>3, <1>5, <1>6 DEF AreEntries
<1>8. \A i \in 1 .. n : i # 1 => s[i] # s[1]
  BY <1>3 DEF AreEntries
<1>9. ToSet(s) = {s[i] : i \in 1 .. n} /\ ToSet(t) = {t[i] : i \in 1 .. n}
  BY <1>3, <1>5 DEF ToSet
<1>10. ToSet(t) = (ToSet(s) \ {s[1]}) \cup {e}
  <2>1. \A i \in 1 .. n : t[i] \in (ToSet(s) \ {s[1]}) \cup {e}
    BY <1>4, <1>8, <1>9
  <2>2. \A i \in 1 .. n : s[i] # s[1] => s[i] \in ToSet(t)
    BY <1>4, <1>9
  <2>3. e \in ToSet(t)
    BY <1>3, <1>4, <1>9
  <2> QED BY <1>9, <2>1, <2>2, <2>3
<1> QED BY <1>2, <1>7, <1>10

\* The last entry instead of the first, and one entry less.
LEMMA TopDropped ==
  ASSUME NEW s, AreEntries(s), Len(s) > 1
  PROVE  LET t == Front([s EXCEPT ![1] = Last(s)])
         IN  AreEntries(t) /\ ToSet(t) = ToSet(s) \ {s[1]} /\ t # << >>
<1>1. PICK n \in Nat : n = Len(s) /\ n > 1
  BY EntriesAre
<1>2. DOMAIN s = 1 .. n /\ s \in [1 .. n -> AllEntries] /\ 1 \in 1 .. n /\ n \in 1 .. n
  BY <1>1, EntriesAre
<1>3. PICK t : t = Front([s EXCEPT ![1] = Last(s)])
  OBVIOUS
<1>4. Len([s EXCEPT ![1] = Last(s)]) = n
  BY <1>1, <1>2
<1>5. t = [i \in 1 .. n - 1 |-> [s EXCEPT ![1] = Last(s)][i]]
  BY <1>1, <1>3, <1>4 DEF Front
<1>6. Last(s) = s[n]
  BY <1>1 DEF Last
<1>7. \A i \in 1 .. n - 1 : i \in 1 .. n /\ t[i] = IF i = 1 THEN s[n] ELSE s[i]
  BY <1>1, <1>2, <1>5, <1>6
<1>8. t \in [1 .. n - 1 -> AllEntries]
  BY <1>1, <1>2, <1>5, <1>7
<1>9. t \in Seq(AllEntries) /\ DOMAIN t = 1 .. n - 1 /\ Len(t) = n - 1
  BY <1>1, <1>8
<1>10. AreEntries(t)
  BY <1>1, <1>2, <1>7, <1>9 DEF AreEntries
<1>11. ToSet(s) = {s[i] : i \in 1 .. n} /\ ToSet(t) = {t[i] : i \in 1 .. n - 1}
  BY <1>2, <1>9 DEF ToSet
<1>12. \A i \in 1 .. n : i # 1 => s[i] # s[1]
  BY <1>2 DEF AreEntries
<1>13. ToSet(t) = ToSet(s) \ {s[1]}
  <2>1. \A i \in 1 .. n - 1 : t[i] \in ToSet(s) \ {s[1]}
    BY <1>1, <1>2, <1>7, <1>11, <1>12
  <2>2. ASSUME NEW i \in 1 .. n, s[i] # s[1] PROVE s[i] \in ToSet(t)
    <3>1. CASE i = n
      <4>1. 1 \in 1 .. n - 1 /\ t[1] = s[n]
        BY <1>1, <1>7
      <4> QED BY <1>11, <3>1, <4>1
    <3>2. CASE i # n
      <4>1. i \in 1 .. n - 1 /\ t[i] = s[i]
        BY <1>1, <1>7, <2>2, <3>2
      <4> QED BY <1>11, <4>1
    <3> QED BY <3>1, <3>2
  <2> QED BY <1>11, <2>1, <2>2
<1>14. t # << >>
  BY <1>1, <1>9
<1> QED BY <1>3, <1>10, <1>13, <1>14

WorkersFinite == IsFiniteSet(Workers) /\ Workers \subseteq Nat

LEMMA WorkersAre == WorkersFinite
<1>1. NbWorkers - 1 \in Int /\ 0 .. NbWorkers - 1 \subseteq Nat
  BY IteratorAssumption
<1>2. IsFiniteSet(0 .. NbWorkers - 1)
  BY <1>1, FS_Interval
<1> QED BY <1>1, <1>2 DEF Workers, WorkersFinite

FirstOf(w) == [wid |-> w, own |-> FALSE, key |-> scan_res[w].items[1]]

\* The merge adds the first item of each of ws.
LEMMA FirstItemsAre ==
  ASSUME NEW s, AreEntries(s), NEW ws \in SUBSET Workers,
         \A w \in ws : scan_res[w].items[1] \in Keys,
         \A e \in ToSet(s) : e.wid \notin ws
  PROVE  LET t == s \o FirstItems(ws)
         IN  AreEntries(t) /\ ToSet(t) = ToSet(s) \cup {FirstOf(w) : w \in ws}
<1>1. IsFiniteSet(ws) /\ ws \in SUBSET Nat
  BY WorkersAre, FS_Subset DEF WorkersFinite
<1>2. PICK n \in Nat : n = Cardinality(ws)
  BY <1>1, FS_CardinalityType
<1>3. PICK order : order = Smallest(ws, n)
  OBVIOUS
<1>4. IsSmallest(order, ws, n)
  BY <1>1, <1>2, <1>3, SmallestIs
<1>5. order \in [1 .. n -> ws] /\ \A i, j \in 1 .. n : i < j => order[i] < order[j]
  BY <1>4 DEF IsSmallest
<1>6. \A i, j \in 1 .. n : order[i] = order[j] => i = j
  <2>1. \A i \in 1 .. n : order[i] \in Nat
    BY <1>1, <1>5
  <2> QED BY <1>5, <2>1
<1>7. ToSet(order) = ws
  <2>1. order \in Seq(ws) /\ DOMAIN order = 1 .. n /\ Len(order) = n
    BY <1>5
  <2>2. Cardinality(ToSet(order)) = n
    BY <1>6, <2>1, LengthIsCardinality DEF IsInjective
  <2>3. ToSet(order) \subseteq ws
    BY <1>5, <2>1 DEF ToSet
  <2> QED BY <1>1, <1>2, <2>2, <2>3, FS_Subset
<1>8. PICK f : f = [i \in 1 .. n |-> FirstOf(order[i])]
  OBVIOUS
<1>9. FirstItems(ws) = f
  BY <1>2, <1>3, <1>8 DEF FirstItems, FirstOf
<1>10. \A w \in ws : FirstOf(w) \in AllEntries /\ FirstOf(w).wid = w
  BY DEF FirstOf, AllEntries
<1>11. f \in [1 .. n -> AllEntries] /\ \A i \in 1 .. n : f[i] = FirstOf(order[i]) /\ f[i].wid = order[i]
  BY <1>5, <1>8, <1>10
<1>12. f \in Seq(AllEntries) /\ DOMAIN f = 1 .. n /\ Len(f) = n
  BY <1>11
<1>13. ToSet(f) = {FirstOf(w) : w \in ws}
  <2>1. ToSet(f) = {FirstOf(order[i]) : i \in 1 .. n}
    BY <1>11, <1>12 DEF ToSet
  <2>2. ws = {order[i] : i \in 1 .. n}
    BY <1>5, <1>7 DEF ToSet
  <2> QED BY <2>1, <2>2
<1>14. PICK t : t = s \o f
  OBVIOUS
<1>15. s \in Seq(AllEntries) /\ t \in Seq(AllEntries) /\ ToSet(t) = ToSet(s) \cup ToSet(f)
  BY <1>12, <1>14, ElemsConcat, ConcatProperties DEF AreEntries
<1>16. PICK m \in Nat : m = Len(s)
  BY EntriesAre
<1>17. /\ DOMAIN s = 1 .. m /\ DOMAIN t = 1 .. m + n
       /\ \A i \in 1 .. m + n : t[i] = IF i <= m THEN s[i] ELSE f[i - m]
  BY <1>12, <1>14, <1>15, <1>16, ConcatProperties
<1>18. ASSUME NEW i \in 1 .. m + n, NEW j \in 1 .. m + n, t[i].wid = t[j].wid
       PROVE  i = j
  <2>1. ASSUME NEW x \in 1 .. m + n
        PROVE  \/ x \in 1 .. m /\ t[x] = s[x] /\ t[x].wid \notin ws
               \/ x - m \in 1 .. n /\ t[x] = f[x - m] /\ t[x].wid = order[x - m] /\ t[x].wid \in ws
    <3>1. CASE x <= m
      <4>1. x \in 1 .. m /\ t[x] = s[x]
        BY <1>17, <3>1
      <4> QED BY <1>17, <4>1 DEF ToSet
    <3>2. CASE ~(x <= m)
      <4>1. x - m \in 1 .. n /\ t[x] = f[x - m]
        BY <1>17, <3>2
      <4>2. PICK y \in 1 .. n : y = x - m
        BY <4>1
      <4> QED BY <1>5, <1>11, <4>1, <4>2
    <3> QED BY <3>1, <3>2
  <2>2. CASE i \in 1 .. m /\ t[i].wid \notin ws
    <3>1. j \in 1 .. m /\ s[i].wid = s[j].wid
      BY <1>18, <2>1, <2>2
    <3> QED BY <1>17, <2>2, <3>1 DEF AreEntries
  <2>3. CASE i - m \in 1 .. n /\ t[i].wid \in ws
    <3>1. j - m \in 1 .. n /\ order[i - m] = order[j - m]
      BY <1>18, <2>1, <2>3
    <3>2. i - m = j - m
      BY <1>6, <2>3, <3>1
    <3> QED BY <3>2
  <2> QED BY <2>1, <2>2, <2>3
<1> QED BY <1>9, <1>13, <1>14, <1>15, <1>17, <1>18 DEF AreEntries

-----------------------------------------------------------------------------
(* The steps.                                                              *)

LEMMA KeysStay ==
  ASSUME UNCHANGED <<stored, shard>>
  PROVE  \A w : KeysOf(w)' = KeysOf(w)
  BY DEF KeysOf

LEMMA TailIs ==
  ASSUME NEW S, NEW q \in Seq(S), q # << >>
  PROVE  /\ Head(q) \in S /\ Tail(q) \in Seq(S) /\ Len(q) \in Nat \ {0}
         /\ Head(q) = q[1] /\ 1 \in DOMAIN q
         /\ Len(Tail(q)) = Len(q) - 1
         /\ \A i \in DOMAIN Tail(q) : i + 1 \in DOMAIN q /\ Tail(q)[i] = q[i + 1]
<1>1. Len(q) \in Nat \ {0}
  BY EmptySeq
<1> QED BY <1>1, HeadTailProperties

LEMMA EntriesTyped ==
  ASSUME TypeOK
  PROVE  /\ AreEntries(item_array) /\ Entries \subseteq AllEntries
         /\ item_array # << >> => Top \in Entries /\ Top.wid \in Workers /\ Top.key \in Keys
         /\ item_array = << >> <=> Entries = {}
         /\ \A d, e \in Entries : d.wid = e.wid => d = e
<1>1. AreEntries(item_array)
  BY DEF TypeOK, AreEntries, AllEntries
<1>2. \A e \in AllEntries : e.wid \in Workers /\ e.key \in Keys
  BY DEF AllEntries
<1> QED BY <1>1, <1>2, EntriesAre DEF Entries, Top

LEMMA SeekCbKeeps ==
  ASSUME IterInv, NEW w \in Workers, SeekCb(w)
  PROVE  IterInv'
<1> PICK q : q = queue[w]
  OBVIOUS
<1>1. /\ q \in Seq(Requests) /\ q # << >> /\ queue[w] = q
      /\ queue' = [queue EXCEPT ![w] = Tail(q)] /\ queue \in [Workers -> Seq(Requests)]
  BY DEF IterInv, TypeOK, SeekCb
<1>2. UNCHANGED <<stored, shard, pc, nb_commands, cursor, scan_res, history>>
  BY DEF SeekCb
<1>3. \A v : KeysOf(v)' = KeysOf(v)
  BY <1>2, KeysStay
<1>4. /\ Tail(q) \in Seq(Requests) /\ Len(Tail(q)) = Len(q) - 1
      /\ \A i \in DOMAIN Tail(q) : i + 1 \in DOMAIN q /\ Tail(q)[i] = q[i + 1]
  BY <1>1, TailIs
<1>5. /\ queue' \in [Workers -> Seq(Requests)] /\ queue'[w] = Tail(q)
      /\ \A v \in Workers : v # w => queue'[v] = queue[v]
  BY <1>1, <1>4
<1>6. ASSUME NEW v \in Workers, NEW i \in DOMAIN queue'[v]
      PROVE  \E j \in DOMAIN queue[v] : /\ queue'[v][i] = queue[v][j]
                                        /\ j = Len(queue[v]) => i = Len(queue'[v])
  <2>1. CASE v = w
    <3>1. i + 1 \in DOMAIN q /\ queue'[v][i] = q[i + 1] /\ Len(queue'[v]) = Len(q) - 1
      BY <1>4, <1>5, <1>6, <2>1
    <3>2. i \in Int /\ Len(q) \in Int
      <4>1. i \in 1 .. Len(Tail(q))
        BY <1>4, <1>5, <1>6, <2>1
      <4> QED BY <1>1, <4>1, EmptySeq
    <3>3. PICK j \in DOMAIN q : j = i + 1
      BY <3>1
    <3>4. queue'[v][i] = queue[v][j]
      BY <1>1, <2>1, <3>1, <3>3, Zenon
    <3>5. j = Len(queue[v]) => i = Len(queue'[v])
      <4>1. queue[v] = q
        BY <1>1, <2>1
      <4>2. i + 1 = Len(q) => i = Len(q) - 1
        BY <3>2
      <4> QED BY <3>1, <3>3, <4>1, <4>2, Zenon
    <3> QED BY <1>1, <2>1, <3>4, <3>5
  <2>2. CASE v # w
    BY <1>5, <2>2
  <2> QED BY <2>1, <2>2
<1>7. TypeOK'
  <2>1. completed' \in [Workers -> BOOLEAN] /\ kverrno' \in [Workers -> BOOLEAN]
    BY DEF IterInv, TypeOK, SeekCb
  <2> QED BY <1>2, <1>5, <2>1 DEF IterInv, TypeOK, cursor, history
<1>8. PhaseOK'
  BY <1>2, <1>3 DEF IterInv, PhaseOK, Held, cursor, history
<1>9. QueueOK => QueueOK'
  <2> SUFFICES ASSUME QueueOK PROVE QueueOK'
    OBVIOUS
  <2>1. live' = Cardinality(Held(Workers))'
    BY <1>2 DEF QueueOK, Held, history
  <2>2. ASSUME NEW v \in Workers, scan_res'[v] # NULL
        PROVE  queue'[v] = << >> /\ \A k \in ToSet(scan_res'[v].items) : k > start'
    BY <1>1, <1>2, <1>5, <2>2 DEF QueueOK, cursor
  <2>3. \A v \in Workers : \A i \in DOMAIN queue'[v] :
          queue'[v][i].op # "seek" => i = Len(queue'[v]) /\ queue'[v][i].base >= start'
    BY <1>2, <1>6 DEF QueueOK, cursor
  <2>4. pc' = "seek_wait" => \A v \in Workers :
          scan_res'[v] = NULL /\ \A i \in DOMAIN queue'[v] : queue'[v][i].op = "seek"
    BY <1>2, <1>6 DEF QueueOK
  <2>5. pc' \in Loading => \A v \in Workers :
          /\ \A i \in DOMAIN queue'[v] : queue'[v][i].op # "seek" => queue'[v][i].base = start'
          /\ scan_res'[v] # NULL => FromBase(scan_res'[v], KeysOf(v)', start')
    BY <1>2, <1>3, <1>6 DEF QueueOK, cursor
  <2> QED BY <2>1, <2>2, <2>3, <2>4, <2>5 DEF QueueOK, Loading
<1>10. WaitOK => WaitOK'
  <2>1. pc = "next_wait" => Top.wid \in Workers
    BY EntriesTyped DEF IterInv, PhaseOK
  <2> QED BY <1>2, <1>3, <1>6, <2>1 DEF WaitOK, Top, cursor
<1>11. EntriesOK => EntriesOK'
  BY <1>2, <1>3 DEF EntriesOK, EntryOK, Entries, Top, Merged, cursor, history
<1>12. SeenOK /\ OrderOK => SeenOK' /\ OrderOK'
  BY <1>2, <1>3 DEF SeenOK, OrderOK, Entries, Top, Merged, cursor, history
<1>13. abandoned' = abandoned /\ (SeekKeyKept' <=> SeekKeyKept)
  BY <1>2 DEF SeekKeyKept, cursor, history
<1> QED BY <1>7, <1>8, <1>9, <1>10, <1>11, <1>12, <1>13 DEF IterInv

LEMMA IterCbKeeps ==
  ASSUME IterInv, NEW w \in Workers, IterCb(w)
  PROVE  IterInv'
<1> PICK q : q = queue[w]
  OBVIOUS
<1>1. /\ q \in Seq(Requests) /\ q # << >> /\ queue[w] = q /\ Head(q).op # "seek"
      /\ queue' = [queue EXCEPT ![w] = Tail(q)] /\ queue \in [Workers -> Seq(Requests)]
      /\ completed' = [completed EXCEPT ![w] = TRUE]
  BY DEF IterInv, TypeOK, IterCb
<1>2. UNCHANGED <<stored, shard, pc, nb_commands, cursor, seen, joined, abandoned>>
  BY DEF IterCb
<1>3. \A v : KeysOf(v)' = KeysOf(v)
  BY <1>2, KeysStay
<1>4. /\ Tail(q) \in Seq(Requests) /\ Head(q) \in Requests /\ Head(q) = q[1] /\ 1 \in DOMAIN q
      /\ Len(q) \in Nat \ {0} /\ Len(Tail(q)) = Len(q) - 1
  BY <1>1, TailIs
<1>20. PICK base \in Nat, batch \in Nat :
         /\ base = Head(q).base /\ batch = Head(q).batch /\ base \in Keys \cup {0} /\ start \in Nat
  <2>1. Head(q).base \in Keys \cup {0} /\ Head(q).batch \in Nat
    BY <1>4 DEF Requests
  <2>2. start \in Keys \cup {0}
    BY DEF IterInv, TypeOK
  <2>3. \A k \in Keys \cup {0} : k \in Nat
    BY KeysAre
  <2>4. Head(q).base \in Nat /\ start \in Nat
    BY <2>1, <2>2, <2>3, Zenon
  <2> QED BY <2>1, <2>4
<1>5. PICK fails \in {FALSE, MayFail} :
        /\ scan_res' = IF fails THEN scan_res
                       ELSE [scan_res EXCEPT ![w] = Load(w, base, batch)]
        /\ kverrno' = [kverrno EXCEPT ![w] = fails]
        /\ live' = IF fails THEN live ELSE live + 1
  BY <1>1, <1>20 DEF IterCb
<1>6. PICK b : b = Load(w, base, batch)
  OBVIOUS
<1>7. /\ BatchOK(b, KeysOf(w)) /\ FromBase(b, KeysOf(w), base)
      /\ b.batch = batch /\ b # NULL
  BY <1>6, <1>20, LoadIs DEF IterInv, TypeOK
<1>8. /\ scan_res \in [Workers -> Batches \cup {NULL}] /\ b \in Batches
      /\ live \in Nat /\ live >= Cardinality(Held(Workers))
  BY <1>7 DEF IterInv, TypeOK, PhaseOK, BatchOK
<1>9. /\ queue' \in [Workers -> Seq(Requests)] /\ queue'[w] = Tail(q)
      /\ \A v \in Workers : v # w => queue'[v] = queue[v]
  BY <1>1, <1>4
<1>10. /\ scan_res' \in [Workers -> Batches \cup {NULL}]
       /\ \A v \in Workers : v # w => scan_res'[v] = scan_res[v]
       /\ IF fails THEN scan_res'[w] = scan_res[w] ELSE scan_res'[w] = b
  BY <1>5, <1>6, <1>8
<1>11. TypeOK'
  <2>1. completed' \in [Workers -> BOOLEAN] /\ kverrno' \in [Workers -> BOOLEAN] /\ live' \in Nat
    <3>1. fails \in BOOLEAN
      BY IteratorAssumption
    <3> QED BY <1>1, <1>5, <1>8, <3>1 DEF IterInv, TypeOK
  <2> QED BY <1>2, <1>9, <1>10, <2>1 DEF IterInv, TypeOK, cursor
<1>12. /\ IsFiniteSet(Held(Workers)) /\ Cardinality(Held(Workers)) \in Nat
       /\ ~fails => /\ Held(Workers)' = Held(Workers) \cup {w}
                    /\ Cardinality(Held(Workers)') <= Cardinality(Held(Workers)) + 1
                    /\ w \notin Held(Workers) =>
                         Cardinality(Held(Workers)') = Cardinality(Held(Workers)) + 1
       /\ fails => Held(Workers)' = Held(Workers)
  <2>1. PICK H : H = Held(Workers)
    OBVIOUS
  <2>2. IsFiniteSet(H) /\ Cardinality(H) \in Nat
    <3>1. H \subseteq Workers
      BY <2>1 DEF Held
    <3> QED BY <3>1, WorkersAre, FS_Subset, FS_CardinalityType DEF WorkersFinite
  <2>3. ~fails => Held(Workers)' = H \cup {w}
    BY <1>7, <1>10, <2>1 DEF Held
  <2>4. fails => Held(Workers)' = H
    BY <1>10, <2>1 DEF Held
  <2>5. /\ w \notin H => Cardinality(H \cup {w}) = Cardinality(H) + 1
        /\ w \in H => H \cup {w} = H
    <3>1. w \notin H => Cardinality(H \cup {w}) = Cardinality(H) + 1
      BY <2>2, FS_AddElement, Zenon
    <3> QED BY <3>1
  <2>6. PICK G : G = Held(Workers)'
    OBVIOUS
  <2>7. CASE fails
    BY <2>1, <2>2, <2>4, <2>7
  <2>8. CASE ~fails
    <3>1. G = H \cup {w}
      BY <2>3, <2>6, <2>8
    <3>2. Cardinality(G) <= Cardinality(H) + 1
      BY <2>2, <2>5, <3>1
    <3>3. w \notin H => Cardinality(G) = Cardinality(H) + 1
      BY <2>5, <3>1
    <3> QED BY <2>1, <2>2, <2>6, <2>8, <3>1, <3>2, <3>3
  <2> QED BY <2>7, <2>8
<1>13. PhaseOK'
  <2>1. \A v \in Workers : scan_res'[v] # NULL => BatchOK(scan_res'[v], KeysOf(v)')
    BY <1>3, <1>7, <1>10 DEF IterInv, PhaseOK
  <2>2. live' >= Cardinality(Held(Workers)')
    BY <1>5, <1>8, <1>12
  <2> QED BY <1>2, <2>1, <2>2 DEF IterInv, PhaseOK, cursor
<1>14. QueueOK => /\ Tail(q) = << >> /\ scan_res[w] = NULL /\ base >= start
                  /\ pc # "seek_wait" /\ (pc \in Loading => base = start)
  <2> SUFFICES ASSUME QueueOK
               PROVE  /\ Tail(q) = << >> /\ scan_res[w] = NULL /\ base >= start
                      /\ pc # "seek_wait" /\ (pc \in Loading => base = start)
    OBVIOUS
  <2>1. 1 = Len(q) /\ base >= start
    BY <1>1, <1>4, <1>20 DEF QueueOK
  <2>2. Tail(q) = << >>
    <3>1. Len(Tail(q)) = 0
      BY <1>4, <2>1
    <3> QED BY <1>4, <3>1, EmptySeq
  <2> QED BY <1>1, <1>4, <1>20, <2>1, <2>2 DEF QueueOK
<1>15. QueueOK => QueueOK'
  <2> SUFFICES ASSUME QueueOK PROVE QueueOK'
    OBVIOUS
  <2>1. live' = Cardinality(Held(Workers))'
    BY <1>5, <1>12, <1>14 DEF QueueOK, Held
  <2>2. ASSUME NEW v \in Workers, scan_res'[v] # NULL
        PROVE  queue'[v] = << >> /\ \A k \in ToSet(scan_res'[v].items) : k > start'
    <3>1. CASE v = w
      <4>1. ~fails /\ scan_res'[v] = b
        BY <1>10, <1>14, <2>2, <3>1
      <4>2. \A k \in ToSet(b.items) : k > base /\ k \in Nat
        <5>1. ToSet(b.items) \subseteq KeysOf(w) /\ KeysOf(w) \subseteq Keys
          BY <1>7 DEF BatchOK, KeysOf, IterInv, TypeOK
        <5> QED BY <1>7, <5>1, KeysAre DEF FromBase
      <4>4. \A k \in ToSet(b.items) : k > start
        BY <1>14, <1>20, <4>2
      <4> QED BY <1>2, <1>9, <1>14, <3>1, <4>1, <4>4 DEF cursor
    <3>2. CASE v # w
      BY <1>2, <1>9, <1>10, <2>2, <3>2 DEF QueueOK, cursor
    <3> QED BY <3>1, <3>2
  <2>3. ASSUME NEW v \in Workers, NEW i \in DOMAIN queue'[v]
        PROVE  v # w /\ queue'[v] = queue[v]
    <3>1. DOMAIN << >> = {}
      OBVIOUS
    <3> QED BY <1>9, <1>14, <2>3, <3>1
  <2>4. \A v \in Workers : \A i \in DOMAIN queue'[v] :
          queue'[v][i].op # "seek" => i = Len(queue'[v]) /\ queue'[v][i].base >= start'
    BY <1>2, <2>3 DEF QueueOK, cursor
  <2>5. pc' # "seek_wait"
    BY <1>2, <1>14
  <2>6. pc' \in Loading => \A v \in Workers :
          /\ \A i \in DOMAIN queue'[v] : queue'[v][i].op # "seek" => queue'[v][i].base = start'
          /\ scan_res'[v] # NULL => FromBase(scan_res'[v], KeysOf(v)', start')
    BY <1>2, <1>3, <1>7, <1>10, <1>14, <2>3 DEF QueueOK, cursor
  <2> QED BY <2>1, <2>2, <2>4, <2>5, <2>6 DEF QueueOK, Loading
<1>16. QueueOK /\ WaitOK => WaitOK'
  <2> SUFFICES ASSUME QueueOK, WaitOK, pc = "next_wait" PROVE WaitOK'
    BY <1>2 DEF WaitOK
  <2>1. Top' = Top /\ Top.wid \in Workers
    BY <1>2, EntriesTyped DEF IterInv, PhaseOK, Top, cursor
  <2>2. CASE Top.wid = w
    <3>1. base = Top.key /\ batch = BatchSize
      BY <1>1, <1>4, <1>20, <2>2 DEF WaitOK
    <3>2. queue'[w] = << >> /\ DOMAIN << >> = {} /\ per_worker_idx'[w] = 0
      BY <1>2, <1>9, <1>14, <2>2 DEF WaitOK, cursor
    <3>3. scan_res'[w] # NULL =>
            FromBase(scan_res'[w], KeysOf(w)', Top.key) /\ scan_res'[w].batch = BatchSize
      BY <1>3, <1>7, <1>10, <1>14, <3>1
    <3> QED BY <2>1, <2>2, <3>2, <3>3 DEF WaitOK
  <2>3. CASE Top.wid # w
    BY <1>2, <1>3, <1>9, <1>10, <2>1, <2>3 DEF WaitOK, cursor
  <2> QED BY <2>2, <2>3
<1>17. QueueOK /\ EntriesOK => EntriesOK'
  <2> SUFFICES ASSUME QueueOK, EntriesOK, pc \in Merged PROVE EntriesOK'
    BY <1>2 DEF EntriesOK, Merged
  <2>1. Top' = Top /\ Entries' = Entries /\ pc' = pc
    BY <1>2 DEF Top, Entries, cursor
  <2>2. ASSUME NEW e \in Entries, EntryOK(e) PROVE EntryOK(e)'
    <3>1. e.wid \in Workers
      BY EntriesTyped DEF IterInv, AllEntries
    <3>2. scan_res[e.wid] # NULL => scan_res'[e.wid] = scan_res[e.wid]
      BY <1>10, <1>14, <3>1
    <3> QED BY <1>2, <1>3, <2>2, <3>2 DEF EntryOK, cursor
  <2> QED BY <1>2, <2>1, <2>2 DEF EntriesOK, Merged, cursor
<1>18. SeenOK /\ OrderOK => SeenOK' /\ OrderOK'
  BY <1>2, <1>3 DEF SeenOK, OrderOK, Entries, Top, Merged, cursor
<1>19. abandoned' = abandoned /\ (SeekKeyKept' <=> SeekKeyKept)
  BY <1>2 DEF SeekKeyKept, cursor
<1> QED BY <1>11, <1>13, <1>15, <1>16, <1>17, <1>18, <1>19 DEF IterInv

LEMMA HeldAre ==
  ASSUME NEW ws \in SUBSET Workers
  PROVE  IsFiniteSet(Held(ws)) /\ Cardinality(Held(ws)) \in Nat
<1>1. Held(ws) \subseteq Workers
  BY DEF Held
<1> QED BY <1>1, WorkersAre, FS_Subset, FS_CardinalityType DEF WorkersFinite

\* When every batch is freed, none is left.
LEMMA AllFreed ==
  ASSUME IterInv, live' = live - Cardinality(Held(Workers)),
         scan_res' = [w \in Workers |-> NULL]
  PROVE  /\ live' \in Nat /\ Held(Workers)' = {} /\ Cardinality(Held(Workers)') = 0
         /\ QueueOK => live' = 0
<1>1. Cardinality(Held(Workers)) \in Nat /\ live \in Nat /\ live >= Cardinality(Held(Workers))
  BY HeldAre DEF IterInv, TypeOK, PhaseOK
<1>2. live' \in Nat /\ (QueueOK => live' = 0)
  BY <1>1 DEF QueueOK
<1>3. Held(Workers)' = {}
  BY DEF Held
<1> QED BY <1>2, <1>3, FS_EmptySet

LEMMA SeekSubmitKeeps ==
  ASSUME IterInv, NEW k \in Keys, SeekSubmit(k)
  PROVE  IterInv'
<1> PICK r : r = [op |-> "seek", base |-> k, batch |-> 0]
  OBVIOUS
<1>1. /\ queue' = [queue EXCEPT ![shard[k]] = Append(@, r)] /\ scan_res' = [w \in Workers |-> NULL]
      /\ live' = live - Cardinality(Held(Workers))
      /\ nb_commands < MaxCommands /\ nb_commands' = nb_commands + 1
      /\ abandoned' = (abandoned \/ \E w \in Workers : queue[w] # << >>)
      /\ start' = k /\ item_array' = << >> /\ per_worker_idx' = [w \in Workers |-> 0]
      /\ seen' = << >> /\ joined' = {} /\ pc' = "seek_wait"
      /\ UNCHANGED <<stored, shard, seek_key>>
  BY DEF SeekSubmit, Command, Send, ResetScanRes, IterInv, TypeOK
<1>2. completed' \in [Workers -> BOOLEAN] /\ kverrno' \in [Workers -> BOOLEAN]
  <2>1. completed \in [Workers -> BOOLEAN] /\ kverrno \in [Workers -> BOOLEAN]
    BY DEF IterInv, TypeOK
  <2>2. /\ completed' = [w \in Workers |-> w \notin Held(Workers) /\ completed[w]]
        /\ kverrno' = [w \in Workers |-> w \notin Held(Workers) /\ kverrno[w]]
    BY DEF SeekSubmit, ResetScanRes
  <2> QED BY <2>1, <2>2
<1>3. shard[k] \in Workers /\ r \in Requests /\ r.op = "seek"
      /\ queue \in [Workers -> Seq(Requests)]
  BY DEF IterInv, TypeOK, Requests
<1>4. live' \in Nat /\ Cardinality(Held(Workers)') = 0 /\ (QueueOK => live' = 0)
  BY <1>1, AllFreed
<1>5. queue' \in [Workers -> Seq(Requests)]
  BY <1>1, <1>3
<1>6. TypeOK'
  <2>1. nb_commands' \in 0 .. MaxCommands /\ abandoned' \in BOOLEAN
    BY <1>1, IteratorAssumption DEF IterInv, TypeOK
  <2>2. 0 \in 0 .. DONE
    BY KeysAre, IteratorAssumption DEF DONE
  <2> QED BY <1>1, <1>2, <1>4, <1>5, <2>1, <2>2 DEF IterInv, TypeOK
<1>7. PhaseOK'
  <2>1. 0 >= Cardinality(Held(Workers)') /\ live' >= Cardinality(Held(Workers)')
    BY <1>4
  <2> QED BY <1>1, <2>1 DEF PhaseOK
<1>8. ASSUME ~abandoned' PROVE QueueOK' /\ WaitOK' /\ EntriesOK'
  <2>1. QueueOK /\ \A w \in Workers : queue[w] = << >>
    BY <1>1, <1>8 DEF IterInv, TypeOK
  <2>2. ASSUME NEW w \in Workers, NEW i \in DOMAIN queue'[w] PROVE queue'[w][i].op = "seek"
    <3>1. DOMAIN << >> = {} /\ Append(<< >>, r) = <<r>> /\ DOMAIN <<r>> = {1} /\ <<r>>[1] = r
      OBVIOUS
    <3>2. CASE w = shard[k]
      <4>1. queue'[w] = <<r>>
        BY <1>1, <1>3, <2>1, <3>1, <3>2
      <4> QED BY <1>3, <2>2, <3>1, <4>1
    <3>3. CASE w # shard[k]
      BY <1>1, <1>3, <2>1, <2>2, <3>1, <3>3
    <3> QED BY <3>2, <3>3
  <2> QED BY <1>1, <1>4, <2>1, <2>2 DEF QueueOK, WaitOK, EntriesOK, Loading, Merged
<1>9. SeenOK' /\ OrderOK'
  BY <1>1, ElemsEmpty DEF SeenOK, OrderOK, Merged
<1> QED BY <1>6, <1>7, <1>8, <1>9 DEF IterInv

LEMMA FirstSubmitKeeps ==
  ASSUME IterInv, FirstSubmit
  PROVE  IterInv'
<1> PICK r : r = [op |-> "first", base |-> 0, batch |-> BatchSize \div NbWorkers]
  OBVIOUS
<1>1. /\ queue' = [w \in Workers |-> Append(queue[w], r)] /\ scan_res' = [w \in Workers |-> NULL]
      /\ live' = live - Cardinality(Held(Workers))
      /\ completed' = [w \in Workers |-> FALSE] /\ kverrno' = [w \in Workers |-> FALSE]
      /\ nb_commands < MaxCommands /\ nb_commands' = nb_commands + 1
      /\ abandoned' = (abandoned \/ \E w \in Workers : queue[w] # << >>)
      /\ start' = 0 /\ item_array' = << >> /\ per_worker_idx' = [w \in Workers |-> 0]
      /\ seen' = << >> /\ joined' = {} /\ pc' = "first_load"
      /\ UNCHANGED <<stored, shard, seek_key>>
  BY DEF FirstSubmit, Command, SendAll
<1>2. r \in Requests /\ r.base = 0 /\ queue \in [Workers -> Seq(Requests)]
  <2>1. BatchSize \div NbWorkers \in Nat
    BY IteratorAssumption
  <2> QED BY <2>1 DEF IterInv, TypeOK, Requests
<1>3. live' \in Nat /\ Cardinality(Held(Workers)') = 0 /\ (QueueOK => live' = 0)
  BY <1>1, AllFreed
<1>4. queue' \in [Workers -> Seq(Requests)]
  BY <1>1, <1>2
<1>5. TypeOK'
  <2>1. nb_commands' \in 0 .. MaxCommands /\ abandoned' \in BOOLEAN
    BY <1>1, IteratorAssumption DEF IterInv, TypeOK
  <2>2. 0 \in 0 .. DONE
    BY KeysAre, IteratorAssumption DEF DONE
  <2> QED BY <1>1, <1>3, <1>4, <2>1, <2>2 DEF IterInv, TypeOK
<1>6. PhaseOK'
  <2>1. 0 >= Cardinality(Held(Workers)') /\ live' >= Cardinality(Held(Workers)')
    BY <1>3
  <2> QED BY <1>1, <2>1 DEF PhaseOK
<1>7. ASSUME ~abandoned' PROVE QueueOK' /\ WaitOK' /\ EntriesOK'
  <2>1. QueueOK /\ \A w \in Workers : queue[w] = << >>
    BY <1>1, <1>7 DEF IterInv, TypeOK
  <2>2. Append(<< >>, r) = <<r>> /\ DOMAIN <<r>> = {1} /\ <<r>>[1] = r /\ Len(<<r>>) = 1
    OBVIOUS
  <2>3. \A w \in Workers : queue'[w] = <<r>>
    BY <1>1, <2>1, <2>2
  <2>4. ASSUME NEW w \in Workers, NEW i \in DOMAIN queue'[w]
        PROVE  i = Len(queue'[w]) /\ queue'[w][i].base = 0
    BY <1>2, <2>2, <2>3, <2>4
  <2> QED BY <1>1, <1>3, <2>1, <2>4 DEF QueueOK, WaitOK, EntriesOK, Loading, Merged
<1>8. SeenOK' /\ OrderOK'
  BY <1>1, ElemsEmpty DEF SeenOK, OrderOK, Merged
<1> QED BY <1>5, <1>6, <1>7, <1>8 DEF IterInv

LEMMA SeekFailsKeeps ==
  ASSUME IterInv, SeekFails
  PROVE  IterInv'
<1>1. /\ pc = "seek_wait" /\ pc' = "idle"
      /\ UNCHANGED <<stored, shard, queue, nb_commands, cursor, swctx, history>>
  BY DEF SeekFails
<1>2. item_array = << >> /\ seen = << >> /\ joined = {}
  BY <1>1 DEF IterInv, PhaseOK
<1>3. \A w : KeysOf(w)' = KeysOf(w)
  BY <1>1, KeysStay
<1>4. TypeOK'
  BY <1>1 DEF IterInv, TypeOK, cursor, swctx, history
<1>5. PhaseOK'
  BY <1>1, <1>3 DEF IterInv, PhaseOK, Held, Loading, cursor, swctx, history
<1>6. QueueOK => QueueOK' /\ WaitOK'
  BY <1>1, <1>3 DEF QueueOK, WaitOK, Held, Loading, cursor, swctx, history
<1>7. Entries' = {}
  BY <1>1, <1>2, ElemsEmpty DEF Entries, cursor
<1>8. EntriesOK' /\ SeenOK' /\ OrderOK'
  BY <1>1, <1>2, <1>7, ElemsEmpty DEF EntriesOK, SeenOK, OrderOK, cursor, history
<1> QED BY <1>1, <1>4, <1>5, <1>6, <1>8 DEF IterInv, history

LEMMA LeaveLoadKeeps ==
  ASSUME IterInv, LeaveLoad
  PROVE  IterInv'
<1>1. /\ \/ pc = "seek_load" /\ pc' = "seek_merge"
         \/ pc = "first_load" /\ pc' = "first_merge"
      /\ UNCHANGED <<stored, shard, queue, nb_commands, cursor, swctx, history>>
  BY DEF LeaveLoad
<1>2. \A w : KeysOf(w)' = KeysOf(w)
  BY <1>1, KeysStay
<1>3. TypeOK'
  BY <1>1 DEF IterInv, TypeOK, cursor, swctx, history
<1>4. PhaseOK'
  BY <1>1, <1>2 DEF IterInv, PhaseOK, Held, Loading, cursor, swctx, history
<1>5. QueueOK => QueueOK' /\ WaitOK' /\ EntriesOK'
  BY <1>1, <1>2 DEF QueueOK, WaitOK, EntriesOK, Held, Loading, Merged, cursor, swctx, history
<1>6. SeenOK => SeenOK' /\ OrderOK'
  BY <1>1 DEF SeenOK, OrderOK, Merged, cursor, history
<1> QED BY <1>1, <1>3, <1>4, <1>5, <1>6 DEF IterInv, SeekKeyKept, cursor, history

LEMMA SeekFoundKeeps ==
  ASSUME IterInv, SeekFound
  PROVE  IterInv'
<1> PICK n : n = [w \in Workers |-> IF w = shard[start] THEN BatchSize - 1 ELSE BatchSize]
  OBVIOUS
<1> PICK r : r = [w \in Workers |-> [op |-> "next", base |-> start, batch |-> n[w]]]
  OBVIOUS
<1>1. /\ pc = "seek_wait" /\ pc' = "seek_load" /\ seek_key' = start
      /\ item_array' = <<[wid |-> shard[start], key |-> start, own |-> TRUE]>>
      /\ completed' = [w \in Workers |-> FALSE] /\ kverrno' = [w \in Workers |-> FALSE]
      /\ UNCHANGED <<stored, shard, nb_commands, start, per_worker_idx, scan_res, history>>
  BY DEF SeekFound
<1>2. queue' = [w \in Workers |-> Append(queue[w], r[w])]
  BY DEF SeekFound, SendAll
<1>3. /\ start \in Keys /\ shard[start] \in Workers /\ item_array = << >>
      /\ per_worker_idx = [w \in Workers |-> 0] /\ seen = << >> /\ joined = {}
      /\ queue \in [Workers -> Seq(Requests)]
  BY <1>1 DEF IterInv, TypeOK, PhaseOK
<1>4. ASSUME NEW w \in Workers
      PROVE  r[w] \in Requests /\ r[w].base = start /\ r[w].op # "seek"
  <2>1. BatchSize - 1 \in Nat /\ BatchSize \in Nat
    BY IteratorAssumption
  <2>2. n[w] \in Nat
    BY <2>1
  <2> QED BY <1>3, <2>2 DEF Requests
<1>5. queue' \in [Workers -> Seq(Requests)]
  BY <1>2, <1>3, <1>4
<1>6. \A w : KeysOf(w)' = KeysOf(w)
  BY <1>1, KeysStay
<1>7. TypeOK'
  <2>1. PICK e \in AllEntries : e = [wid |-> shard[start], key |-> start, own |-> TRUE]
    BY <1>3 DEF AllEntries
  <2>2. item_array' = <<e>> /\ <<e>> \in Seq(AllEntries) /\ DOMAIN <<e>> = {1}
    BY <1>1, <2>1
  <2>3. /\ item_array' \in Seq([wid : Workers, key : Keys, own : BOOLEAN])
        /\ \A i, j \in DOMAIN item_array' : item_array'[i].wid = item_array'[j].wid => i = j
    BY <2>2 DEF AllEntries
  <2> QED BY <1>1, <1>3, <1>5, <2>3 DEF IterInv, TypeOK, history
<1>8. PhaseOK'
  BY <1>1, <1>3, <1>6 DEF IterInv, PhaseOK, Held, Loading, history
<1>9. QueueOK => QueueOK' /\ WaitOK' /\ EntriesOK'
  <2> SUFFICES ASSUME QueueOK PROVE QueueOK'
    BY <1>1 DEF WaitOK, EntriesOK, Merged
  <2>1. \A w \in Workers : scan_res[w] = NULL /\ \A i \in DOMAIN queue[w] : queue[w][i].op = "seek"
    BY <1>1 DEF QueueOK
  <2>2. live' = Cardinality(Held(Workers))'
    BY <1>1 DEF QueueOK, Held, history
  <2>3. ASSUME NEW w \in Workers, NEW i \in DOMAIN queue'[w], queue'[w][i].op # "seek"
        PROVE  i = Len(queue'[w]) /\ queue'[w][i].base = start
    <3>1. PICK q, t : q = queue[w] /\ t = r[w]
      OBVIOUS
    <3>2. q \in Seq(Requests) /\ t \in Requests /\ queue'[w] = Append(q, t) /\ t.base = start
      BY <1>2, <1>3, <1>4, <3>1
    <3>3. Len(queue'[w]) = Len(q) + 1 /\ (i = Len(q) + 1 \/ i \in DOMAIN q)
      BY <2>3, <3>2, AppendProperties, LenProperties
    <3>4. \A j \in DOMAIN q : Append(q, t)[j] = q[j] /\ q[j].op = "seek"
      BY <2>1, <3>1, <3>2, AppendProperties, LenProperties
    <3>5. i = Len(q) + 1
      BY <2>3, <3>2, <3>3, <3>4
    <3>6. Append(q, t)[Len(q) + 1] = t
      BY <3>2, AppendProperties
    <3> QED BY <3>2, <3>3, <3>5, <3>6
  <2>4. start >= start
    BY <1>3, KeysAre
  <2> QED BY <1>1, <2>1, <2>2, <2>3, <2>4 DEF QueueOK, Loading
<1>10. SeenOK' /\ OrderOK'
  BY <1>1, <1>3, ElemsEmpty DEF SeenOK, OrderOK, Merged, history
<1> QED BY <1>1, <1>7, <1>8, <1>9, <1>10 DEF IterInv, history

-----------------------------------------------------------------------------
(* The merge of the first items.                                           *)

\* A batch with items: its first is its least, a key of the worker.
LEMMA FirstInBatch ==
  ASSUME TypeOK, PhaseOK, NEW w \in Workers, HasItems(w)
  PROVE  LET b == scan_res[w]
         IN  /\ b # NULL /\ BatchOK(b, KeysOf(w)) /\ 1 \in DOMAIN b.items
             /\ b.items[1] \in KeysOf(w) /\ b.items[1] \in Keys /\ b.items[1] \in ToSet(b.items)
             /\ \A k \in ToSet(b.items) : b.items[1] <= k
<1>1. PICK b : b = scan_res[w]
  OBVIOUS
<1>2. BatchOK(b, KeysOf(w)) /\ b.items # << >> /\ b # NULL
  BY <1>1 DEF HasItems, PhaseOK
<1>3. PICK s : s = b.items
  OBVIOUS
<1>4. s \in Seq(Keys) /\ s # << >> /\ ToSet(s) \subseteq KeysOf(w) /\ InOrder(s)
  BY <1>2, <1>3 DEF BatchOK, Batches
<1>5. PICK n \in Nat \ {0} : n = Len(s)
  BY <1>4, EmptySeq
<1>6. DOMAIN s = 1 .. n /\ 1 \in 1 .. n /\ ToSet(s) = {s[i] : i \in 1 .. n}
  BY <1>4, <1>5, ElemsOf
<1>7. s[1] \in ToSet(s) /\ KeysOf(w) \subseteq Keys
  BY <1>6 DEF KeysOf, TypeOK
<1>8. \A i \in 1 .. n : s[i] \in Nat
  BY <1>4, <1>6, <1>7, KeysAre
<1>9. ASSUME NEW i \in 1 .. n PROVE s[1] <= s[i]
  <2>1. CASE i = 1
    BY <1>8, <2>1
  <2>2. CASE i # 1
    <3>1. s[1] < s[i] /\ s[1] \in Nat /\ s[i] \in Nat
      BY <1>4, <1>6, <1>8, <2>2 DEF InOrder
    <3> QED BY <3>1
  <2> QED BY <2>1, <2>2
<1>10. \A k \in ToSet(s) : s[1] <= k
  BY <1>6, <1>9
<1> QED BY <1>1, <1>2, <1>3, <1>4, <1>6, <1>7, <1>10

LEMMA MergeKeeps ==
  ASSUME IterInv, pc \in {"seek_merge", "first_merge"}, NEW ws \in SUBSET Workers,
         ws = {w \in Workers : HasItems(w)} \ {e.wid : e \in Entries},
         MergeFirstItems(ws)
  PROVE  IterInv'
<1> PICK H : H = {w \in Workers : HasItems(w)}
  OBVIOUS
<1>1. /\ item_array' = Made(item_array \o FirstItems(ws))
      /\ per_worker_idx' = [w \in Workers |-> IF ~HasItems(w) THEN DONE
                                              ELSE IF w \in ws THEN per_worker_idx[w] + 1
                                              ELSE per_worker_idx[w]]
      /\ seen' = (IF item_array' = << >> THEN << >> ELSE <<Top'.key>>)
      /\ joined' = H /\ pc' = "idle"
      /\ UNCHANGED <<stored, shard, queue, nb_commands, start, seek_key, swctx, live, abandoned>>
  BY DEF MergeFirstItems, Item, Top
<1>2. /\ TypeOK /\ PhaseOK /\ per_worker_idx = [w \in Workers |-> 0] /\ AreEntries(item_array)
      /\ Entries = ToSet(item_array)
  BY EntriesTyped DEF IterInv, PhaseOK, Loading, Entries
<1>3. \/ start = 0 /\ Entries = {}
      \/ /\ start \in Keys /\ shard[start] \in Workers /\ seek_key = start
         /\ Entries = {[wid |-> shard[start], key |-> start, own |-> TRUE]}
  <2>1. CASE pc = "first_merge"
    BY <1>2, <2>1, ElemsEmpty DEF PhaseOK
  <2>2. CASE pc = "seek_merge"
    <3>1. /\ item_array = <<[wid |-> shard[start], key |-> start, own |-> TRUE]>>
          /\ start \in Keys /\ seek_key = start
      BY <1>2, <2>2 DEF PhaseOK
    <3> QED BY <1>2, <3>1, ElemsSingleton DEF TypeOK
  <2> QED BY <2>1, <2>2
<1>4. \A e \in Entries : /\ start \in Keys /\ e.own /\ e.wid = shard[start] /\ e.key = start
                         /\ seek_key = start /\ e.wid \notin ws
  BY <1>3
<1>5. \A w \in ws : HasItems(w) /\ FirstOf(w).wid = w /\ ~FirstOf(w).own
                    /\ FirstOf(w).key = scan_res[w].items[1] /\ scan_res[w].items[1] \in Keys
  BY <1>2, FirstInBatch DEF FirstOf
<1>6. AreEntries(item_array') /\ Entries' = Entries \cup {FirstOf(w) : w \in ws}
  <2>1. PICK t : t = item_array \o FirstItems(ws)
    OBVIOUS
  <2>2. AreEntries(t) /\ ToSet(t) = Entries \cup {FirstOf(w) : w \in ws}
    BY <1>2, <1>4, <1>5, <2>1, FirstItemsAre
  <2>3. AreEntries(Made(t)) /\ ToSet(Made(t)) = ToSet(t)
    BY <2>2, HeapedEntries
  <2> QED BY <1>1, <2>1, <2>2, <2>3 DEF Entries
<1>7. /\ item_array' # << >> => Top' \in Entries'
      /\ item_array' = << >> <=> Entries' = {}
      /\ \A e \in Entries' : e.wid \in Workers /\ e.key \in Keys
      /\ \A d, e \in Entries' : d.wid = e.wid => d = e
  <2>1. Top' = item_array'[1] /\ Entries' = ToSet(item_array')
    BY DEF Top, Entries
  <2>2. PICK t : t = item_array'
    OBVIOUS
  <2>3. /\ ToSet(t) \subseteq AllEntries
        /\ t # << >> => 1 \in DOMAIN t /\ t[1] \in ToSet(t)
        /\ t = << >> <=> ToSet(t) = {}
        /\ \A d, e \in ToSet(t) : d.wid = e.wid => d = e
    BY <1>6, <2>2, EntriesAre
  <2> QED BY <2>1, <2>2, <2>3 DEF AllEntries
<1>8. \A w \in Workers : per_worker_idx'[w] = IF w \notin H THEN DONE ELSE IF w \in ws THEN 1 ELSE 0
  BY <1>1, <1>2
<1>9. \A w : KeysOf(w)' = KeysOf(w)
  BY <1>1, KeysStay
<1>10. TypeOK'
  <2>1. 0 \in 0 .. DONE /\ 1 \in 0 .. DONE /\ DONE \in 0 .. DONE
    BY IteratorAssumption DEF DONE
  <2>2. per_worker_idx' \in [Workers -> 0 .. DONE]
    BY <1>1, <1>8, <2>1
  <2>3. seen' \in Seq(Keys)
    BY <1>1, <1>7
  <2>4. /\ item_array' \in Seq([wid : Workers, key : Keys, own : BOOLEAN])
        /\ \A i, j \in DOMAIN item_array' : item_array'[i].wid = item_array'[j].wid => i = j
    BY <1>6 DEF AreEntries, AllEntries
  <2> QED BY <1>1, <1>2, <2>2, <2>3, <2>4 DEF TypeOK, swctx
<1>11. PhaseOK'
  BY <1>1, <1>2, <1>9 DEF PhaseOK, Held, Loading, swctx
<1>12. QueueOK => QueueOK' /\ WaitOK'
  BY <1>1 DEF QueueOK, WaitOK, Held, Loading, swctx
<1>13. QueueOK => \A w \in H : FromBase(scan_res[w], KeysOf(w), start)
  BY DEF QueueOK, HasItems, Loading
<1>14. QueueOK => EntriesOK'
  <2> SUFFICES ASSUME QueueOK, NEW e \in Entries'
               PROVE  /\ e.own => start \in Keys /\ e.wid = shard[start] /\ e.key = seek_key
                      /\ EntryOK(e)'
    BY <1>1 DEF EntriesOK
  <2>1. CASE e \in Entries
    <3>1. e.wid \in joined' => /\ per_worker_idx'[e.wid] = 0 /\ scan_res'[e.wid] # NULL
                               /\ FromBase(scan_res'[e.wid], KeysOf(e.wid)', start')
      BY <1>1, <1>4, <1>7, <1>8, <1>9, <1>13, <2>1 DEF HasItems, swctx
    <3> QED BY <1>4, <2>1, <3>1 DEF EntryOK
  <2>2. CASE e \notin Entries
    <3>1. PICK w \in ws : e = FirstOf(w)
      BY <1>6, <2>2
    <3>2. scan_res[w] # NULL /\ 1 \in DOMAIN scan_res[w].items
      BY <1>2, <1>5, FirstInBatch
    <3>3. per_worker_idx'[w] = 1
      BY <1>8
    <3> QED BY <1>1, <1>5, <3>1, <3>2, <3>3 DEF EntryOK, swctx
  <2> QED BY <2>1, <2>2
<1>15. QueueOK => SeenOK' /\ OrderOK'
  <2> SUFFICES ASSUME QueueOK PROVE SeenOK' /\ OrderOK'
    OBVIOUS
  <2>1. /\ start \in Nat /\ \A w : KeysOf(w) \subseteq Keys /\ KeysOf(w) \subseteq stored
        /\ \A w : \A k \in KeysOf(w) : shard[k] = w /\ k \in Nat
    <3>1. start \in Keys \cup {0}
      BY <1>2 DEF TypeOK
    <3> QED BY <1>2, <3>1, KeysAre DEF TypeOK, KeysOf
  <2>2. ASSUME NEW e \in Entries'
        PROVE  shard[e.key] = e.wid /\ (e.key = start \/ (e.key \in stored /\ e.key > start))
    <3>1. CASE e \in Entries
      BY <1>4, <3>1
    <3>2. CASE e \notin Entries
      <4>1. PICK w \in ws : e = FirstOf(w)
        BY <1>6, <3>2
      <4>2. /\ scan_res[w].items[1] \in KeysOf(w) /\ scan_res[w] # NULL
            /\ scan_res[w].items[1] \in ToSet(scan_res[w].items)
        BY <1>2, <1>5, FirstInBatch
      <4>3. scan_res[w].items[1] > start
        BY <4>2 DEF QueueOK
      <4> QED BY <1>5, <2>1, <4>1, <4>2, <4>3
    <3> QED BY <3>1, <3>2
  <2>3. /\ item_array' = << >> => ToSet(seen') = {} /\ IsInjective(seen')
        /\ item_array' # << >> => ToSet(seen') = {Top'.key} /\ IsInjective(seen')
    BY <1>1, ElemsEmpty, ElemsSingleton
  <2>4. ASSUME NEW w \in H
        PROVE  \E e \in Entries' : /\ e.wid = w
                                   /\ \A k \in KeysOf(w) : start <= k /\ k < e.key => FALSE
    <3>1. CASE w \in ws
      <4>1. PICK b, f : b = scan_res[w] /\ f = b.items[1]
        OBVIOUS
      <4>2. FromBase(b, KeysOf(w), start) /\ BatchOK(b, KeysOf(w))
        BY <1>2, <1>5, <1>13, <3>1, <4>1, FirstInBatch
      <4>3. 1 \in DOMAIN b.items /\ f \in Keys /\ \A k \in ToSet(b.items) : f <= k
        BY <1>2, <1>5, <3>1, <4>1, FirstInBatch
      <4>4. ASSUME NEW k \in KeysOf(w), start <= k, k < f PROVE FALSE
        <5>1. k \in Nat /\ f \in Nat
          BY <2>1, <4>3, KeysAre
        <5>2. ~TellsOf(b, k)
          BY <4>1, <4>3, <4>4, <5>1 DEF TellsOf
        <5>3. k = start
          BY <2>1, <4>2, <4>4, <5>1, <5>2 DEF FromBase
        <5>4. k \in Keys /\ k # 0 /\ shard[start] = w
          <6>1. k \in Keys
            BY <2>1
          <6> QED BY <2>1, <5>3, <6>1 DEF Keys
        <5>5. \A e \in Entries : e.wid = w
          BY <1>4, <5>4
        <5> QED BY <1>3, <1>4, <3>1, <5>3, <5>4, <5>5
      <4>5. FirstOf(w) \in Entries' /\ FirstOf(w).wid = w /\ FirstOf(w).key = f
        BY <1>5, <1>6, <3>1, <4>1
      <4> QED BY <4>4, <4>5
    <3>2. CASE w \notin ws
      <4>1. PICK e \in Entries : e.wid = w
        BY <3>2
      <4>2. e.key = start /\ e \in Entries'
        BY <1>4, <1>6
      <4>3. \A k \in KeysOf(w) : ~(start <= k /\ k < e.key)
        BY <2>1, <4>2
      <4> QED BY <4>1, <4>2, <4>3
    <3> QED BY <3>1, <3>2
  <2>5. SeenOK'
    BY <1>1, <1>7, <2>2, <2>3 DEF SeenOK
  <2>6. ASSUME NEW e \in Entries', NEW k \in ToSet(seen'), shard[k] = e.wid
        PROVE  k <= e.key /\ (k = e.key => e = Top')
    <3>1. item_array' # << >> /\ Top' \in Entries' /\ k = Top'.key
      BY <1>7, <2>3, <2>6
    <3>2. e = Top'
      BY <1>7, <2>2, <2>6, <3>1
    <3>3. k \in Nat
      BY <1>7, <3>1, KeysAre
    <3> QED BY <3>1, <3>2, <3>3
  <2>7. item_array' # << >> => Top'.key \in ToSet(seen')
    BY <2>3
  <2>8. \A w \in joined' : \E e \in Entries' :
          e.wid = w /\ \A k \in KeysOf(w)' : start' <= k /\ k < e.key => k \in ToSet(seen')
    BY <1>1, <1>9, <2>4
  <2>9. stored' = stored /\ shard' = shard /\ start' = start
    BY <1>1
  <2>10. \A e \in Entries' :
           /\ shard'[e.key] = e.wid /\ (e.key = start' \/ (e.key \in stored' /\ e.key > start'))
           /\ \A k \in ToSet(seen') : shard'[k] = e.wid => k <= e.key /\ (k = e.key => e = Top')
    BY <2>2, <2>6, <2>9
  <2>11. OrderOK'
    BY <2>7, <2>8, <2>10 DEF OrderOK
  <2> QED BY <2>5, <2>11
<1> QED BY <1>1, <1>10, <1>11, <1>12, <1>14, <1>15 DEF IterInv

LEMMA SeekMergeKeeps == ASSUME IterInv, SeekMerge PROVE IterInv'
<1>1. pc = "seek_merge" /\ MergeFirstItems({w \in Workers : HasItems(w)} \ {shard[start]})
  BY DEF SeekMerge
<1>2. item_array = <<[wid |-> shard[start], key |-> start, own |-> TRUE]>>
  BY <1>1 DEF IterInv, PhaseOK
<1>3. Entries = {[wid |-> shard[start], key |-> start, own |-> TRUE]}
  BY <1>2, ElemsSingleton DEF Entries
<1>4. {e.wid : e \in Entries} = {shard[start]}
  BY <1>3
<1> QED BY <1>1, <1>4, MergeKeeps

LEMMA FirstMergeKeeps == ASSUME IterInv, FirstMerge PROVE IterInv'
<1>1. pc = "first_merge" /\ MergeFirstItems({w \in Workers : HasItems(w)})
  BY DEF FirstMerge
<1>2. item_array = << >>
  BY <1>1 DEF IterInv, PhaseOK
<1>3. Entries = {}
  BY <1>2, ElemsEmpty DEF Entries
<1>4. {w \in Workers : HasItems(w)} \ {e.wid : e \in Entries} = {w \in Workers : HasItems(w)}
  BY <1>3
<1> QED BY <1>1, <1>4, MergeKeeps

-----------------------------------------------------------------------------
(* The end of the iterator, and the steps that change nothing.             *)

LEMMA ReleaseKeeps == ASSUME IterInv, Release PROVE IterInv'
<1>1. /\ scan_res' = [w \in Workers |-> NULL] /\ live' = live - Cardinality(Held(Workers))
      /\ item_array' = << >> /\ per_worker_idx' = [w \in Workers |-> 0] /\ pc' = "released"
      /\ UNCHANGED <<stored, shard, queue, nb_commands, start, seek_key, seen, joined, abandoned>>
  BY DEF Release, ResetScanRes
<1>2. live' \in Nat /\ Cardinality(Held(Workers)') = 0 /\ (QueueOK => live' = 0)
  BY <1>1, AllFreed
<1>3. completed' \in [Workers -> BOOLEAN] /\ kverrno' \in [Workers -> BOOLEAN]
  <2>1. completed \in [Workers -> BOOLEAN] /\ kverrno \in [Workers -> BOOLEAN]
    BY DEF IterInv, TypeOK
  <2>2. /\ completed' = [w \in Workers |-> w \notin Held(Workers) /\ completed[w]]
        /\ kverrno' = [w \in Workers |-> w \notin Held(Workers) /\ kverrno[w]]
    BY DEF Release, ResetScanRes
  <2> QED BY <2>1, <2>2
<1>4. TypeOK'
  <2>1. 0 \in 0 .. DONE
    BY IteratorAssumption DEF DONE
  <2> QED BY <1>1, <1>2, <1>3, <2>1 DEF IterInv, TypeOK
<1>5. PhaseOK'
  <2>1. 0 >= Cardinality(Held(Workers)') /\ live' >= Cardinality(Held(Workers)')
    BY <1>2
  <2> QED BY <1>1, <2>1 DEF PhaseOK, Loading
<1>6. QueueOK => QueueOK' /\ WaitOK' /\ EntriesOK'
  BY <1>1, <1>2 DEF QueueOK, WaitOK, EntriesOK, Loading, Merged
<1>7. SeenOK => SeenOK' /\ OrderOK'
  BY <1>1 DEF SeenOK, OrderOK, Merged
<1> QED BY <1>1, <1>4, <1>5, <1>6, <1>7 DEF IterInv, SeekKeyKept

LEMMA CrashKeeps == ASSUME IterInv, Crash PROVE IterInv'
<1>1. pc' = "crashed" /\ UNCHANGED <<stored, shard, queue, nb_commands, cursor, swctx, history>>
  BY DEF Crash
<1>2. \A w : KeysOf(w)' = KeysOf(w)
  BY <1>1, KeysStay
<1>3. TypeOK'
  BY <1>1 DEF IterInv, TypeOK, cursor, swctx, history
<1>4. PhaseOK'
  BY <1>1, <1>2 DEF IterInv, PhaseOK, Held, Loading, cursor, swctx, history
<1>5. QueueOK => QueueOK' /\ WaitOK' /\ EntriesOK'
  BY <1>1 DEF QueueOK, WaitOK, EntriesOK, Held, Loading, Merged, cursor, swctx, history
<1>6. SeenOK => SeenOK' /\ OrderOK'
  BY <1>1 DEF SeenOK, OrderOK, Merged, cursor, history
<1> QED BY <1>1, <1>3, <1>4, <1>5, <1>6 DEF IterInv, SeekKeyKept, cursor, history

LEMMA StutterKeeps == ASSUME IterInv, UNCHANGED vars PROVE IterInv'
<1>1. UNCHANGED <<stored, shard, queue, pc, nb_commands, cursor, swctx, history>>
  BY DEF vars
<1>2. \A w : KeysOf(w)' = KeysOf(w)
  BY <1>1, KeysStay
<1>3. TypeOK'
  BY <1>1 DEF IterInv, TypeOK, cursor, swctx, history
<1>4. PhaseOK'
  BY <1>1, <1>2 DEF IterInv, PhaseOK, Held, cursor, swctx, history
<1>5. QueueOK => QueueOK'
  BY <1>1, <1>2 DEF QueueOK, Held, cursor, swctx, history
<1>6. WaitOK => WaitOK'
  BY <1>1, <1>2 DEF WaitOK, Top, cursor, swctx
<1>7. EntriesOK => EntriesOK'
  BY <1>1, <1>2 DEF EntriesOK, EntryOK, Entries, Top, cursor, swctx, history
<1>8. SeenOK /\ OrderOK => SeenOK' /\ OrderOK'
  BY <1>1, <1>2 DEF SeenOK, OrderOK, Entries, Top, cursor, history
<1> QED BY <1>1, <1>3, <1>4, <1>5, <1>6, <1>7, <1>8 DEF IterInv, SeekKeyKept, cursor, history

-----------------------------------------------------------------------------
(* kv_iterator_next: a further batch is needed.                            *)

LEMMA NextLoadKeeps == ASSUME IterInv, NextLoad PROVE IterInv'
<1> PICK w : w = Top.wid
  OBVIOUS
<1> PICK b : b = scan_res[w]
  OBVIOUS
<1> PICK last : last = Last(b.items)
  OBVIOUS
<1> PICK r : r = [op |-> "next", base |-> last, batch |-> BatchSize]
  OBVIOUS
<1>1. /\ pc = "idle" /\ item_array # << >> /\ b # NULL /\ b.items # << >>
      /\ per_worker_idx[w] >= Len(b.items)
  BY DEF NextLoad, NeedsLoad, Top
<1>2. /\ seek_key' = last
      /\ scan_res' = [v \in Workers |-> IF v \in {w} THEN NULL ELSE scan_res[v]]
      /\ live' = live - Cardinality(Held({w}))
      /\ per_worker_idx' = [per_worker_idx EXCEPT ![w] = 0]
      /\ queue' = [queue EXCEPT ![w] = Append(@, r)]
      /\ pc' = "next_wait"
      /\ UNCHANGED <<stored, shard, nb_commands, start, seen, joined, abandoned>>
  BY DEF NextLoad, ResetScanRes, Send, Top
<1>3. /\ TypeOK /\ PhaseOK /\ AreEntries(item_array) /\ w \in Workers /\ Top \in Entries
      /\ \A d, e \in Entries : d.wid = e.wid => d = e
  BY <1>1, EntriesTyped DEF IterInv
<1>4. BatchOK(b, KeysOf(w)) /\ last \in Keys /\ last \in ToSet(b.items)
      /\ Len(b.items) \in Nat \ {0} /\ last = b.items[Len(b.items)]
  <2>1. BatchOK(b, KeysOf(w)) /\ b.items \in Seq(Keys)
    BY <1>1, <1>3 DEF PhaseOK, BatchOK, Batches
  <2>2. last \in ToSet(b.items) /\ last \in Keys
    <3>1. PICK s \in Seq(Keys) : s = b.items
      BY <2>1
    <3>2. s # << >> /\ last = Last(s)
      BY <1>1, <3>1
    <3>3. Last(s) \in Keys /\ ToSet(s) = ToSet(Front(s)) \cup {Last(s)}
      BY <3>2, ElemsFrontLast
    <3> QED BY <3>1, <3>2, <3>3
  <2>3. Len(b.items) \in Nat \ {0}
    BY <1>1, <2>1, EmptySeq
  <2> QED BY <2>1, <2>2, <2>3 DEF Last
<1>5. r \in Requests /\ r.op = "next" /\ r.base = last /\ r.batch = BatchSize
  BY <1>4, IteratorAssumption DEF Requests
<1>6. \A v : KeysOf(v)' = KeysOf(v)
  BY <1>2, KeysStay
<1>7. /\ \A v \in Workers : scan_res'[v] = IF v = w THEN NULL ELSE scan_res[v]
      /\ \A v \in Workers : per_worker_idx'[v] = IF v = w THEN 0 ELSE per_worker_idx[v]
  BY <1>2, <1>3 DEF TypeOK
<1>8. /\ live' \in Nat /\ live' >= Cardinality(Held(Workers)')
      /\ QueueOK => live' = Cardinality(Held(Workers)')
  <2>1. PICK G, H : H = Held(Workers) /\ G = Held(Workers)'
    OBVIOUS
  <2>2. w \in H /\ G = H \ {w}
    BY <1>1, <1>3, <1>7, <2>1 DEF Held
  <2>3. IsFiniteSet(H) /\ Cardinality(H) \in Nat
    BY <2>1, HeldAre
  <2>4. Cardinality(G) = Cardinality(H) - 1 /\ Cardinality(G) \in Nat
    BY <2>2, <2>3, FS_RemoveElement, FS_CardinalityType
  <2>5. Cardinality(Held({w})) = 1
    <3>1. Held({w}) = {w}
      BY <1>1 DEF Held
    <3> QED BY <3>1, FS_Singleton
  <2>6. live \in Nat /\ live >= Cardinality(H) /\ (QueueOK => live = Cardinality(H))
    BY <1>3, <2>1 DEF TypeOK, PhaseOK, QueueOK
  <2> QED BY <1>2, <2>1, <2>3, <2>4, <2>5, <2>6
\* The entry e after the step.
<1> DEFINE After(e) == [e EXCEPT !.key = IF e.own THEN last ELSE @]
<1>9. ASSUME NEW e \in AllEntries
      PROVE  /\ After(e) \in AllEntries /\ After(e).wid = e.wid /\ After(e).own = e.own
             /\ After(e).key = IF e.own THEN last ELSE e.key
             /\ ~e.own => After(e) = e
  BY <1>4 DEF AllEntries
<1>10. /\ DOMAIN item_array' = DOMAIN item_array
       /\ \A i \in DOMAIN item_array : item_array'[i] = After(item_array[i])
  BY DEF NextLoad, Top
<1>11. /\ AreEntries(item_array') /\ Entries' = {After(e) : e \in Entries}
       /\ Top' = After(Top) /\ item_array' # << >>
  <2> HIDE DEF After
  <2>1. PICK n \in Nat : n = Len(item_array)
    BY <1>3, EntriesAre
  <2>2. /\ DOMAIN item_array = 1 .. n /\ item_array \in [1 .. n -> AllEntries] /\ 1 \in 1 .. n
    BY <1>1, <1>3, <2>1, EntriesAre
  <2>3. item_array' = [i \in 1 .. n |-> After(item_array[i])]
    <3>1. item_array' = [i \in DOMAIN item_array |-> After(item_array[i])]
      BY DEF NextLoad, Top, After
    <3> QED BY <2>2, <3>1
  <2>4. item_array' \in [1 .. n -> AllEntries]
    BY <1>9, <2>2, <2>3
  <2>5. item_array' \in Seq(AllEntries) /\ DOMAIN item_array' = 1 .. n
    BY <2>4
  <2>6. \A i \in 1 .. n : item_array'[i].wid = item_array[i].wid
    BY <1>9, <2>2, <2>3
  <2>7. AreEntries(item_array')
    BY <1>3, <2>2, <2>5, <2>6 DEF AreEntries
  <2>8. Entries' = {item_array'[i] : i \in 1 .. n} /\ Entries = {item_array[i] : i \in 1 .. n}
    BY <2>2, <2>5 DEF Entries, ToSet
  <2>9. Entries' = {After(e) : e \in Entries}
    BY <2>2, <2>3, <2>8
  <2> QED BY <2>2, <2>3, <2>5, <2>7, <2>9 DEF Top
<1> HIDE DEF After
<1>12. Top'.wid = w /\ Entries \subseteq AllEntries
  BY <1>3, <1>9, <1>11, EntriesTyped
<1>13. TypeOK'
  <2>1. /\ item_array' \in Seq([wid : Workers, key : Keys, own : BOOLEAN])
        /\ \A i, j \in DOMAIN item_array' : item_array'[i].wid = item_array'[j].wid => i = j
    BY <1>11 DEF AreEntries, AllEntries
  <2>2. queue' \in [Workers -> Seq(Requests)]
    BY <1>2, <1>3, <1>5 DEF TypeOK
  <2>3. per_worker_idx' \in [Workers -> 0 .. DONE]
    <3>1. 0 \in 0 .. DONE
      BY IteratorAssumption DEF DONE
    <3> QED BY <1>2, <1>3, <3>1 DEF TypeOK
  <2>4. scan_res' \in [Workers -> Batches \cup {NULL}]
    BY <1>2, <1>3 DEF TypeOK
  <2>5. completed' \in [Workers -> BOOLEAN] /\ kverrno' \in [Workers -> BOOLEAN]
    <3>1. completed \in [Workers -> BOOLEAN] /\ kverrno \in [Workers -> BOOLEAN]
      BY <1>3 DEF TypeOK
    <3>2. \E ws : /\ completed' = [v \in Workers |-> v \notin Held(ws) /\ completed[v]]
                  /\ kverrno' = [v \in Workers |-> v \notin Held(ws) /\ kverrno[v]]
      BY DEF NextLoad, ResetScanRes
    <3> QED BY <3>1, <3>2
  <2> QED BY <1>2, <1>3, <1>4, <1>8, <2>1, <2>2, <2>3, <2>4, <2>5 DEF TypeOK
<1>14. PhaseOK'
  <2>1. \A v \in Workers : scan_res'[v] # NULL => BatchOK(scan_res'[v], KeysOf(v)')
    BY <1>3, <1>6, <1>7 DEF PhaseOK
  <2> QED BY <1>2, <1>8, <1>11, <2>1 DEF PhaseOK, Loading
<1>15. QueueOK => /\ queue'[w] = <<r>> /\ last > start
                  /\ \A v \in Workers : v # w => queue'[v] = queue[v]
  <2> SUFFICES ASSUME QueueOK
               PROVE  /\ queue'[w] = <<r>> /\ last > start
                      /\ \A v \in Workers : v # w => queue'[v] = queue[v]
    OBVIOUS
  <2>1. queue[w] = << >> /\ \A k \in ToSet(b.items) : k > start
    BY <1>1, <1>3 DEF QueueOK
  <2>2. /\ queue'[w] = Append(queue[w], r)
        /\ \A v \in Workers : v # w => queue'[v] = queue[v]
    BY <1>2, <1>3 DEF TypeOK
  <2>3. Append(<< >>, r) = <<r>>
    OBVIOUS
  <2> QED BY <1>4, <2>1, <2>2, <2>3
<1>16. DOMAIN <<r>> = {1} /\ <<r>>[1] = r /\ Len(<<r>>) = 1
  OBVIOUS
<1>17. QueueOK => QueueOK'
  <2> SUFFICES ASSUME QueueOK PROVE QueueOK'
    OBVIOUS
  <2>1. \A v \in Workers : scan_res'[v] # NULL =>
          queue'[v] = << >> /\ \A k \in ToSet(scan_res'[v].items) : k > start'
    BY <1>2, <1>7, <1>15 DEF QueueOK
  <2>2. last >= start
    <3>1. last \in Nat /\ start \in Nat
      BY <1>3, <1>4, KeysAre DEF TypeOK
    <3> QED BY <1>15, <3>1
  <2>3. ASSUME NEW v \in Workers, NEW i \in DOMAIN queue'[v], queue'[v][i].op # "seek"
        PROVE  i = Len(queue'[v]) /\ queue'[v][i].base >= start'
    <3>1. CASE v = w
      <4>1. queue'[v] = <<r>>
        BY <1>15, <3>1
      <4>2. i = 1
        BY <1>16, <2>3, <4>1
      <4> QED BY <1>2, <1>5, <1>16, <2>2, <4>1, <4>2
    <3>2. CASE v # w
      BY <1>2, <1>15, <2>3, <3>2 DEF QueueOK
    <3> QED BY <3>1, <3>2
  <2> QED BY <1>2, <1>8, <2>1, <2>3 DEF QueueOK, Loading
<1>18. QueueOK /\ EntriesOK => WaitOK'
  <2> SUFFICES ASSUME QueueOK, EntriesOK PROVE WaitOK'
    OBVIOUS
  <2>1. Top'.key = last
    <3>1. CASE Top.own
      BY <1>3, <1>9, <1>11, <1>12, <3>1
    <3>2. CASE ~Top.own
      <4>1. /\ per_worker_idx[w] \in DOMAIN b.items
            /\ Top.key = b.items[per_worker_idx[w]]
        BY <1>1, <1>3, <3>2 DEF EntriesOK, EntryOK, Merged
      <4>2. per_worker_idx[w] = Len(b.items)
        <5>1. b.items \in Seq(Keys)
          BY <1>4 DEF BatchOK, Batches
        <5>2. per_worker_idx[w] \in 1 .. Len(b.items)
          BY <4>1, <5>1, LenProperties
        <5> QED BY <1>1, <1>4, <5>2
      <4> QED BY <1>3, <1>4, <1>9, <1>11, <1>12, <3>2, <4>1, <4>2
    <3> QED BY <3>1, <3>2
  <2> QED BY <1>3, <1>5, <1>7, <1>12, <1>15, <1>16, <2>1 DEF WaitOK
<1>19. EntriesOK => EntriesOK'
  <2> SUFFICES ASSUME EntriesOK, NEW d \in Entries'
               PROVE  /\ d.own => start \in Keys /\ d.wid = shard[start] /\ d.key = last
                      /\ d # Top' => EntryOK(d)'
    BY <1>2 DEF EntriesOK
  <2>1. PICK e \in Entries : d = After(e)
    BY <1>11
  <2>2. /\ d.wid = e.wid /\ d.own = e.own /\ d.wid \in Workers /\ (~e.own => d = e)
        /\ e.own => d.key = last
    BY <1>9, <1>12, <2>1 DEF AllEntries
  <2>3. e.own => start \in Keys /\ e.wid = shard[start]
    BY <1>1 DEF EntriesOK, Merged
  <2>4. ASSUME d # Top' PROVE EntryOK(d)'
    <3>1. e # Top
      BY <1>11, <2>1, <2>4
    <3>2. EntryOK(e) /\ d.wid # w
      BY <1>1, <1>3, <2>2, <3>1 DEF EntriesOK, Merged
    <3>3. scan_res'[d.wid] = scan_res[e.wid] /\ per_worker_idx'[d.wid] = per_worker_idx[e.wid]
      BY <1>7, <2>2, <3>2
    <3> QED BY <1>2, <1>6, <2>2, <3>2, <3>3 DEF EntryOK
  <2> QED BY <2>2, <2>3, <2>4
<1>20. QueueOK /\ EntriesOK /\ SeekKeyKept' => start = 0 /\ SeekKeyKept
  <2> SUFFICES ASSUME QueueOK, SeekKeyKept' PROVE start = 0
    BY DEF SeekKeyKept
  <2>1. last > start /\ last \in Nat /\ start \in Nat
    BY <1>3, <1>4, <1>15, KeysAre DEF TypeOK
  <2> QED BY <1>2, <2>1 DEF SeekKeyKept
<1>21. EntriesOK /\ start = 0 /\ SeenOK /\ OrderOK => SeenOK' /\ OrderOK'
  <2> SUFFICES ASSUME EntriesOK, start = 0, SeenOK, OrderOK PROVE SeenOK' /\ OrderOK'
    OBVIOUS
  <2>1. 0 \notin Keys
    BY DEF Keys
  <2>2. \A e \in Entries : After(e) = e
    BY <1>1, <1>9, <1>12, <2>1 DEF EntriesOK, Merged
  <2>3. Entries' = Entries /\ Top' = Top
    BY <1>3, <1>11, <2>2
  <2> QED BY <1>1, <1>2, <1>6, <2>3 DEF SeenOK, OrderOK, Merged
<1> QED BY <1>2, <1>13, <1>14, <1>17, <1>18, <1>19, <1>20, <1>21 DEF IterInv

-----------------------------------------------------------------------------
(* kv_iterator_next: the next item of the worker on top.                   *)

\* What NextItem needs to know: where the worker on top has got to.
LEMMA TopNext ==
  ASSUME IterInv, ~abandoned, SeekKeyKept, item_array # << >>, scan_res[Top.wid] # NULL,
         (pc = "idle" /\ ~NeedsLoad(Top.wid)) \/ pc = "next_wait"
  PROVE  LET s == scan_res[Top.wid].items
             j == per_worker_idx[Top.wid]
         IN  /\ j < Len(s) =>
                  /\ s[j + 1] \in KeysOf(Top.wid) /\ Top.key < s[j + 1]
                  /\ Top.wid \in joined => \A k \in KeysOf(Top.wid) : Top.key < k => s[j + 1] <= k
             /\ j >= Len(s) =>
                  (Top.wid \in joined => \A k \in KeysOf(Top.wid) : k <= Top.key)
<1> PICK w : w = Top.wid
  OBVIOUS
<1> PICK b : b = scan_res[w]
  OBVIOUS
<1> PICK s : s = b.items
  OBVIOUS
<1> PICK j : j = per_worker_idx[w]
  OBVIOUS
<1> PICK t : t = Top.key
  OBVIOUS
<1>1. /\ TypeOK /\ PhaseOK /\ QueueOK /\ WaitOK /\ EntriesOK
      /\ w \in Workers /\ Top \in Entries /\ t \in Keys /\ Top.own \in BOOLEAN
  <2>1. Top \in AllEntries
    BY EntriesTyped DEF IterInv
  <2> QED BY <2>1, EntriesTyped DEF IterInv, AllEntries
<1>2. b # NULL /\ BatchOK(b, KeysOf(w))
  BY <1>1 DEF PhaseOK
<1>3. /\ s \in Seq(Keys) /\ InOrder(s) /\ ToSet(s) \subseteq KeysOf(w) /\ KeysOf(w) \subseteq Keys
      /\ b.batch \in Nat
      /\ \A k \in KeysOf(w) : \A i \in DOMAIN s : s[i] < k => TellsOf(b, k)
  BY <1>1, <1>2 DEF BatchOK, Batches, KeysOf, TypeOK
<1>4. PICK n \in Nat : n = Len(s)
  BY <1>3, LenProperties
<1>5. DOMAIN s = 1 .. n /\ ToSet(s) = {s[i] : i \in 1 .. n} /\ \A i \in 1 .. n : s[i] \in KeysOf(w)
  BY <1>3, <1>4, ElemsOf
<1>6. j \in Nat /\ t \in Nat /\ start \in Nat /\ \A k \in KeysOf(w) : k \in Nat
  <2>1. j \in 0 .. DONE /\ DONE \in Nat
    BY <1>1, IteratorAssumption DEF TypeOK, DONE
  <2>2. start \in Keys \cup {0}
    BY <1>1 DEF TypeOK
  <2>3. start \in Nat /\ t \in Nat /\ \A k \in KeysOf(w) : k \in Nat
    BY <1>1, <1>3, <2>2, KeysAre, Zenon
  <2>4. j \in Nat
    BY <2>1
  <2> QED BY <2>3, <2>4
<1>7. \A k \in KeysOf(w) : TellsOf(b, k) <=>
          \/ \E i \in 1 .. n : s[i] = k
          \/ n = b.batch /\ \A i \in 1 .. n : s[i] < k
  BY <1>4, <1>5 DEF TellsOf
<1>8. \A i, m \in 1 .. n : i < m => s[i] < s[m]
  BY <1>3, <1>5 DEF InOrder
\* All that is left to know: the worker's keys above t are those after s[j].
<1>9. /\ j < n => t < s[j + 1]
      /\ w \in joined => \A k \in KeysOf(w) : t < k => TellsOf(b, k)
      /\ w \in joined => \A i \in 1 .. j : i <= n => s[i] <= t
      /\ j >= n /\ w \in joined => n # b.batch
  <2>1. CASE pc = "next_wait"
    <3>1. j = 0 /\ FromBase(b, KeysOf(w), t) /\ b.batch = BatchSize /\ BatchSize # 0
      BY <1>1, <1>2, <2>1, IteratorAssumption DEF WaitOK
    <3>2. j < n => s[j + 1] \in ToSet(s)
      BY <1>4, <1>5, <3>1
    <3>3. j < n => t < s[j + 1]
      BY <1>6, <1>3, <3>1, <3>2 DEF FromBase
    <3>4. \A k \in KeysOf(w) : t < k => TellsOf(b, k)
      BY <1>6, <3>1 DEF FromBase
    <3>5. \A i \in 1 .. j : FALSE
      BY <3>1
    <3> QED BY <1>4, <3>1, <3>3, <3>4, <3>5
  <2>2. CASE pc = "idle" /\ ~Top.own
    <3>1. j \in 1 .. n /\ t = s[j]
      BY <1>1, <1>5, <2>2 DEF EntriesOK, EntryOK, Merged
    <3>2. j < n => s[j] < s[j + 1]
      <4>1. j < n => j + 1 \in 1 .. n /\ j < j + 1
        BY <1>4, <3>1
      <4> QED BY <1>8, <3>1, <4>1
    <3>3. \A k \in KeysOf(w) : t < k => TellsOf(b, k)
      BY <1>3, <1>5, <3>1
    <3>4. ASSUME NEW i \in 1 .. j PROVE s[i] <= t
      <4>1. i \in 1 .. n /\ (i = j \/ i < j)
        BY <1>6, <3>1
      <4>2. s[i] \in Nat /\ (i = j \/ s[i] < s[j])
        BY <1>5, <1>6, <1>8, <3>1, <4>1
      <4> QED BY <1>6, <3>1, <4>2
    <3>5. j >= n => n # b.batch
      BY <1>4, <2>2 DEF NeedsLoad
    <3> QED BY <3>1, <3>2, <3>3, <3>4, <3>5
  <2>3. CASE pc = "idle" /\ Top.own
    <3>1. start \in Keys /\ t = start
      <4>1. start \in Keys /\ t = seek_key
        BY <1>1, <2>3 DEF EntriesOK, Merged
      <4>2. start # 0
        BY <4>1 DEF Keys
      <4> QED BY <4>1, <4>2 DEF SeekKeyKept
    <3>2. \A k \in ToSet(s) : k > t
      BY <1>1, <1>2, <3>1 DEF QueueOK
    <3>3. j < n => t < s[j + 1]
      <4>1. j < n => j + 1 \in 1 .. n
        BY <1>4, <1>6
      <4> QED BY <1>5, <1>6, <3>2, <4>1
    <3>4. w \in joined => j = 0 /\ FromBase(b, KeysOf(w), t)
      BY <1>1, <2>3, <3>1 DEF EntriesOK, EntryOK, Merged
    <3>5. w \in joined => \A k \in KeysOf(w) : t < k => TellsOf(b, k)
      BY <1>6, <3>4 DEF FromBase
    <3>6. j >= n => n # b.batch
      BY <1>4, <2>3 DEF NeedsLoad
    <3>7. w \in joined => \A i \in 1 .. j : FALSE
      BY <3>4
    <3> QED BY <3>3, <3>5, <3>6, <3>7
  <2> QED BY <1>1, <2>1, <2>2, <2>3
<1>10. ASSUME j < n
       PROVE  /\ s[j + 1] \in KeysOf(w) /\ t < s[j + 1]
              /\ w \in joined => \A k \in KeysOf(w) : t < k => s[j + 1] <= k
  <2>1. j + 1 \in 1 .. n
    BY <1>4, <1>6, <1>10
  <2>2. ASSUME w \in joined, NEW k \in KeysOf(w), t < k PROVE s[j + 1] <= k
    <3>1. k \in Nat /\ s[j + 1] \in Nat
      BY <1>5, <1>6, <2>1
    <3>2. CASE \E i \in 1 .. n : s[i] = k
      <4>1. PICK i \in 1 .. n : s[i] = k
        BY <3>2
      <4>2. ~(i <= j)
        BY <1>6, <1>9, <2>2, <3>1, <4>1
      <4>3. i = j + 1 \/ j + 1 < i
        BY <1>6, <4>2
      <4> QED BY <1>8, <2>1, <3>1, <4>1, <4>3
    <3>3. CASE \A i \in 1 .. n : s[i] < k
      BY <2>1, <3>1, <3>3
    <3> QED BY <1>7, <1>9, <2>2, <3>2, <3>3
  <2> QED BY <1>5, <1>9, <1>10, <2>1, <2>2
<1>11. ASSUME j >= n, w \in joined, NEW k \in KeysOf(w), t < k PROVE FALSE
  <2>1. PICK i \in 1 .. n : s[i] = k
    BY <1>7, <1>9, <1>11
  <2>2. i \in 1 .. j /\ i <= n
    BY <1>6, <1>11
  <2> QED BY <1>6, <1>9, <1>11, <2>1, <2>2
<1>12. \A k \in KeysOf(w) : k <= t <=> ~(t < k)
  BY <1>6
<1> QED BY <1>4, <1>10, <1>11, <1>12

\* The scan goes on: the entry on top is replaced by those of N, which hold the
\* next key of its worker, or nothing when there is none.
LEMMA ScanGoesOn ==
  ASSUME TypeOK, SeenOK, OrderOK, pc \in Merged, pc' = "idle", item_array # << >>,
         UNCHANGED <<stored, shard, start, joined>>,
         AreEntries(item_array'), NEW N, Entries' = (Entries \ {Top}) \cup N,
         \A e \in N : /\ e.wid = Top.wid /\ e.key \in KeysOf(Top.wid) /\ Top.key < e.key
                      /\ Top.wid \in joined =>
                           \A k \in KeysOf(Top.wid) : Top.key < k => e.key <= k,
         N = {} /\ Top.wid \in joined => \A k \in KeysOf(Top.wid) : k <= Top.key,
         seen' = IF item_array' = << >> THEN seen ELSE Append(seen, Top'.key)
  PROVE  SeenOK' /\ OrderOK'
<1>1. /\ Top \in Entries /\ Top.key \in Keys /\ \A d, e \in Entries : d.wid = e.wid => d = e
      /\ seen \in Seq(Keys) /\ start \in Nat
      /\ \A w : \A k \in KeysOf(w) : k \in Keys /\ k \in stored /\ shard[k] = w
  <2>1. start \in Keys \cup {0}
    BY DEF TypeOK
  <2>2. start \in Nat
    BY <2>1, KeysAre, Zenon
  <2> QED BY <2>2, EntriesTyped DEF TypeOK, KeysOf
<1>2. /\ item_array' # << >> => Top' \in Entries'
      /\ item_array' = << >> <=> Entries' = {}
      /\ \A e \in Entries' : e.wid \in Workers /\ e.key \in Keys
      /\ \A d, e \in Entries' : d.wid = e.wid => d = e
  <2>1. Top' = item_array'[1] /\ Entries' = ToSet(item_array')
    BY DEF Top, Entries
  <2>2. PICK t : t = item_array'
    OBVIOUS
  <2>3. /\ ToSet(t) \subseteq AllEntries
        /\ t # << >> => 1 \in DOMAIN t /\ t[1] \in ToSet(t)
        /\ t = << >> <=> ToSet(t) = {}
        /\ \A d, e \in ToSet(t) : d.wid = e.wid => d = e
    BY <2>2, EntriesAre
  <2> QED BY <2>1, <2>2, <2>3 DEF AllEntries
<1>3. \A w : KeysOf(w)' = KeysOf(w)
  BY KeysStay
<1>4. Top.key \in ToSet(seen) /\ Top.key >= start /\ Top.key \in Nat
  <2>1. Top.key \in Nat
    BY <1>1, KeysAre
  <2>2. Top.key \in ToSet(seen) /\ (Top.key = start \/ Top.key > start)
    BY <1>1 DEF OrderOK
  <2> QED BY <1>1, <2>1, <2>2
<1>5. ASSUME NEW e \in Entries'
      PROVE  shard[e.key] = e.wid /\ (e.key = start \/ (e.key \in stored /\ e.key > start))
  <2>1. CASE e \in N
    <3>1. e.key \in KeysOf(Top.wid) /\ Top.key < e.key /\ e.wid = Top.wid
      BY <2>1
    <3>2. e.key \in Nat /\ e.key \in stored /\ shard[e.key] = e.wid
      BY <1>1, <3>1, KeysAre
    <3> QED BY <1>1, <1>4, <3>1, <3>2
  <2>2. CASE e \in Entries
    BY <2>2 DEF OrderOK
  <2> QED BY <2>1, <2>2
\* The keys already returned are below the entries of their workers.
<1>6. ASSUME NEW e \in Entries', NEW k \in ToSet(seen), shard[k] = e.wid
      PROVE  k < e.key
  <2>1. k \in Nat /\ e.key \in Nat
    <3>1. k \in Keys
      BY <1>1, ElemsOf
    <3> QED BY <1>2, <3>1, KeysAre
  <2>2. CASE e \in N
    <3>1. k <= Top.key
      BY <1>1, <1>6, <2>2 DEF OrderOK
    <3>2. Top.key < e.key
      BY <2>2
    <3> QED BY <1>4, <2>1, <3>1, <3>2
  <2>3. CASE e \notin N
    <3>1. e \in Entries /\ e # Top
      BY <2>3
    <3>2. k <= e.key /\ k # e.key
      BY <1>6, <3>1 DEF OrderOK
    <3> QED BY <2>1, <3>2
  <2> QED BY <2>2, <2>3
<1>7. item_array' # << >> => Top'.key \notin ToSet(seen) /\ Top'.key \in Keys
  <2> SUFFICES ASSUME item_array' # << >>, Top'.key \in ToSet(seen) PROVE FALSE
    BY <1>2
  <2>1. Top' \in Entries' /\ Top'.key \in Nat
    BY <1>2, KeysAre
  <2>2. Top'.key < Top'.key
    BY <1>5, <1>6, <2>1
  <2> QED BY <2>1, <2>2
<1>8. /\ item_array' = << >> => ToSet(seen') = ToSet(seen) /\ IsInjective(seen')
      /\ item_array' # << >> => ToSet(seen') = ToSet(seen) \cup {Top'.key} /\ IsInjective(seen')
  <2>1. IsInjective(seen)
    BY DEF SeenOK
  <2>2. CASE item_array' = << >>
    BY <2>1, <2>2
  <2>3. CASE item_array' # << >>
    <3>1. PICK k \in Keys : k = Top'.key
      BY <1>7, <2>3
    <3>2. seen' = Append(seen, k) /\ k \notin ToSet(seen)
      BY <1>7, <2>3, <3>1
    <3> QED BY <1>1, <2>1, <2>3, <3>1, <3>2, ElemsAppend
  <2> QED BY <2>2, <2>3
<1>9. SeenOK'
  <2>1. \A k \in ToSet(seen) : k = start \/ (k \in stored /\ k > start)
    BY DEF SeenOK
  <2>2. \A k \in ToSet(seen') : k = start \/ (k \in stored /\ k > start)
    BY <1>2, <1>5, <1>8, <2>1
  <2> QED BY <1>8, <2>2 DEF SeenOK
<1>10. ASSUME NEW e \in Entries', NEW k \in ToSet(seen'), shard[k] = e.wid
       PROVE  k <= e.key /\ (k = e.key => e = Top')
  <2>1. e.key \in Nat
    BY <1>2, KeysAre
  <2>2. CASE k \in ToSet(seen)
    <3>1. k < e.key /\ k \in Nat
      <4>1. k \in Keys
        BY <1>1, <2>2, ElemsOf
      <4> QED BY <1>6, <1>10, <2>2, <4>1, KeysAre
    <3> QED BY <2>1, <3>1
  <2>3. CASE k \notin ToSet(seen)
    <3>1. Top' \in Entries' /\ k = Top'.key
      BY <1>2, <1>8, <1>10, <2>3
    <3>2. e = Top'
      BY <1>2, <1>5, <1>10, <3>1
    <3> QED BY <2>1, <3>1, <3>2
  <2> QED BY <2>2, <2>3
<1>11. ToSet(seen) \subseteq ToSet(seen') /\ (item_array' # << >> => Top'.key \in ToSet(seen'))
  BY <1>8
<1>12. ASSUME NEW w \in joined
       PROVE  \/ \A k \in KeysOf(w) : k >= start => k \in ToSet(seen')
              \/ \E e \in Entries' :
                   e.wid = w /\ \A k \in KeysOf(w) : start <= k /\ k < e.key => k \in ToSet(seen')
  <2>1. \/ \A k \in KeysOf(w) : k >= start => k \in ToSet(seen)
        \/ \E e \in Entries :
             e.wid = w /\ \A k \in KeysOf(w) : start <= k /\ k < e.key => k \in ToSet(seen)
    BY DEF OrderOK
  <2>2. CASE \A k \in KeysOf(w) : k >= start => k \in ToSet(seen)
    BY <1>11, <2>2
  <2>3. ASSUME NEW e \in Entries, e.wid = w, e # Top,
               \A k \in KeysOf(w) : start <= k /\ k < e.key => k \in ToSet(seen)
        PROVE  \E d \in Entries' :
                 d.wid = w /\ \A k \in KeysOf(w) : start <= k /\ k < d.key => k \in ToSet(seen')
    <3>1. e \in Entries'
      BY <2>3
    <3> QED BY <1>11, <2>3, <3>1
  <2>4. ASSUME Top.wid = w,
               \A k \in KeysOf(w) : start <= k /\ k < Top.key => k \in ToSet(seen)
        PROVE  \/ \A k \in KeysOf(w) : k >= start => k \in ToSet(seen')
               \/ \E d \in Entries' :
                    d.wid = w /\ \A k \in KeysOf(w) : start <= k /\ k < d.key => k \in ToSet(seen')
    <3>1. ASSUME NEW k \in KeysOf(w), start <= k, k <= Top.key PROVE k \in ToSet(seen')
      <4>1. k \in Nat
        BY <1>1, KeysAre
      <4>2. k < Top.key \/ k = Top.key
        BY <1>4, <3>1, <4>1
      <4> QED BY <1>4, <1>11, <2>4, <3>1, <4>2
    <3>2. CASE N = {}
      <4>1. \A k \in KeysOf(w) : k <= Top.key /\ k \in Nat
        BY <1>1, <2>4, <3>2, KeysAre
      <4> QED BY <1>1, <3>1, <4>1
    <3>3. CASE N # {}
      <4>1. PICK d \in N : TRUE
        BY <3>3
      <4>2. d \in Entries' /\ d.wid = w /\ \A k \in KeysOf(w) : Top.key < k => d.key <= k
        BY <2>4, <4>1
      <4>3. d.key \in Nat
        BY <1>2, <4>2, KeysAre
      <4>4. ASSUME NEW k \in KeysOf(w), start <= k, k < d.key PROVE k <= Top.key
        <5>1. k \in Nat
          BY <1>1, KeysAre
        <5> QED BY <1>4, <4>2, <4>3, <4>4, <5>1
      <4> QED BY <3>1, <4>2, <4>4
    <3> QED BY <3>2, <3>3
  <2> QED BY <2>1, <2>2, <2>3, <2>4
<1>13. stored' = stored /\ shard' = shard /\ start' = start /\ joined' = joined
  OBVIOUS
<1>14. \A e \in Entries' :
         /\ shard'[e.key] = e.wid /\ (e.key = start' \/ (e.key \in stored' /\ e.key > start'))
         /\ \A k \in ToSet(seen') : shard'[k] = e.wid => k <= e.key /\ (k = e.key => e = Top')
  BY <1>5, <1>10, <1>13
<1>15. \A w \in joined' :
         \/ \A k \in KeysOf(w)' : k >= start' => k \in ToSet(seen')
         \/ \E e \in Entries' :
              e.wid = w /\ \A k \in KeysOf(w)' : start' <= k /\ k < e.key => k \in ToSet(seen')
  BY <1>3, <1>12, <1>13
<1>16. OrderOK'
  BY <1>11, <1>14, <1>15 DEF OrderOK
<1> QED BY <1>9, <1>16

\* The entry that Take puts on top.
NextEntry(w) == [wid |-> w, own |-> FALSE, key |-> scan_res[w].items[per_worker_idx[w] + 1]]

LEMMA TakeIs ==
  ASSUME TypeOK, PhaseOK, item_array # << >>, scan_res[Top.wid] # NULL, Take(Top.wid)
  PROVE  LET e == NextEntry(Top.wid)
         IN  /\ AreEntries(item_array') /\ Entries' = (Entries \ {Top}) \cup {e}
             /\ per_worker_idx' \in [Workers -> 0 .. DONE]
             /\ \A v \in Workers : v # Top.wid => per_worker_idx'[v] = per_worker_idx[v]
             /\ per_worker_idx[Top.wid] < Len(scan_res[Top.wid].items)
             /\ per_worker_idx'[Top.wid] \in DOMAIN scan_res[Top.wid].items
             /\ e.key = scan_res[Top.wid].items[per_worker_idx'[Top.wid]]
             /\ e.wid = Top.wid /\ ~e.own
<1> PICK w : w = Top.wid
  OBVIOUS
<1> PICK s : s = scan_res[w].items
  OBVIOUS
<1> PICK j : j = per_worker_idx[w]
  OBVIOUS
<1> PICK e : e = NextEntry(w)
  OBVIOUS
<1>1. w \in Workers /\ AreEntries(item_array) /\ w = item_array[1].wid
  BY EntriesTyped DEF Top
<1>2. s \in Seq(Keys) /\ Len(s) <= MaxKey /\ Len(s) \in Nat
  <2>1. BatchOK(scan_res[w], KeysOf(w))
    BY <1>1 DEF PhaseOK
  <2> QED BY <2>1, LenProperties DEF BatchOK, Batches
<1>3. j < Len(s) /\ j \in 0 .. DONE /\ DONE = MaxKey + 1 /\ MaxKey \in Nat
  BY <1>1, IteratorAssumption DEF Take, TypeOK, DONE
<1>4. j + 1 \in DOMAIN s /\ j + 1 \in 0 .. DONE
  BY <1>2, <1>3
<1>5. e = [wid |-> w, own |-> FALSE, key |-> s[j + 1]]
  BY DEF NextEntry
<1>6. e \in AllEntries /\ e.wid = w /\ ~e.own /\ e.key = s[j + 1]
  <2>1. PICK k \in Keys : k = s[j + 1]
    BY <1>2, <1>4, ElementOfSeq
  <2>2. e = [wid |-> w, own |-> FALSE, key |-> k]
    BY <1>5, <2>1
  <2>3. e \in AllEntries
    <3>1. w \in Workers /\ k \in Keys /\ FALSE \in BOOLEAN
      BY <1>1
    <3> QED BY <2>2, <3>1 DEF AllEntries
  <2>4. e.wid = w /\ e.own = FALSE /\ e.key = k
    BY <2>2
  <2> QED BY <2>1, <2>3, <2>4
<1>7. PICK t : t = [item_array EXCEPT ![1] = e]
  OBVIOUS
<1>8. item_array' = Adjusted(t) /\ per_worker_idx' = [per_worker_idx EXCEPT ![w] = @ + 1]
  BY <1>5, <1>7 DEF Take
<1>9. AreEntries(t) /\ ToSet(t) = (Entries \ {Top}) \cup {e}
  BY <1>1, <1>6, <1>7, TopReplaced DEF Entries, Top
<1>10. AreEntries(item_array') /\ Entries' = (Entries \ {Top}) \cup {e}
  BY <1>8, <1>9, HeapedEntries DEF Entries
<1>11. /\ per_worker_idx' \in [Workers -> 0 .. DONE] /\ per_worker_idx'[w] = j + 1
       /\ \A v \in Workers : v # w => per_worker_idx'[v] = per_worker_idx[v]
  <2>1. per_worker_idx \in [Workers -> 0 .. DONE]
    BY DEF TypeOK
  <2> QED BY <1>1, <1>4, <1>8, <2>1
<1> QED BY <1>3, <1>4, <1>6, <1>10, <1>11

LEMMA DropIs ==
  ASSUME TypeOK, item_array # << >>, Drop(Top.wid)
  PROVE  /\ AreEntries(item_array') /\ Entries' = Entries \ {Top}
         /\ per_worker_idx' \in [Workers -> 0 .. DONE]
         /\ \A v \in Workers : v # Top.wid => per_worker_idx'[v] = per_worker_idx[v]
         /\ per_worker_idx[Top.wid] >= Len(scan_res[Top.wid].items)
<1> PICK w : w = Top.wid
  OBVIOUS
<1>1. w \in Workers /\ AreEntries(item_array) /\ per_worker_idx \in [Workers -> 0 .. DONE]
  BY EntriesTyped DEF TypeOK
<1>2. per_worker_idx[w] >= Len(scan_res[w].items)
  BY DEF Drop
<1>3. CASE Len(item_array) > 1
  <2>1. PICK t : t = Front([item_array EXCEPT ![1] = Last(item_array)])
    OBVIOUS
  <2>2. item_array' = Adjusted(t) /\ per_worker_idx' = [per_worker_idx EXCEPT ![w] = DONE]
    BY <1>3, <2>1 DEF Drop
  <2>3. AreEntries(t) /\ ToSet(t) = Entries \ {Top}
    BY <1>1, <1>3, <2>1, TopDropped DEF Entries, Top
  <2>4. AreEntries(item_array') /\ Entries' = Entries \ {Top}
    BY <2>2, <2>3, HeapedEntries DEF Entries
  <2>5. DONE \in 0 .. DONE
    BY IteratorAssumption DEF DONE
  <2>6. /\ per_worker_idx' \in [Workers -> 0 .. DONE]
        /\ \A v \in Workers : v # w => per_worker_idx'[v] = per_worker_idx[v]
    BY <1>1, <2>2, <2>5
  <2> QED BY <1>2, <2>4, <2>6
<1>4. CASE ~(Len(item_array) > 1)
  <2>1. item_array' = << >> /\ UNCHANGED per_worker_idx
    BY <1>4 DEF Drop
  <2>2. Len(item_array) = 1 /\ Entries = {item_array[i] : i \in 1 .. Len(item_array)}
    <3>1. item_array \in Seq(AllEntries) /\ Len(item_array) \in Nat /\ Len(item_array) # 0
      BY <1>1, EntriesAre, EmptySeq DEF AreEntries
    <3>2. PICK n \in Nat : n = Len(item_array)
      BY <3>1
    <3>3. ~(n > 1) /\ n # 0
      BY <1>4, <3>1, <3>2
    <3>4. Len(item_array) = 1
      BY <3>2, <3>3
    <3> QED BY <3>1, <3>4, ElemsOf DEF Entries
  <2>3. Entries = {Top}
    BY <2>2 DEF Top
  <2>4. AreEntries(item_array') /\ Entries' = {}
    BY <2>1, ElemsEmpty DEF AreEntries, Entries
  <2> QED BY <1>1, <1>2, <2>1, <2>3, <2>4
<1> QED BY <1>3, <1>4

LEMMA NextItemKeeps == ASSUME IterInv, NextItem PROVE IterInv'
<1> PICK w : w = Top.wid
  OBVIOUS
<1>1. /\ item_array # << >> /\ scan_res[w] # NULL /\ (Take(w) \/ Drop(w))
      /\ (pc = "idle" /\ ~NeedsLoad(w)) \/ pc = "next_wait"
      /\ seen' = (IF item_array' = << >> THEN seen ELSE Append(seen, Top'.key)) /\ pc' = "idle"
      /\ UNCHANGED <<stored, shard, queue, nb_commands, start, seek_key, swctx, joined, live, abandoned>>
  BY DEF NextItem, Item, Top
<1>2. /\ TypeOK /\ PhaseOK /\ w \in Workers /\ Top \in Entries /\ pc \in Merged
      /\ \A d, e \in Entries : d.wid = e.wid => d = e
  BY <1>1, EntriesTyped DEF IterInv, Merged
<1>3. \A v : KeysOf(v)' = KeysOf(v)
  BY <1>1, KeysStay
<1>4. PICK N :
        /\ AreEntries(item_array') /\ Entries' = (Entries \ {Top}) \cup N
        /\ per_worker_idx' \in [Workers -> 0 .. DONE]
        /\ \A v \in Workers : v # w => per_worker_idx'[v] = per_worker_idx[v]
        /\ N \subseteq {NextEntry(w)}
        /\ N # {} => per_worker_idx[w] < Len(scan_res[w].items)
        /\ N = {} => per_worker_idx[w] >= Len(scan_res[w].items)
        /\ \A e \in N : /\ e.wid = w /\ ~e.own
                        /\ per_worker_idx'[w] \in DOMAIN scan_res[w].items
                        /\ e.key = scan_res[w].items[per_worker_idx'[w]]
  <2>1. CASE Take(w)
    <3>1. PICK N : N = {NextEntry(w)}
      OBVIOUS
    <3> QED BY <1>1, <1>2, <2>1, <3>1, TakeIs
  <2>2. CASE Drop(w)
    <3>1. PICK N : N = {}
      OBVIOUS
    <3>2. Entries \ {Top} = (Entries \ {Top}) \cup N /\ N \subseteq {NextEntry(w)}
      BY <3>1
    <3>3. /\ AreEntries(item_array') /\ Entries' = (Entries \ {Top}) \cup N
          /\ per_worker_idx' \in [Workers -> 0 .. DONE]
          /\ \A v \in Workers : v # w => per_worker_idx'[v] = per_worker_idx[v]
          /\ per_worker_idx[w] >= Len(scan_res[w].items)
      BY <1>1, <1>2, <2>2, <3>2, DropIs
    <3> QED BY <3>1, <3>2, <3>3
  <2> QED BY <1>1, <2>1, <2>2
<1>5. /\ \A e \in Entries' : e \in AllEntries
      /\ item_array' # << >> => Top' \in Entries'
  <2>1. PICK t : t = item_array'
    OBVIOUS
  <2>2. Top' = t[1] /\ Entries' = ToSet(t) /\ AreEntries(t)
    BY <1>4, <2>1 DEF Top, Entries
  <2> QED BY <2>1, <2>2, EntriesAre
<1>6. TypeOK'
  <2>1. seen' \in Seq(Keys)
    <3>1. item_array' # << >> => Top'.key \in Keys
      BY <1>5 DEF AllEntries
    <3> QED BY <1>1, <1>2, <3>1 DEF TypeOK
  <2>2. /\ item_array' \in Seq([wid : Workers, key : Keys, own : BOOLEAN])
        /\ \A i, j \in DOMAIN item_array' : item_array'[i].wid = item_array'[j].wid => i = j
    BY <1>4 DEF AreEntries, AllEntries
  <2> QED BY <1>1, <1>2, <1>4, <2>1, <2>2 DEF TypeOK, swctx
<1>7. PhaseOK'
  BY <1>1, <1>2, <1>3 DEF PhaseOK, Held, Loading, swctx
<1>8. QueueOK => QueueOK' /\ WaitOK'
  BY <1>1 DEF QueueOK, WaitOK, Held, Loading, swctx
<1>9. EntriesOK => EntriesOK'
  <2> SUFFICES ASSUME EntriesOK, NEW e \in Entries'
               PROVE  /\ e.own => start \in Keys /\ e.wid = shard[start] /\ e.key = seek_key
                      /\ EntryOK(e)'
    BY <1>1 DEF EntriesOK
  <2>1. CASE e \in N
    BY <1>1, <1>4, <2>1 DEF EntryOK, swctx
  <2>2. CASE e \notin N
    <3>1. e \in Entries /\ e # Top
      BY <1>4, <2>2
    <3>2. e.wid # w /\ e.wid \in Workers /\ EntryOK(e)
      BY <1>2, <1>5, <3>1 DEF EntriesOK, AllEntries
    <3>3. per_worker_idx'[e.wid] = per_worker_idx[e.wid]
      BY <1>4, <3>2
    <3> QED BY <1>1, <1>2, <1>3, <3>1, <3>2, <3>3 DEF EntriesOK, EntryOK, swctx
  <2> QED BY <2>1, <2>2
<1>10. ~abandoned /\ SeekKeyKept => SeenOK' /\ OrderOK'
  <2> SUFFICES ASSUME ~abandoned, SeekKeyKept PROVE SeenOK' /\ OrderOK'
    OBVIOUS
  <2>1. SeenOK /\ OrderOK
    BY DEF IterInv
  <2>2. LET s == scan_res[Top.wid].items
            j == per_worker_idx[Top.wid]
        IN  /\ j < Len(s) =>
                 /\ s[j + 1] \in KeysOf(Top.wid) /\ Top.key < s[j + 1]
                 /\ Top.wid \in joined => \A k \in KeysOf(Top.wid) : Top.key < k => s[j + 1] <= k
            /\ j >= Len(s) =>
                 (Top.wid \in joined => \A k \in KeysOf(Top.wid) : k <= Top.key)
    BY <1>1, TopNext
  <2>3. \A e \in N : e.key = scan_res[w].items[per_worker_idx[w] + 1]
    BY <1>4 DEF NextEntry
  <2>4. \A e \in N : /\ e.wid = Top.wid /\ e.key \in KeysOf(Top.wid) /\ Top.key < e.key
                     /\ Top.wid \in joined =>
                          \A k \in KeysOf(Top.wid) : Top.key < k => e.key <= k
    BY <1>4, <2>2, <2>3
  <2>5. N = {} /\ Top.wid \in joined => \A k \in KeysOf(Top.wid) : k <= Top.key
    BY <1>4, <2>2
  <2> QED BY <1>1, <1>2, <1>4, <2>1, <2>4, <2>5, ScanGoesOn
<1>11. abandoned' = abandoned /\ (SeekKeyKept' <=> SeekKeyKept)
  BY <1>1 DEF SeekKeyKept
<1> QED BY <1>6, <1>7, <1>8, <1>9, <1>10, <1>11 DEF IterInv

-----------------------------------------------------------------------------
(* The theorems.                                                           *)

LEMMA InitEstablishes == Init => IterInv
<1> SUFFICES ASSUME Init PROVE IterInv
  OBVIOUS
<1>1. /\ 0 \in 0 .. DONE /\ 0 \in 0 .. MaxCommands /\ 1 \in Keys
  BY IteratorAssumption DEF DONE, Keys
<1>2. << >> \in Seq(Requests) /\ << >> \in Seq(Keys)
      /\ << >> \in Seq([wid : Workers, key : Keys, own : BOOLEAN]) /\ DOMAIN << >> = {}
  OBVIOUS
<1>3. TypeOK
  <2>1. queue \in [Workers -> Seq(Requests)]
    BY <1>2 DEF Init
  <2>2. per_worker_idx \in [Workers -> 0 .. DONE]
    BY <1>1 DEF Init
  <2> QED BY <1>1, <1>2, <2>1, <2>2 DEF Init, TypeOK
<1>4. Held(Workers) = {} /\ Cardinality(Held(Workers)) = 0 /\ 0 >= 0
  <2>1. Held(Workers) = {}
    BY DEF Init, Held
  <2> QED BY <2>1, FS_EmptySet
<1>5. Entries = {}
  BY ElemsEmpty DEF Init, Entries
<1>6. PhaseOK
  BY <1>4 DEF Init, PhaseOK, Loading
<1>7. QueueOK
  BY <1>2, <1>4 DEF Init, QueueOK, Loading
<1>8. WaitOK /\ EntriesOK
  BY <1>5 DEF Init, WaitOK, EntriesOK
<1>9. SeenOK /\ OrderOK
  BY <1>5, ElemsEmpty DEF Init, SeenOK, OrderOK
<1> QED BY <1>3, <1>6, <1>7, <1>8, <1>9 DEF IterInv

LEMMA IterInvAlways == Spec => []IterInv
<1>1. IterInv /\ [Next]_vars => IterInv'
  <2> SUFFICES ASSUME IterInv, [Next]_vars PROVE IterInv'
    OBVIOUS
  <2>1. CASE UNCHANGED vars
    BY <2>1, StutterKeeps
  <2>2. CASE User
    <3>1. FirstMergeCrash \/ NextCrash => Crash
      BY DEF FirstMergeCrash, NextCrash
    <3> QED BY <2>2, <3>1, SeekSubmitKeeps, SeekFailsKeeps, SeekFoundKeeps, SeekMergeKeeps,
               FirstSubmitKeeps, FirstMergeKeeps, LeaveLoadKeeps, NextLoadKeeps,
               NextItemKeeps, ReleaseKeeps, CrashKeeps DEF User
  <2>3. ASSUME NEW w \in Workers, SeekCb(w) \/ IterCb(w) \/ LateCallback(w) PROVE IterInv'
    <3>1. LateCallback(w) => Crash
      BY DEF LateCallback
    <3> QED BY <2>3, <3>1, SeekCbKeeps, IterCbKeeps, CrashKeeps
  <2> QED BY <2>1, <2>2, <2>3 DEF Next
<1> QED BY <1>1, InitEstablishes, PTL DEF Spec

\* Every index stays in its batch, every item in the heap is of another worker,
\* and the count of live batches never falls below zero.
THEOREM IteratorTypeCorrect == Spec => []TypeOK
<1>1. IterInv => TypeOK
  BY DEF IterInv
<1> QED BY <1>1, IterInvAlways, PTL

\* The batches that live are those scan_res points to: _reset_scan_res and
\* kv_iterator_first free each once, and a late or failed answer leaks none.
THEOREM IteratorBatchesOwned == Spec => []BatchesOwned
<1>1. IterInv => BatchesOwned
  BY DEF IterInv, QueueOK, BatchesOwned
<1> QED BY <1>1, IterInvAlways, PTL

\* Between two calls the user's item is never one of a freed batch.
THEOREM IteratorItemsAlive == Spec => []ItemsAlive
<1>1. ASSUME IterInv PROVE ItemsAlive
  <2> SUFFICES ASSUME pc = "idle", ~abandoned, NEW i \in DOMAIN item_array, ~item_array[i].own
               PROVE  LET e == item_array[i]
                      IN  /\ scan_res[e.wid] # NULL
                          /\ per_worker_idx[e.wid] \in DOMAIN scan_res[e.wid].items
                          /\ e.key = scan_res[e.wid].items[per_worker_idx[e.wid]]
    BY DEF ItemsAlive
  <2>1. item_array[i] \in Entries /\ EntriesOK
    BY <1>1 DEF IterInv, Entries, ToSet
  <2> QED BY <2>1 DEF EntriesOK, EntryOK, Merged
<1> QED BY <1>1, IterInvAlways, PTL

\* A scan returns the sought key and stored keys above it, none of them twice.
THEOREM IteratorSeenOnce == Spec => []SeenOnce
<1>1. ASSUME IterInv PROVE SeenOnce
  <2> SUFFICES ASSUME SeekKeyKept, ~abandoned
               PROVE  /\ IsInjective(seen)
                      /\ \A i \in DOMAIN seen :
                           seen[i] = start \/ (seen[i] \in stored /\ seen[i] > start)
    BY DEF SeenOnce
  <2>1. SeenOK
    BY <1>1 DEF IterInv
  <2>2. \A i \in DOMAIN seen : seen[i] \in ToSet(seen)
    BY DEF ToSet
  <2> QED BY <2>1, <2>2 DEF SeenOK
<1> QED BY <1>1, IterInvAlways, PTL

\* When all items have been iterated, every key of a merged worker was returned.
THEOREM IteratorNothingSkipped == Spec => []NothingSkipped
<1>1. ASSUME IterInv PROVE NothingSkipped
  <2> SUFFICES ASSUME SeekKeyKept, ~abandoned, pc = "idle", item_array = << >>,
                      NEW w \in joined, NEW k \in KeysOf(w), k >= start
               PROVE  k \in ToSet(seen)
    BY DEF NothingSkipped
  <2>1. OrderOK /\ Entries = {}
    BY <1>1, EntriesTyped DEF IterInv
  <2> QED BY <2>1 DEF OrderOK, Merged
<1> QED BY <1>1, IterInvAlways, PTL
=============================================================================
