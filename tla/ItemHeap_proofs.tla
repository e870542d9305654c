-------------------------- MODULE ItemHeap_proofs --------------------------
(***************************************************************************)
(* What _heap_adjust and _make_heap do to an array of any length, for any  *)
(* order of its items: they move items and lose none.                      *)
(***************************************************************************)
EXTENDS ItemHeap, FunctionTheorems, NaturalsInduction, WellFoundedInduction, TLAPS

(***************************************************************************)
(* HeapAdjust without its recursion: the call it ends with has its last    *)
(* two arguments exchanged, and returns at once.                           *)
(***************************************************************************)
Sifted(b, i, n) ==
  LET left  == 2 * i + 1
      right == 2 * i + 2
  IN  IF left > n - 1 THEN b
      ELSE IF left = n - 1
      THEN IF Less(b[i], b[left]) THEN Swapped(b, i, left) ELSE b
      ELSE IF Less(b[i], b[left]) \/ Less(b[i], b[right])
      THEN Swapped(b, i, IF Less(b[left], b[right]) THEN right ELSE left)
      ELSE b

\* The first n items of a are there.
IsArray(a, n) == a = [x \in DOMAIN a |-> a[x]] /\ 0 .. n - 1 \subseteq DOMAIN a

LEMMA SwappedIsArray ==
  ASSUME NEW b, NEW n, IsArray(b, n), NEW i \in DOMAIN b, NEW j \in DOMAIN b
  PROVE  /\ IsArray(Swapped(b, i, j), n) /\ DOMAIN Swapped(b, i, j) = DOMAIN b
         /\ \A x \in DOMAIN b : Swapped(b, i, j)[x] = IF x = j THEN b[i]
                                               ELSE IF x = i THEN b[j] ELSE b[x]
  BY DEF Swapped, IsArray

LEMMA AdjustIsSifted ==
  ASSUME NEW a, NEW n \in Nat, IsArray(a, n), NEW i \in 0 .. n
  PROVE  HeapAdjust(a, i, n) = Sifted(a, i, n)
<1> DEFINE Arrays == [DOMAIN a -> Range(a)]
           Calls  == Arrays \X (0 .. n) \X (0 .. n)
           Body(f, call) ==
             LET b     == call[1]
                 k     == call[2]
                 m     == call[3]
                 left  == 2 * k + 1
                 right == 2 * k + 2
             IN  IF left > m - 1 THEN b
                 ELSE IF left = m - 1
                 THEN IF Less(b[k], b[left]) THEN Swapped(b, k, left) ELSE b
                 ELSE IF Less(b[k], b[left]) \/ Less(b[k], b[right])
                 THEN LET child == IF Less(b[left], b[right]) THEN right ELSE left
                      IN  f[<<Swapped(b, k, child), m, child>>]
                 ELSE b
           Is(f) == f = [call \in Calls |-> Body(f, call)]
           adjust == CHOOSE f : Is(f)
           g == [call \in Calls |-> Sifted(call[1], call[2], call[3])]
<1>1. HeapAdjust(a, i, n) = adjust[<<a, i, n>>]
  BY Zenon DEF HeapAdjust
<1>2. a \in Arrays /\ 0 .. n - 1 \subseteq DOMAIN a
  BY DEF Range, IsArray
<1>3. ASSUME NEW f, NEW b \in Arrays, NEW k \in 0 .. n, NEW m \in 0 .. n,
             \A c \in Arrays, q \in 0 .. n, p \in 0 .. n :
                2 * q + 1 > p - 1 => f[<<c, q, p>>] = c
      PROVE  Body(f, <<b, k, m>>) = Sifted(b, k, m)
  <2> DEFINE left  == 2 * k + 1
             right == 2 * k + 2
             child == IF Less(b[left], b[right]) THEN right ELSE left
             called == f[<<Swapped(b, k, child), m, child>>]
  <2>1. <<b, k, m>>[1] = b /\ <<b, k, m>>[2] = k /\ <<b, k, m>>[3] = m
    OBVIOUS
  <2>2. Body(f, <<b, k, m>>) =
          IF left > m - 1 THEN b
          ELSE IF left = m - 1
          THEN IF Less(b[k], b[left]) THEN Swapped(b, k, left) ELSE b
          ELSE IF Less(b[k], b[left]) \/ Less(b[k], b[right]) THEN called
          ELSE b
    BY <2>1, Zenon
  <2>3. ASSUME ~(left > m - 1), left # m - 1
        PROVE  called = Swapped(b, k, child)
    <3>1. child \in 0 .. m - 1 /\ k \in 0 .. n - 1 /\ child \in 0 .. n /\ m \in 0 .. n
      BY <2>3
    <3>2. Swapped(b, k, child) \in Arrays
      <4>1. k \in DOMAIN a /\ child \in DOMAIN a
        BY <1>2, <3>1
      <4>2. PICK D, S : D = DOMAIN a /\ S = Range(a)
        OBVIOUS
      <4>3. b \in [D -> S] /\ k \in D /\ child \in D
        BY <4>1, <4>2
      <4> HIDE DEF child
      <4>4. Swapped(b, k, child) \in [D -> S]
        BY <4>3 DEF Swapped
      <4> QED BY <4>2, <4>4
    <3>3. 2 * m + 1 > child - 1
      BY <3>1
    <3> HIDE DEF child
    <3> QED BY <1>3, <3>1, <3>2, <3>3
  <2> HIDE DEF called, Body
  <2>4. CASE left > m - 1
    BY <2>2, <2>4 DEF Sifted
  <2>5. CASE left = m - 1
    BY <2>2, <2>5 DEF Sifted
  <2>6. CASE ~(left > m - 1) /\ left # m - 1
    BY <2>2, <2>3, <2>6 DEF Sifted
  <2> QED BY <2>4, <2>5, <2>6
<1>4. Is(g)
  <2>1. ASSUME NEW c \in Arrays, NEW q \in 0 .. n, NEW p \in 0 .. n
        PROVE  g[<<c, q, p>>] = Sifted(c, q, p)
    <3>1. <<c, q, p>> \in Calls
      OBVIOUS
    <3> QED BY <3>1
  <2>2. \A c \in Arrays, q \in 0 .. n, p \in 0 .. n :
          2 * q + 1 > p - 1 => g[<<c, q, p>>] = c
    BY <2>1 DEF Sifted
  <2>3. ASSUME NEW call \in Calls PROVE Sifted(call[1], call[2], call[3]) = Body(g, call)
    <3>1. PICK b \in Arrays, k \in 0 .. n, m \in 0 .. n : call = <<b, k, m>>
      OBVIOUS
    <3> HIDE DEF g, Body
    <3> QED BY <1>3, <2>2, <3>1
  <2> HIDE DEF Body
  <2> QED BY <2>3
<1>5. Is(adjust)
  <2> HIDE DEF Is, g
  <2> QED BY <1>4, Zenon
<1>6. ASSUME NEW b \in Arrays, NEW k \in 0 .. n, NEW m \in 0 .. n
      PROVE  adjust[<<b, k, m>>] = Body(adjust, <<b, k, m>>)
  <2>1. <<b, k, m>> \in Calls
    OBVIOUS
  <2> HIDE DEF adjust, Body, Calls
  <2> QED BY <1>5, <2>1
<1>7. \A c \in Arrays, q \in 0 .. n, p \in 0 .. n :
        2 * q + 1 > p - 1 => adjust[<<c, q, p>>] = c
  <2> SUFFICES ASSUME NEW c \in Arrays, NEW q \in 0 .. n, NEW p \in 0 .. n, 2 * q + 1 > p - 1
               PROVE  adjust[<<c, q, p>>] = c
    OBVIOUS
  <2>1. adjust[<<c, q, p>>] = Body(adjust, <<c, q, p>>)
    <3> HIDE DEF adjust, Body
    <3> QED BY <1>6
  <2> HIDE DEF adjust
  <2>2. Body(adjust, <<c, q, p>>) = c
    OBVIOUS
  <2> QED BY <2>1, <2>2
<1>8. i \in 0 .. n /\ n \in 0 .. n
  OBVIOUS
<1>9. adjust[<<a, i, n>>] = Sifted(a, i, n)
  <2> HIDE DEF adjust, Body, Arrays
  <2> QED BY <1>2, <1>3, <1>6, <1>7, <1>8
<1> HIDE DEF adjust
<1> QED BY <1>1, <1>9

-----------------------------------------------------------------------------
(* Rearrangements of the first n items.                                    *)

Rearranges(a, b, n, p) ==
  /\ DOMAIN b = DOMAIN a
  /\ p \in Bijection(0 .. n - 1, 0 .. n - 1)
  /\ \A x \in 0 .. n - 1 : b[x] = a[p[x]]
  /\ \A x \in DOMAIN a \ (0 .. n - 1) : b[x] = a[x]

Rearranged(a, b, n) == \E p : Rearranges(a, b, n, p)

LEMMA RearrangedItself ==
  ASSUME NEW a, NEW n \in Nat
  PROVE  Rearranged(a, a, n)
<1>1. PICK p : p = [x \in 0 .. n - 1 |-> x]
  OBVIOUS
<1>2. p \in Bijection(0 .. n - 1, 0 .. n - 1)
  BY <1>1 DEF Bijection, Injection, Surjection, IsInjective
<1> QED BY <1>1, <1>2 DEF Rearranged, Rearranges

LEMMA RearrangedTwice ==
  ASSUME NEW a, NEW b, NEW c, NEW n \in Nat, Rearranged(a, b, n), Rearranged(b, c, n)
  PROVE  Rearranged(a, c, n)
<1>1. PICK p, q : Rearranges(a, b, n, p) /\ Rearranges(b, c, n, q)
  BY DEF Rearranged
<1>2. PICK N : N = 0 .. n - 1
  OBVIOUS
<1>3. p \in Bijection(N, N) /\ q \in Bijection(N, N)
  BY <1>1, <1>2 DEF Rearranges
<1>4. /\ p \in [N -> N] /\ \A x, y \in N : p[x] = p[y] => x = y
      /\ \A y \in N : \E x \in N : p[x] = y
  BY <1>3 DEF Bijection, Injection, Surjection, IsInjective
<1>5. /\ q \in [N -> N] /\ \A x, y \in N : q[x] = q[y] => x = y
      /\ \A y \in N : \E x \in N : q[x] = y
  BY <1>3 DEF Bijection, Injection, Surjection, IsInjective
<1>6. PICK r : r = [x \in N |-> p[q[x]]]
  OBVIOUS
<1>7. r \in [N -> N] /\ \A x \in N : r[x] = p[q[x]]
  BY <1>4, <1>5, <1>6
<1>8. r \in Bijection(N, N)
  <2>1. \A x, y \in N : r[x] = r[y] => x = y
    BY <1>4, <1>5, <1>7
  <2>2. \A y \in N : \E x \in N : r[x] = y
    BY <1>4, <1>5, <1>7
  <2> QED BY <1>7, <2>1, <2>2, Zenon DEF Bijection, Injection, Surjection, IsInjective
<1>9. \A x \in N : c[x] = a[r[x]]
  <2>1. \A x \in N : b[x] = a[p[x]] /\ c[x] = b[q[x]]
    BY <1>1, <1>2 DEF Rearranges
  <2> QED BY <2>1, <1>5, <1>7
<1>10. DOMAIN c = DOMAIN a /\ \A x \in DOMAIN a \ N : c[x] = a[x]
  BY <1>1, <1>2 DEF Rearranges
<1> QED BY <1>2, <1>8, <1>9, <1>10 DEF Rearranged, Rearranges

LEMMA RearrangedBySwap ==
  ASSUME NEW a, NEW n \in Nat, IsArray(a, n), NEW i \in 0 .. n - 1, NEW j \in 0 .. n - 1
  PROVE  Rearranged(a, Swapped(a, i, j), n)
<1>1. PICK N : N = 0 .. n - 1
  OBVIOUS
<1>2. PICK p : p = [x \in N |-> IF x = j THEN i ELSE IF x = i THEN j ELSE x]
  OBVIOUS
<1>3. p \in [N -> N] /\ \A x \in N : p[x] = IF x = j THEN i ELSE IF x = i THEN j ELSE x
  BY <1>1, <1>2
<1>4. p \in Bijection(N, N)
  <2>1. \A x, y \in N : p[x] = p[y] => x = y
    BY <1>1, <1>3
  <2>2. \A y \in N : \E x \in N : p[x] = y
    BY <1>1, <1>3
  <2> QED BY <1>3, <2>1, <2>2, Zenon DEF Bijection, Injection, Surjection, IsInjective
<1>5. /\ \A x \in N : Swapped(a, i, j)[x] = a[p[x]]
      /\ \A x \in DOMAIN a \ N : Swapped(a, i, j)[x] = a[x]
  <2>1. /\ i \in DOMAIN a /\ j \in DOMAIN a /\ i \in N /\ j \in N
        /\ N \subseteq DOMAIN a
    BY <1>1 DEF IsArray
  <2>2. \A x \in DOMAIN a : Swapped(a, i, j)[x] = IF x = j THEN a[i]
                                                  ELSE IF x = i THEN a[j] ELSE a[x]
    BY <2>1, SwappedIsArray
  <2> QED BY <1>3, <2>1, <2>2
<1>6. DOMAIN Swapped(a, i, j) = DOMAIN a
  BY DEF Swapped
<1> QED BY <1>1, <1>4, <1>5, <1>6 DEF Rearranged, Rearranges

LEMMA AdjustRearranges ==
  ASSUME NEW a, NEW n \in Nat, IsArray(a, n), NEW i \in 0 .. n
  PROVE  IsArray(HeapAdjust(a, i, n), n) /\ Rearranged(a, HeapAdjust(a, i, n), n)
<1>1. HeapAdjust(a, i, n) = Sifted(a, i, n)
  BY AdjustIsSifted
<1>2. Sifted(a, i, n) = a
      \/ \E j \in 0 .. n - 1 : i \in 0 .. n - 1 /\ Sifted(a, i, n) = Swapped(a, i, j)
  <2> DEFINE left == 2 * i + 1
             right == 2 * i + 2
  <2>1. left <= n - 1 => left \in 0 .. n - 1 /\ i \in 0 .. n - 1
    OBVIOUS
  <2>2. left <= n - 1 /\ left # n - 1 => right \in 0 .. n - 1
    OBVIOUS
  <2>3. Sifted(a, i, n) =
          IF left > n - 1 THEN a
          ELSE IF left = n - 1
          THEN IF Less(a[i], a[left]) THEN Swapped(a, i, left) ELSE a
          ELSE IF Less(a[i], a[left]) \/ Less(a[i], a[right])
          THEN Swapped(a, i, IF Less(a[left], a[right]) THEN right ELSE left)
          ELSE a
    BY DEF Sifted
  <2>4. left \in Int /\ right \in Int
    OBVIOUS
  <2> HIDE DEF left, right
  <2> QED BY <2>1, <2>2, <2>3, <2>4
<1>3. Rearranged(a, a, n)
  BY RearrangedItself
<1>4. ASSUME NEW j \in 0 .. n - 1, i \in 0 .. n - 1
      PROVE  IsArray(Swapped(a, i, j), n) /\ Rearranged(a, Swapped(a, i, j), n)
  <2>1. i \in DOMAIN a /\ j \in DOMAIN a
    BY <1>4 DEF IsArray
  <2> QED BY <1>4, <2>1, RearrangedBySwap, SwappedIsArray
<1> QED BY <1>1, <1>2, <1>3, <1>4

-----------------------------------------------------------------------------
(* _make_heap, from the last item down to the first.                       *)

LEMMA LeastOf ==
  ASSUME NEW T \in SUBSET Nat, T # {}
  PROVE  \E x \in T : \A y \in T : x <= y
<1>1. PICK x \in T : \A y \in T : ~ (<<y, x>> \in OpToRel(<, Nat))
  BY NatLessThanWellFounded, WFMin
<1>2. \A y \in T : ~(y < x)
  BY <1>1 DEF OpToRel
<1> QED BY <1>2

\* Induction from n down to 0, on a set instead of a predicate.
LEMMA DownTo ==
  ASSUME NEW n \in Nat, NEW T, n \in T, \A i \in 0 .. n - 1 : i + 1 \in T => i \in T
  PROVE  \A i \in 0 .. n : i \in T
<1>1. PICK U : U = {k \in 0 .. n : n - k \notin T}
  OBVIOUS
<1>2. U = {}
  <2> SUFFICES ASSUME U # {} PROVE FALSE
    OBVIOUS
  <2>1. U \in SUBSET Nat
    BY <1>1
  <2>2. PICK k \in U : \A j \in U : k <= j
    BY <2>1, LeastOf
  <2>3. k \in 1 .. n /\ n - k \notin T
    BY <1>1, <2>2
  <2>4. k - 1 \notin U /\ k - 1 \in 0 .. n
    BY <2>2, <2>3
  <2>5. n - (k - 1) \in T /\ n - (k - 1) = n - k + 1 /\ n - k \in 0 .. n - 1
    BY <1>1, <2>3, <2>4
  <2> QED BY <2>3, <2>5
<1>3. ASSUME NEW i \in 0 .. n PROVE i \in T
  <2>1. n - i \in 0 .. n /\ n - (n - i) = i /\ n - i \notin U
    BY <1>2
  <2> QED BY <1>1, <2>1
<1> QED BY <1>3

\* g holds the arrays of the loop, from its beginning until item m is done.
Loop(a, n, m, g) ==
  /\ g = [i \in m .. n |-> g[i]] /\ g[n] = a
  /\ \A i \in m .. n - 1 : g[i] = HeapAdjust(g[i + 1], i, n)

LEMMA LoopGoesOn ==
  ASSUME NEW a, NEW n \in Nat, NEW m \in 0 .. n - 1, NEW g, Loop(a, n, m + 1, g)
  PROVE  \E h : Loop(a, n, m, h)
<1>1. PICK h : h = [i \in m .. n |-> IF i = m THEN HeapAdjust(g[m + 1], m, n) ELSE g[i]]
  OBVIOUS
<1>2. g[n] = a /\ \A i \in m + 1 .. n - 1 : g[i] = HeapAdjust(g[i + 1], i, n)
  BY DEF Loop
<1>6. h = [i \in m .. n |-> h[i]] /\ h[n] = a
  BY <1>1, <1>2
<1>7. ASSUME NEW i \in m .. n - 1 PROVE h[i] = HeapAdjust(h[i + 1], i, n)
  <2>1. i \in m .. n /\ i + 1 \in m .. n /\ i + 1 # m
    OBVIOUS
  <2>2. h[i + 1] = g[i + 1]
    BY <1>1, <2>1
  <2>3. CASE i = m
    BY <1>1, <2>1, <2>2, <2>3
  <2>4. CASE i # m
    <3>1. i \in m + 1 .. n - 1
      BY <2>4
    <3>2. h[i] = g[i]
      BY <1>1, <2>1, <2>4
    <3> QED BY <1>2, <2>2, <3>1, <3>2
  <2> QED BY <2>3, <2>4
<1> QED BY <1>6, <1>7 DEF Loop

LEMMA MakeHeapIsLoop ==
  ASSUME NEW a, NEW n \in Nat
  PROVE  \E g : Loop(a, n, 0, g) /\ MakeHeap(a, n) = g[0]
<1> DEFINE Is(f) == f = [i \in 0 .. n |-> IF i = n THEN a ELSE HeapAdjust(f[i + 1], i, n)]
           made == CHOOSE f : Is(f)
<1>1. MakeHeap(a, n) = made[0]
  BY Zenon DEF MakeHeap
<1>2. \A m \in 0 .. n : \E g : Loop(a, n, m, g)
  <2>1. PICK T : T = {m \in 0 .. n : \E g : Loop(a, n, m, g)}
    OBVIOUS
  <2>2. n \in T
    <3>1. PICK g : g = [i \in n .. n |-> a]
      OBVIOUS
    <3>2. Loop(a, n, n, g)
      <4> QED BY <3>1 DEF Loop
    <3> QED BY <2>1, <3>2
  <2>3. \A m \in 0 .. n - 1 : m + 1 \in T => m \in T
    BY <2>1, LoopGoesOn
  <2>4. \A m \in 0 .. n : m \in T
    BY <2>2, <2>3, DownTo
  <2> QED BY <2>1, <2>4
<1>3. 0 \in 0 .. n
  OBVIOUS
<1>4. PICK g : Loop(a, n, 0, g)
  BY <1>2, <1>3
<1>5. Is(g)
  <2>1. /\ g = [i \in 0 .. n |-> g[i]] /\ g[n] = a
        /\ \A i \in 0 .. n - 1 : g[i] = HeapAdjust(g[i + 1], i, n)
    BY <1>4, Zenon DEF Loop
  <2>2. ASSUME NEW i \in 0 .. n
        PROVE  g[i] = IF i = n THEN a ELSE HeapAdjust(g[i + 1], i, n)
    <3>1. i = n \/ i \in 0 .. n - 1
      OBVIOUS
    <3> QED BY <2>1, <3>1
  <2> QED BY <2>1, <2>2
<1>6. Is(made)
  <2> HIDE DEF Is
  <2> QED BY <1>5, Zenon
<1> HIDE DEF made
<1>7. \A i \in 0 .. n : made[i] = IF i = n THEN a ELSE HeapAdjust(made[i + 1], i, n)
  BY <1>6
<1>8. \A i \in 0 .. n : made[i] = g[i]
  <2>1. PICK T : T = {i \in 0 .. n : made[i] = g[i]}
    OBVIOUS
  <2>2. n \in T
    <3>1. n \in 0 .. n
      OBVIOUS
    <3> QED BY <1>4, <1>7, <2>1, <3>1 DEF Loop
  <2>3. ASSUME NEW i \in 0 .. n - 1, i + 1 \in T PROVE i \in T
    <3>1. i \in 0 .. n /\ i # n
      OBVIOUS
    <3> QED BY <1>4, <1>7, <2>1, <2>3, <3>1 DEF Loop
  <2>4. \A i \in 0 .. n : i \in T
    BY <2>2, <2>3, DownTo
  <2> QED BY <2>1, <2>4
<1> QED BY <1>1, <1>3, <1>4, <1>8

\* _make_heap loses no item and doubles none.
LEMMA MakeHeapRearranges ==
  ASSUME NEW a, NEW n \in Nat, IsArray(a, n)
  PROVE  IsArray(MakeHeap(a, n), n) /\ Rearranged(a, MakeHeap(a, n), n)
<1>1. PICK g : Loop(a, n, 0, g) /\ MakeHeap(a, n) = g[0]
  BY MakeHeapIsLoop
<1>2. PICK T : T = {i \in 0 .. n : IsArray(g[i], n) /\ Rearranged(a, g[i], n)}
  OBVIOUS
<1>3. n \in T
  BY <1>1, <1>2, RearrangedItself DEF Loop
<1>4. ASSUME NEW i \in 0 .. n - 1, i + 1 \in T PROVE i \in T
  <2>1. g[i] = HeapAdjust(g[i + 1], i, n)
    BY <1>1 DEF Loop
  <2>2. IsArray(g[i + 1], n) /\ Rearranged(a, g[i + 1], n)
    BY <1>2, <1>4
  <2>3. i \in 0 .. n
    OBVIOUS
  <2>4. IsArray(g[i], n) /\ Rearranged(g[i + 1], g[i], n)
    BY <2>1, <2>2, <2>3, AdjustRearranges
  <2>5. Rearranged(a, g[i], n)
    BY <2>2, <2>4, RearrangedTwice
  <2> QED BY <1>2, <2>3, <2>4, <2>5
<1>5. \A i \in 0 .. n : i \in T
  BY <1>3, <1>4, DownTo
<1>6. 0 \in 0 .. n
  OBVIOUS
<1> QED BY <1>1, <1>2, <1>5, <1>6

=============================================================================
