-------------------------- MODULE StructureLemmas ---------------------------
(***************************************************************************)
(* Facts about the data the models are built from: the elements of a       *)
(* sequence, for the queues, caches and merged scans, and search trees, for*)
(* the map of BTree.  A tree is a function from addresses to nodes; what the*)
(* operations of the map do to it is said here by what stays and what moves,*)
(* and MCContainers_proofs shows that they do it.                          *)
(***************************************************************************)
EXTENDS SequencesExt, SequenceTheorems, FiniteSetTheorems, WellFoundedInduction, TLAPS

(***************************************************************************)
(* The elements of a sequence.                                             *)
(***************************************************************************)
LEMMA ElemsOf ==
  ASSUME NEW S, NEW s \in Seq(S)
  PROVE  ToSet(s) = {s[i] : i \in 1 .. Len(s)} /\ ToSet(s) \subseteq S
  BY LenProperties DEF ToSet

LEMMA ElemsConcat ==
  ASSUME NEW S, NEW s \in Seq(S), NEW t \in Seq(S)
  PROVE  ToSet(s \o t) = ToSet(s) \cup ToSet(t)
<1>1. s \o t \in Seq(S) /\ Len(s \o t) = Len(s) + Len(t)
  BY ConcatProperties
<1>2. \A i \in 1 .. Len(s) + Len(t) :
        (s \o t)[i] = IF i <= Len(s) THEN s[i] ELSE t[i - Len(s)]
  BY ConcatProperties
<1>3. Len(s) \in Nat /\ Len(t) \in Nat
  BY LenProperties
<1>4. ASSUME NEW i \in 1 .. Len(t) PROVE \E j \in 1 .. Len(s \o t) : (s \o t)[j] = t[i]
  <2>1. i + Len(s) \in 1 .. Len(s) + Len(t) /\ ~(i + Len(s) <= Len(s))
           /\ i + Len(s) - Len(s) = i
    BY <1>3
  <2> QED BY <1>1, <1>2, <2>1
<1>5. ASSUME NEW i \in 1 .. Len(s) PROVE \E j \in 1 .. Len(s \o t) : (s \o t)[j] = s[i]
  BY <1>1, <1>2, <1>3
<1>6. ASSUME NEW i \in 1 .. Len(s \o t)
      PROVE  \/ \E j \in 1 .. Len(s) : (s \o t)[i] = s[j]
             \/ \E j \in 1 .. Len(t) : (s \o t)[i] = t[j]
  <2>1. CASE i <= Len(s)
    BY <1>1, <1>2, <1>3, <2>1
  <2>2. CASE ~(i <= Len(s))
    <3>1. i - Len(s) \in 1 .. Len(t)
      BY <1>1, <1>3, <2>2
    <3> QED BY <1>1, <1>2, <2>2, <3>1
  <2> QED BY <2>1, <2>2
<1>7. /\ ToSet(s) = {s[i] : i \in 1 .. Len(s)}
      /\ ToSet(t) = {t[i] : i \in 1 .. Len(t)}
      /\ ToSet(s \o t) = {(s \o t)[i] : i \in 1 .. Len(s \o t)}
  BY <1>1, ElemsOf
<1>8. ToSet(s) \subseteq ToSet(s \o t)
  BY <1>5, <1>7
<1>9. ToSet(t) \subseteq ToSet(s \o t)
  BY <1>4, <1>7
<1>10. ToSet(s \o t) \subseteq ToSet(s) \cup ToSet(t)
  BY <1>6, <1>7
<1> QED BY <1>8, <1>9, <1>10

LEMMA DistinctConcat ==
  ASSUME NEW S, NEW s \in Seq(S), NEW t \in Seq(S)
  PROVE  IsInjective(s \o t) <=> /\ IsInjective(s) /\ IsInjective(t)
                              /\ ToSet(s) \cap ToSet(t) = {}
<1>1. /\ Len(s) \in Nat /\ Len(t) \in Nat
      /\ DOMAIN s = 1 .. Len(s) /\ DOMAIN t = 1 .. Len(t)
      /\ DOMAIN (s \o t) = 1 .. Len(s) + Len(t)
  BY ConcatProperties, LenProperties
<1>2. \A i \in 1 .. Len(s) : i \in 1 .. Len(s) + Len(t) /\ (s \o t)[i] = s[i]
  BY <1>1, ConcatProperties
<1>3. \A i \in 1 .. Len(t) : i + Len(s) \in 1 .. Len(s) + Len(t)
                              /\ (s \o t)[i + Len(s)] = t[i]
  <2> SUFFICES ASSUME NEW i \in 1 .. Len(t)
               PROVE  i + Len(s) \in 1 .. Len(s) + Len(t) /\ (s \o t)[i + Len(s)] = t[i]
    OBVIOUS
  <2>1. i + Len(s) \in 1 .. Len(s) + Len(t) /\ ~(i + Len(s) <= Len(s))
           /\ i + Len(s) - Len(s) = i
    BY <1>1
  <2> QED BY <2>1, ConcatProperties
<1>4. ASSUME NEW i \in 1 .. Len(s) + Len(t), ~(i \in 1 .. Len(s))
      PROVE  i - Len(s) \in 1 .. Len(t) /\ i = (i - Len(s)) + Len(s)
  BY <1>1, <1>4
<1>5. ASSUME IsInjective(s \o t)
      PROVE  IsInjective(s) /\ IsInjective(t) /\ ToSet(s) \cap ToSet(t) = {}
  <2>1. IsInjective(s)
    BY <1>1, <1>2, <1>5 DEF IsInjective
  <2>2. ASSUME NEW i \in 1 .. Len(t), NEW j \in 1 .. Len(t), t[i] = t[j]
        PROVE  i = j
    <3>1. i + Len(s) = j + Len(s)
      BY <1>1, <1>3, <1>5, <2>2 DEF IsInjective
    <3> QED BY <1>1, <3>1
  <2>3. ASSUME NEW i \in 1 .. Len(s), NEW j \in 1 .. Len(t), s[i] = t[j]
        PROVE  FALSE
    <3>1. i = j + Len(s)
      BY <1>1, <1>2, <1>3, <1>5, <2>3 DEF IsInjective
    <3> QED BY <1>1, <3>1
  <2> QED BY <1>1, <2>1, <2>2, <2>3 DEF IsInjective, ToSet
<1>6. ASSUME IsInjective(s), IsInjective(t), ToSet(s) \cap ToSet(t) = {}
      PROVE  IsInjective(s \o t)
  <2> SUFFICES ASSUME NEW i \in 1 .. Len(s) + Len(t), NEW j \in 1 .. Len(s) + Len(t),
                      (s \o t)[i] = (s \o t)[j]
               PROVE  i = j
    BY <1>1 DEF IsInjective
  <2>1. CASE i \in 1 .. Len(s) /\ j \in 1 .. Len(s)
    BY <1>1, <1>2, <1>6, <2>1 DEF IsInjective
  <2>2. CASE i \in 1 .. Len(s) /\ ~(j \in 1 .. Len(s))
    <3>1. s[i] = t[j - Len(s)] /\ j - Len(s) \in 1 .. Len(t)
      BY <1>2, <1>3, <1>4, <2>2
    <3> QED BY <1>1, <1>6, <2>2, <3>1 DEF ToSet
  <2>3. CASE ~(i \in 1 .. Len(s)) /\ j \in 1 .. Len(s)
    <3>1. s[j] = t[i - Len(s)] /\ i - Len(s) \in 1 .. Len(t)
      BY <1>2, <1>3, <1>4, <2>3
    <3> QED BY <1>1, <1>6, <2>3, <3>1 DEF ToSet
  <2>4. CASE ~(i \in 1 .. Len(s)) /\ ~(j \in 1 .. Len(s))
    <3>1. i - Len(s) \in 1 .. Len(t) /\ j - Len(s) \in 1 .. Len(t)
            /\ t[i - Len(s)] = t[j - Len(s)]
      BY <1>3, <1>4, <2>4
    <3>2. i - Len(s) = j - Len(s)
      BY <1>1, <1>6, <3>1 DEF IsInjective
    <3> QED BY <1>1, <3>2
  <2> QED BY <2>1, <2>2, <2>3, <2>4
<1> QED BY <1>5, <1>6

LEMMA ElemsEmpty == ToSet(<< >>) = {} /\ IsInjective(<< >>)
  BY DEF ToSet, IsInjective

LEMMA ElemsSingleton ==
  ASSUME NEW x
  PROVE  ToSet(<<x>>) = {x} /\ IsInjective(<<x>>)
<1>1. DOMAIN <<x>> = {1} /\ <<x>>[1] = x
  OBVIOUS
<1> QED BY <1>1 DEF ToSet, IsInjective

LEMMA ElemsHeadTail ==
  ASSUME NEW S, NEW s \in Seq(S), s # << >>
  PROVE  /\ Head(s) \in S /\ Tail(s) \in Seq(S)
         /\ ToSet(s) = {Head(s)} \cup ToSet(Tail(s))
         /\ IsInjective(s) => IsInjective(Tail(s)) /\ Head(s) \notin ToSet(Tail(s))
<1>1. Len(s) \in Nat \ {0}
  BY EmptySeq
<1>2. Head(s) \in S /\ Tail(s) \in Seq(S) /\ Head(s) = s[1]
  BY HeadTailProperties
<1>3. s = <<s[1]>> \o SubSeq(s, 2, Len(s))
  BY <1>1, SubSeqFull, SubSeqRecursiveFirst
<1>4. s = <<Head(s)>> \o Tail(s)
  BY <1>2, <1>3, TailIsSubSeq
<1>5. <<Head(s)>> \in Seq(S)
  BY <1>2
<1>6. ToSet(s) = ToSet(<<Head(s)>>) \cup ToSet(Tail(s))
  <2>1. PICK t, u : t = <<Head(s)>> /\ u = Tail(s)
    OBVIOUS
  <2>2. t \in Seq(S) /\ u \in Seq(S)
    BY <1>2, <1>5, <2>1, Zenon
  <2>3. ToSet(t \o u) = ToSet(t) \cup ToSet(u)
    BY <2>2, ElemsConcat
  <2> QED BY <1>4, <2>1, <2>3, Zenon
<1>7. IsInjective(s) => IsInjective(Tail(s)) /\ ToSet(<<Head(s)>>) \cap ToSet(Tail(s)) = {}
  <2>1. PICK t, u : t = <<Head(s)>> /\ u = Tail(s)
    OBVIOUS
  <2>2. IsInjective(t \o u) <=> IsInjective(t) /\ IsInjective(u) /\ ToSet(t) \cap ToSet(u) = {}
    BY <1>2, <1>5, <2>1, DistinctConcat
  <2> QED BY <1>4, <2>1, <2>2, Zenon
<1> QED BY <1>2, <1>6, <1>7, ElemsSingleton

LEMMA ElemsAppend ==
  ASSUME NEW S, NEW s \in Seq(S), NEW x \in S
  PROVE  /\ Append(s, x) \in Seq(S)
         /\ ToSet(Append(s, x)) = ToSet(s) \cup {x}
         /\ IsInjective(Append(s, x)) <=> IsInjective(s) /\ x \notin ToSet(s)
<1>1. Append(s, x) = s \o <<x>> /\ Append(s, x) \in Seq(S)
  BY AppendIsConcat, AppendProperties
<1>2. <<x>> \in Seq(S)
  OBVIOUS
<1>3. ToSet(s \o <<x>>) = ToSet(s) \cup ToSet(<<x>>)
  <2>1. PICK t : t = <<x>>
    OBVIOUS
  <2>2. t \in Seq(S)
    BY <1>2, <2>1, Zenon
  <2>3. ToSet(s \o t) = ToSet(s) \cup ToSet(t)
    BY <2>2, ElemsConcat
  <2> QED BY <2>1, <2>3, Zenon
<1>4. IsInjective(s \o <<x>>) <=>
        IsInjective(s) /\ IsInjective(<<x>>) /\ ToSet(s) \cap ToSet(<<x>>) = {}
  BY <1>2, DistinctConcat
<1>5. ToSet(<<x>>) = {x} /\ IsInjective(<<x>>)
  BY ElemsSingleton
<1> QED BY <1>1, <1>3, <1>4, <1>5

LEMMA ElemsSplit ==
  ASSUME NEW S, NEW s \in Seq(S), NEW n \in 1 .. Len(s)
  PROVE  LET a == SubSeq(s, 1, n)
             b == SubSeq(s, n + 1, Len(s))
         IN  /\ a \in Seq(S) /\ b \in Seq(S) /\ Len(a) = n
             /\ ToSet(s) = ToSet(a) \cup ToSet(b)
             /\ IsInjective(s) <=> IsInjective(a) /\ IsInjective(b) /\ ToSet(a) \cap ToSet(b) = {}
<1> DEFINE a == SubSeq(s, 1, n)
           b == SubSeq(s, n + 1, Len(s))
<1>1. Len(s) \in Nat /\ \A i \in 1 .. Len(s) : s[i] \in S
  BY LenProperties, ElementOfSeq
<1>2. a \in Seq(S) /\ Len(a) = n
  BY <1>1, SubSeqProperties
<1>3. b \in Seq(S)
  BY <1>1, SubSeqProperties
<1>4. a \o b = s
  <2>1. /\ 1 \in 1 .. Len(s) + 1 /\ n \in 1 - 1 .. Len(s)
        /\ Len(s) \in n .. Len(s)
    BY <1>1
  <2>2. SubSeq(s, 1, n) \o SubSeq(s, n + 1, Len(s)) = SubSeq(s, 1, Len(s))
    BY <2>1, ConcatAdjacentSubSeq
  <2> QED BY <2>2, SubSeqFull
<1> HIDE DEF a, b
<1>5. ToSet(a \o b) = ToSet(a) \cup ToSet(b)
  BY <1>2, <1>3, ElemsConcat
<1>6. IsInjective(a \o b) <=> IsInjective(a) /\ IsInjective(b) /\ ToSet(a) \cap ToSet(b) = {}
  BY <1>2, <1>3, DistinctConcat
<1> QED BY <1>2, <1>3, <1>4, <1>5, <1>6 DEF a, b

LEMMA ElemsCons ==
  ASSUME NEW S, NEW s \in Seq(S), NEW x \in S
  PROVE  /\ <<x>> \o s \in Seq(S) /\ Len(<<x>> \o s) = Len(s) + 1
         /\ ToSet(<<x>> \o s) = ToSet(s) \cup {x}
         /\ IsInjective(<<x>> \o s) <=> IsInjective(s) /\ x \notin ToSet(s)
<1>1. <<x>> \in Seq(S) /\ Len(<<x>>) = 1 /\ Len(s) \in Nat
  BY LenProperties
<1>2. <<x>> \o s \in Seq(S) /\ Len(<<x>> \o s) = Len(<<x>>) + Len(s)
  BY <1>1, ConcatProperties
<1>3. ToSet(<<x>> \o s) = ToSet(<<x>>) \cup ToSet(s)
  <2>1. PICK t : t = <<x>>
    OBVIOUS
  <2>2. ToSet(t \o s) = ToSet(t) \cup ToSet(s)
    BY <1>1, <2>1, ElemsConcat
  <2> QED BY <2>1, <2>2
<1>4. IsInjective(<<x>> \o s) <=>
        IsInjective(<<x>>) /\ IsInjective(s) /\ ToSet(<<x>>) \cap ToSet(s) = {}
  BY <1>1, DistinctConcat
<1>5. ToSet(<<x>>) = {x} /\ IsInjective(<<x>>)
  BY ElemsSingleton
<1> QED BY <1>1, <1>2, <1>3, <1>4, <1>5

LEMMA ElemsFrontLast ==
  ASSUME NEW S, NEW s \in Seq(S), s # << >>
  PROVE  /\ Last(s) \in S /\ Front(s) \in Seq(S) /\ Len(Front(s)) = Len(s) - 1
         /\ ToSet(s) = ToSet(Front(s)) \cup {Last(s)}
         /\ IsInjective(s) => IsInjective(Front(s)) /\ Last(s) \notin ToSet(Front(s))
<1>1. Len(s) \in Nat \ {0} /\ \A i \in 1 .. Len(s) : s[i] \in S
  BY EmptySeq, LenProperties, ElementOfSeq
<1>2. Last(s) \in S
  BY <1>1 DEF Last
<1>3. Front(s) \in Seq(S) /\ Len(Front(s)) = Len(s) - 1
  <2>1. 1 \in Int /\ Len(s) - 1 \in Int /\ \A i \in 1 .. Len(s) - 1 : s[i] \in S
    BY <1>1
  <2>2. PICK n : n = Len(s) - 1
    OBVIOUS
  <2>3. /\ SubSeq(s, 1, n) \in Seq(S)
        /\ Len(SubSeq(s, 1, n)) = IF 1 <= n THEN n - 1 + 1 ELSE 0
    BY <2>1, <2>2, SubSeqProperties
  <2>4. n \in Nat
    BY <1>1, <2>2
  <2>5. n - 1 + 1 = n /\ (~(1 <= n) => n = 0)
    BY <2>4
  <2>6. Len(SubSeq(s, 1, n)) = n
    BY <2>3, <2>5, Zenon
  <2> QED BY <2>2, <2>3, <2>6 DEF Front
<1>4. s = Append(Front(s), Last(s))
  <2>1. SubSeq(s, 1, Len(s)) = SubSeq(s, 1, Len(s) - 1) \o <<s[Len(s)]>>
    BY <1>1, SubSeqRecursiveSecond
  <2>2. s = SubSeq(s, 1, Len(s))
    BY SubSeqFull
  <2>3. Append(Front(s), Last(s)) = Front(s) \o <<Last(s)>>
    BY <1>2, <1>3, AppendIsConcat
  <2> QED BY <2>1, <2>2, <2>3, Zenon DEF Front, Last
<1>5. /\ ToSet(Append(Front(s), Last(s))) = ToSet(Front(s)) \cup {Last(s)}
      /\ IsInjective(Append(Front(s), Last(s)))
            <=> IsInjective(Front(s)) /\ Last(s) \notin ToSet(Front(s))
  BY <1>2, <1>3, ElemsAppend
<1> QED BY <1>2, <1>3, <1>4, <1>5

\* What stays when the element at place i is taken out.
LEMMA ElemsRemoveAt ==
  ASSUME NEW S, NEW s \in Seq(S), NEW i \in 1 .. Len(s), IsInjective(s)
  PROVE  /\ RemoveAt(s, i) \in Seq(S) /\ Len(RemoveAt(s, i)) = Len(s) - 1
         /\ s[i] \in S /\ ToSet(s) = ToSet(RemoveAt(s, i)) \cup {s[i]}
         /\ IsInjective(RemoveAt(s, i)) /\ s[i] \notin ToSet(RemoveAt(s, i))
<1>1. Len(s) \in Nat /\ \A j \in 1 .. Len(s) : s[j] \in S
  BY LenProperties, ElementOfSeq
<1>2. PICK c : c = SubSeq(s, 1, i)
  OBVIOUS
<1>3. PICK b : b = SubSeq(s, i + 1, Len(s))
  OBVIOUS
<1>4. /\ c \in Seq(S) /\ b \in Seq(S) /\ Len(c) = i /\ ToSet(s) = ToSet(c) \cup ToSet(b)
      /\ IsInjective(c) /\ IsInjective(b) /\ ToSet(c) \cap ToSet(b) = {}
  BY <1>2, <1>3, ElemsSplit
<1>5. Len(b) = Len(s) - i
  <2>1. i + 1 \in Int /\ Len(s) \in Int /\ \A j \in i + 1 .. Len(s) : s[j] \in S
    BY <1>1
  <2>2. Len(b) = IF i + 1 <= Len(s) THEN Len(s) - (i + 1) + 1 ELSE 0
    BY <1>3, <2>1, SubSeqProperties
  <2> QED BY <1>1, <2>2
<1>6. c # << >> /\ Front(c) = SubSeq(s, 1, i - 1) /\ Last(c) = s[i]
  <2>1. c # << >>
    BY <1>4, EmptySeq
  <2>2. \A j \in 1 .. i - 1 + 1 : c[j] = s[1 + j - 1]
    BY <1>1, <1>2, SubSeqProperties
  <2>3. c = SubSeq(s, 1, i - 1) \o <<s[i]>>
    BY <1>1, <1>2, SubSeqRecursiveSecond
  <2>4. SubSeq(s, 1, i - 1) \in Seq(S) /\ Len(SubSeq(s, 1, i - 1)) = i - 1
    BY <1>1, SubSeqProperties
  <2>5. Last(c) = s[i]
    BY <1>1, <1>4, <2>2 DEF Last
  <2>6. Front(c) = SubSeq(s, 1, i - 1)
    <3>1. Front(c) = SubSeq(c, 1, i - 1)
      BY <1>4 DEF Front
    <3>2. <<s[i]>> \in Seq(S)
      BY <1>1
    <3>3. \A j \in 1 .. i - 1 : c[j] = SubSeq(s, 1, i - 1)[j]
      BY <1>1, <2>2, SubSeqProperties
    <3>4. /\ Front(c) \in Seq(S) /\ Len(Front(c)) = i - 1
          /\ \A j \in 1 .. i - 1 : Front(c)[j] = c[j]
      <4>1. \A j \in 1 .. i - 1 : c[j] \in S
        BY <1>1, <2>2
      <4>2. /\ SubSeq(c, 1, i - 1) \in Seq(S)
            /\ Len(SubSeq(c, 1, i - 1)) = IF 1 <= i - 1 THEN i - 1 - 1 + 1 ELSE 0
            /\ \A j \in 1 .. i - 1 - 1 + 1 : SubSeq(c, 1, i - 1)[j] = c[1 + j - 1]
        BY <4>1, SubSeqProperties
      <4> QED BY <1>1, <3>1, <4>2
    <3> QED BY <2>4, <3>3, <3>4, SeqEqual
  <2> QED BY <2>1, <2>5, <2>6
<1>7. /\ Front(c) \in Seq(S) /\ Len(Front(c)) = Len(c) - 1
      /\ ToSet(c) = ToSet(Front(c)) \cup {Last(c)}
      /\ IsInjective(Front(c)) /\ Last(c) \notin ToSet(Front(c))
  BY <1>4, <1>6, ElemsFrontLast
<1>8. RemoveAt(s, i) = Front(c) \o b
  BY <1>3, <1>6 DEF RemoveAt
<1>9. Front(c) \o b \in Seq(S) /\ Len(Front(c) \o b) = Len(Front(c)) + Len(b)
  BY <1>4, <1>7, ConcatProperties
<1>10. ToSet(Front(c) \o b) = ToSet(Front(c)) \cup ToSet(b)
  BY <1>4, <1>7, ElemsConcat
<1>11. IsInjective(Front(c) \o b)
  BY <1>4, <1>7, DistinctConcat
<1> QED BY <1>1, <1>4, <1>5, <1>6, <1>7, <1>8, <1>9, <1>10, <1>11

LEMMA LengthIsCardinality ==
  ASSUME NEW S, NEW s \in Seq(S), IsInjective(s)
  PROVE  IsFiniteSet(ToSet(s)) /\ Cardinality(ToSet(s)) = Len(s)
<1>1. Len(s) \in Nat /\ DOMAIN s = 1 .. Len(s) /\ s \in [1 .. Len(s) -> S]
  BY LenProperties
<1>2. s \in Surjection(1 .. Len(s), ToSet(s))
  BY <1>1 DEF ToSet, Surjection
<1>3. s \in Injection(1 .. Len(s), ToSet(s))
  BY <1>1, <1>2 DEF Injection, Surjection, IsInjective
<1>4. IsFiniteSet(1 .. Len(s)) /\ Cardinality(1 .. Len(s)) = Len(s)
  BY <1>1, FS_Interval
<1> QED BY <1>2, <1>3, <1>4, FS_Surjection

(***************************************************************************)
(* Sequences by their elements.                                            *)
(***************************************************************************)
LEMMA SubSeqAt ==
  ASSUME NEW S, NEW s \in Seq(S), NEW m \in Nat \ {0}, NEW n \in Nat, n <= Len(s), m <= n + 1
  PROVE  /\ SubSeq(s, m, n) \in Seq(S) /\ Len(SubSeq(s, m, n)) = n - m + 1
         /\ \A i \in 1 .. n - m + 1 : SubSeq(s, m, n)[i] = s[m + i - 1]
<1>1. m \in 1 .. Len(s) + 1 /\ n \in m - 1 .. Len(s) /\ Len(s) \in Nat
  BY LenProperties
<1>2. SubSeq(s, m, n) \in Seq(S)
  BY <1>1, SubSeqProperties
<1>3. Len(SubSeq(s, m, n)) = n - m + 1
  BY <1>1, SubSeqProperties
<1>4. \A i \in 1 .. n - m + 1 : SubSeq(s, m, n)[i] = s[m + i - 1]
  BY <1>1, SubSeqProperties
<1> QED BY <1>2, <1>3, <1>4

LEMMA ConcatAt ==
  ASSUME NEW S, NEW s \in Seq(S), NEW t \in Seq(S)
  PROVE  /\ s \o t \in Seq(S) /\ Len(s \o t) = Len(s) + Len(t)
         /\ \A i \in 1 .. Len(s) : (s \o t)[i] = s[i]
         /\ \A i \in 1 .. Len(t) : (s \o t)[Len(s) + i] = t[i]
<1>1. Len(s) \in Nat /\ Len(t) \in Nat
  BY LenProperties
<1>2. s \o t \in Seq(S) /\ Len(s \o t) = Len(s) + Len(t)
  BY ConcatProperties
<1>3. \A i \in 1 .. Len(s) + Len(t) : (s \o t)[i] = IF i <= Len(s) THEN s[i] ELSE t[i - Len(s)]
  BY ConcatProperties
<1>4. \A i \in 1 .. Len(s) : (s \o t)[i] = s[i]
  BY <1>1, <1>3
<1>5. ASSUME NEW i \in 1 .. Len(t) PROVE (s \o t)[Len(s) + i] = t[i]
  <2>1. Len(s) + i \in 1 .. Len(s) + Len(t) /\ ~(Len(s) + i <= Len(s)) /\ Len(s) + i - Len(s) = i
    BY <1>1
  <2> QED BY <1>3, <2>1
<1> QED BY <1>2, <1>4, <1>5

LEMMA SingleAt ==
  ASSUME NEW S, NEW e \in S
  PROVE  <<e>> \in Seq(S) /\ Len(<<e>>) = 1 /\ <<e>>[1] = e
OBVIOUS

LEMMA InsertedAt ==
  ASSUME NEW S, NEW s \in Seq(S), NEW e \in S, NEW i \in 1 .. Len(s) + 1
  PROVE  /\ InsertAt(s, i, e) \in Seq(S) /\ Len(InsertAt(s, i, e)) = Len(s) + 1
         /\ \A j \in 1 .. i - 1 : InsertAt(s, i, e)[j] = s[j]
         /\ InsertAt(s, i, e)[i] = e
         /\ \A j \in i .. Len(s) : InsertAt(s, i, e)[j + 1] = s[j]
<1>1. PICK f, g : f = SubSeq(s, 1, i - 1) /\ g = SubSeq(s, i, Len(s))
  OBVIOUS
<1>2. Len(s) \in Nat /\ i \in Nat \ {0} /\ i - 1 \in Nat /\ i - 1 <= Len(s)
  BY LenProperties
<1>3. f \in Seq(S) /\ Len(f) = i - 1 /\ \A j \in 1 .. i - 1 : f[j] = s[j]
  <2>1. /\ f \in Seq(S) /\ Len(f) = i - 1 - 1 + 1
        /\ \A j \in 1 .. i - 1 - 1 + 1 : f[j] = s[1 + j - 1]
    BY <1>1, <1>2, SubSeqAt
  <2>2. i - 1 - 1 + 1 = i - 1 /\ \A j \in 1 .. i - 1 : 1 + j - 1 = j
    BY <1>2
  <2> QED BY <2>1, <2>2
<1>4. /\ g \in Seq(S) /\ Len(g) = Len(s) - i + 1
      /\ \A j \in 1 .. Len(s) - i + 1 : g[j] = s[i + j - 1]
  BY <1>1, <1>2, SubSeqAt
<1>5. PICK fe : fe = f \o <<e>>
  OBVIOUS
<1>6. /\ fe \in Seq(S) /\ Len(fe) = i /\ fe[i] = e
      /\ \A j \in 1 .. i - 1 : fe[j] = s[j]
  <2>1. <<e>> \in Seq(S) /\ Len(<<e>>) = 1 /\ <<e>>[1] = e
    BY SingleAt
  <2>2. /\ fe \in Seq(S) /\ Len(fe) = Len(f) + 1
        /\ \A j \in 1 .. Len(f) : fe[j] = f[j]
        /\ fe[Len(f) + 1] = e
    <3>1. /\ fe \in Seq(S) /\ Len(fe) = Len(f) + Len(<<e>>)
          /\ \A j \in 1 .. Len(f) : fe[j] = f[j]
          /\ \A j \in 1 .. Len(<<e>>) : fe[Len(f) + j] = <<e>>[j]
      BY <1>3, <1>5, <2>1, ConcatAt
    <3> QED BY <2>1, <3>1
  <2> QED BY <1>2, <1>3, <2>2
<1>7. PICK w : w = fe \o g
  OBVIOUS
<1>8. InsertAt(s, i, e) = w
  BY <1>1, <1>5, <1>7 DEF InsertAt
<1>9. /\ w \in Seq(S) /\ Len(w) = Len(fe) + Len(g)
      /\ \A j \in 1 .. Len(fe) : w[j] = fe[j]
      /\ \A j \in 1 .. Len(g) : w[Len(fe) + j] = g[j]
  BY <1>4, <1>6, <1>7, ConcatAt
<1>10. Len(w) = Len(s) + 1 /\ w[i] = e /\ \A j \in 1 .. i - 1 : w[j] = s[j]
  BY <1>2, <1>4, <1>6, <1>9
<1>11. ASSUME NEW j \in i .. Len(s) PROVE w[j + 1] = s[j]
  <2>1. j - i + 1 \in 1 .. Len(g) /\ Len(fe) + (j - i + 1) = j + 1 /\ i + (j - i + 1) - 1 = j
    BY <1>2, <1>4, <1>6
  <2>2. w[Len(fe) + (j - i + 1)] = g[j - i + 1]
    BY <1>9, <2>1
  <2>3. g[j - i + 1] = s[i + (j - i + 1) - 1]
    BY <1>4, <1>6, <2>1
  <2> QED BY <2>1, <2>2, <2>3
<1> QED BY <1>8, <1>9, <1>10, <1>11

LEMMA RemovedAt ==
  ASSUME NEW S, NEW s \in Seq(S), NEW i \in 1 .. Len(s)
  PROVE  /\ RemoveAt(s, i) \in Seq(S) /\ Len(RemoveAt(s, i)) = Len(s) - 1
         /\ \A j \in 1 .. i - 1 : RemoveAt(s, i)[j] = s[j]
         /\ \A j \in i .. Len(s) - 1 : RemoveAt(s, i)[j] = s[j + 1]
<1>1. PICK f, g : f = SubSeq(s, 1, i - 1) /\ g = SubSeq(s, i + 1, Len(s))
  OBVIOUS
<1>2. /\ Len(s) \in Nat /\ i \in Nat \ {0} /\ i - 1 \in Nat /\ i - 1 <= Len(s)
      /\ i + 1 \in Nat \ {0}
  BY LenProperties
<1>3. f \in Seq(S) /\ Len(f) = i - 1 /\ \A j \in 1 .. i - 1 : f[j] = s[j]
  <2>1. /\ f \in Seq(S) /\ Len(f) = i - 1 - 1 + 1
        /\ \A j \in 1 .. i - 1 - 1 + 1 : f[j] = s[1 + j - 1]
    BY <1>1, <1>2, SubSeqAt
  <2>2. i - 1 - 1 + 1 = i - 1 /\ \A j \in 1 .. i - 1 : 1 + j - 1 = j
    BY <1>2
  <2> QED BY <2>1, <2>2
<1>4. /\ g \in Seq(S) /\ Len(g) = Len(s) - (i + 1) + 1
      /\ \A j \in 1 .. Len(s) - (i + 1) + 1 : g[j] = s[i + 1 + j - 1]
  BY <1>1, <1>2, SubSeqAt
<1>5. PICK w : w = f \o g
  OBVIOUS
<1>6. RemoveAt(s, i) = w
  BY <1>1, <1>5 DEF RemoveAt
<1>7. /\ w \in Seq(S) /\ Len(w) = Len(f) + Len(g)
      /\ \A j \in 1 .. Len(f) : w[j] = f[j]
      /\ \A j \in 1 .. Len(g) : w[Len(f) + j] = g[j]
  <2>1. f \in Seq(S) /\ g \in Seq(S)
    BY <1>3, <1>4
  <2> QED BY <1>5, <2>1, ConcatAt
<1>8. Len(w) = Len(s) - 1 /\ \A j \in 1 .. i - 1 : w[j] = s[j]
  <2>1. PICK q, z : q = Len(s) /\ z = Len(w)
    OBVIOUS
  <2>2. q \in Nat /\ i \in Nat /\ z = (i - 1) + (q - (i + 1) + 1)
    BY <1>2, <1>3, <1>4, <1>7, <2>1
  <2>3. z = q - 1
    BY <2>2
  <2>4. \A j \in 1 .. i - 1 : w[j] = s[j]
    BY <1>3, <1>7, Zenon
  <2> QED BY <2>1, <2>3, <2>4
<1>9. ASSUME NEW j \in i .. Len(s) - 1 PROVE w[j] = s[j + 1]
  <2>1. /\ j - i + 1 \in 1 .. Len(g) /\ Len(f) + (j - i + 1) = j
        /\ i + 1 + (j - i + 1) - 1 = j + 1
    BY <1>2, <1>3, <1>4
  <2>2. w[Len(f) + (j - i + 1)] = g[j - i + 1]
    BY <1>7, <2>1
  <2>3. g[j - i + 1] = s[i + 1 + (j - i + 1) - 1]
    BY <1>4, <2>1
  <2> QED BY <2>1, <2>2, <2>3
<1> QED BY <1>6, <1>7, <1>8, <1>9

(***************************************************************************)
(* Induction over numbers, on a set instead of a predicate.                *)
(***************************************************************************)
LEMMA LeastOf ==
  ASSUME NEW T \in SUBSET Nat, T # {}
  PROVE  \E x \in T : \A y \in T : x <= y
<1>1. PICK x \in T : \A y \in T : ~ (<<y, x>> \in OpToRel(<, Nat))
  BY NatLessThanWellFounded, WFMin
<1>2. \A y \in T : ~(y < x)
  BY <1>1 DEF OpToRel
<1> QED BY <1>2

LEMMA UpTo ==
  ASSUME NEW n \in Nat, NEW T, 0 \in T, \A i \in 0 .. n - 1 : i \in T => i + 1 \in T
  PROVE  \A i \in 0 .. n : i \in T
<1>1. PICK U : U = {k \in 0 .. n : k \notin T}
  OBVIOUS
<1>2. U = {}
  <2> SUFFICES ASSUME U # {} PROVE FALSE
    OBVIOUS
  <2>1. U \in SUBSET Nat
    BY <1>1
  <2>2. PICK k \in U : \A j \in U : k <= j
    BY <2>1, LeastOf
  <2>3. k \in 1 .. n /\ k \notin T
    BY <1>1, <2>2
  <2>4. k - 1 \notin U /\ k - 1 \in 0 .. n - 1
    BY <2>2, <2>3
  <2>5. k - 1 \in T /\ k - 1 + 1 = k
    BY <1>1, <2>3, <2>4
  <2> QED BY <2>3, <2>4, <2>5
<1> QED BY <1>1, <1>2

LEMMA DownTo ==
  ASSUME NEW n \in Nat, NEW T, n \in T, \A i \in 0 .. n - 1 : i + 1 \in T => i \in T
  PROVE  \A i \in 0 .. n : i \in T
<1>1. PICK U : U = {k \in 0 .. n : n - k \notin T}
  OBVIOUS
<1>2. U = {}
  <2> SUFFICES ASSUME U # {} PROVE FALSE
    OBVIOUS
  <2>1. U \in SUBSET Nat
    BY <1>1
  <2>2. PICK k \in U : \A j \in U : k <= j
    BY <2>1, LeastOf
  <2>3. k \in 1 .. n /\ n - k \notin T
    BY <1>1, <2>2
  <2>4. k - 1 \notin U /\ k - 1 \in 0 .. n
    BY <2>2, <2>3
  <2>5. n - (k - 1) \in T /\ n - (k - 1) = n - k + 1 /\ n - k \in 0 .. n - 1
    BY <1>1, <2>3, <2>4
  <2> QED BY <2>3, <2>5
<1>3. ASSUME NEW i \in 0 .. n PROVE i \in T
  <2>1. n - i \in 0 .. n /\ n - (n - i) = i /\ n - i \notin U
    BY <1>2
  <2> QED BY <1>1, <2>1
<1> QED BY <1>3

(***************************************************************************)
(* What a tree is.  m holds its nodes and r is the root; h is the height   *)
(* of a node above the leaves, and all keys at x and below it lie between  *)
(* lo[x] and hi[x].  The fences of a node are lo[x], its values and hi[x]; *)
(* the child at place i hangs between fence i - 1 and fence i.             *)
(***************************************************************************)
Node == [leaf : BOOLEAN, position : Nat, parent : Nat, max_count : Nat,
         values : Seq(Int), children : Seq(Nat)]

Fence(v, l, g, i) == IF i = 0 THEN l ELSE IF i = Len(v) + 1 THEN g ELSE v[i]

Rising(v, l, g) ==
  \A i, j \in 0 .. Len(v) + 1 : i < j => Fence(v, l, g, i) < Fence(v, l, g, j)

Typed(m, r, h, lo, hi) ==
  /\ m \in [DOMAIN m -> Node] /\ DOMAIN m \subseteq Nat \ {0} /\ IsFiniteSet(DOMAIN m)
  /\ r \in DOMAIN m /\ h \in [DOMAIN m -> Nat]
  /\ lo \in [DOMAIN m -> Int] /\ hi \in [DOMAIN m -> Int]

Ordered(m, lo, hi) == \A x \in DOMAIN m : Rising(m[x].values, lo[x], hi[x])

Furnished(m, h) ==
  \A x \in DOMAIN m :
    /\ m[x].leaf <=> h[x] = 0
    /\ Len(m[x].children) = IF m[x].leaf THEN 0 ELSE Len(m[x].values) + 1

\* The child c hangs at place i of x.
Hangs(m, r, h, lo, hi, c, x, i) ==
  /\ c \in DOMAIN m /\ c # r /\ h[x] = h[c] + 1
  /\ lo[c] = Fence(m[x].values, lo[x], hi[x], i - 1)
  /\ hi[c] = Fence(m[x].values, lo[x], hi[x], i)

Hung(m, r, h, lo, hi) ==
  \A x \in DOMAIN m : \A i \in 1 .. Len(m[x].children) :
    Hangs(m, r, h, lo, hi, m[x].children[i], x, i)

Links(m) ==
  \A x \in DOMAIN m : \A i \in 1 .. Len(m[x].children) :
    m[m[x].children[i]].parent = x /\ m[m[x].children[i]].position = i - 1

NoneLost(m, r) ==
  \A c \in DOMAIN m \ {r} :
    /\ m[c].parent \in DOMAIN m
    /\ m[c].position + 1 \in 1 .. Len(m[m[c].parent].children)
    /\ m[m[c].parent].children[m[c].position + 1] = c

Shape(m, r, h, lo, hi) == Ordered(m, lo, hi) /\ Furnished(m, h) /\ Hung(m, r, h, lo, hi)

Sound(m, r, h, lo, hi) ==
  Typed(m, r, h, lo, hi) /\ Shape(m, r, h, lo, hi) /\ Links(m) /\ NoneLost(m, r)

TreeKeys(m) == UNION {ToSet(m[x].values) : x \in DOMAIN m}

LEMMA NodeOf ==
  ASSUME NEW m, NEW r, NEW h, NEW lo, NEW hi, Typed(m, r, h, lo, hi), NEW x \in DOMAIN m
  PROVE  /\ m[x] \in Node /\ x \in Nat /\ x # 0 /\ h[x] \in Nat /\ lo[x] \in Int /\ hi[x] \in Int
         /\ m[x].leaf \in BOOLEAN /\ m[x].position \in Nat /\ m[x].parent \in Nat
         /\ m[x].max_count \in Nat
         /\ m[x].values \in Seq(Int) /\ Len(m[x].values) \in Nat
         /\ DOMAIN m[x].values = 1 .. Len(m[x].values)
         /\ \A i \in 1 .. Len(m[x].values) : m[x].values[i] \in Int
         /\ m[x].children \in Seq(Nat) /\ Len(m[x].children) \in Nat
         /\ DOMAIN m[x].children = 1 .. Len(m[x].children)
         /\ \A i \in 1 .. Len(m[x].children) : m[x].children[i] \in Nat
<1>1. /\ m[x] \in Node /\ x \in Nat /\ x # 0 /\ h[x] \in Nat /\ lo[x] \in Int /\ hi[x] \in Int
  BY DEF Typed
<1>2. /\ m[x].leaf \in BOOLEAN /\ m[x].position \in Nat /\ m[x].parent \in Nat
      /\ m[x].max_count \in Nat /\ m[x].values \in Seq(Int) /\ m[x].children \in Seq(Nat)
  BY <1>1 DEF Node
<1>3. \A S : \A s \in Seq(S) : /\ Len(s) \in Nat /\ DOMAIN s = 1 .. Len(s)
                              /\ \A i \in 1 .. Len(s) : s[i] \in S
  BY LenProperties, ElementOfSeq
<1> QED BY <1>1, <1>2, <1>3, Zenon

Fenced(v, l, g) ==
  /\ Len(v) \in Nat /\ v \in Seq(Int) /\ l \in Int /\ g \in Int
  /\ \A i \in 0 .. Len(v) + 1 : Fence(v, l, g, i) \in Int
  /\ Fence(v, l, g, 0) = l /\ Fence(v, l, g, Len(v) + 1) = g
  /\ \A i \in 1 .. Len(v) : Fence(v, l, g, i) = v[i]

LEMMA FenceIs ==
  ASSUME NEW v \in Seq(Int), NEW l \in Int, NEW g \in Int
  PROVE  Fenced(v, l, g)
<1>1. Len(v) \in Nat /\ \A i \in 1 .. Len(v) : v[i] \in Int
  BY LenProperties, ElementOfSeq
<1>2. Fence(v, l, g, 0) = l
  BY DEF Fence
<1>3. Fence(v, l, g, Len(v) + 1) = g
  BY <1>1 DEF Fence
<1>4. \A i \in 1 .. Len(v) : Fence(v, l, g, i) = v[i]
  BY <1>1 DEF Fence
<1>5. ASSUME NEW i \in 0 .. Len(v) + 1 PROVE Fence(v, l, g, i) \in Int
  <2>1. i = 0 \/ i = Len(v) + 1 \/ i \in 1 .. Len(v)
    BY <1>1
  <2> QED BY <1>1, <1>2, <1>3, <1>4, <2>1
<1> QED BY <1>1, <1>2, <1>3, <1>4, <1>5 DEF Fenced

\* What there is to say of the values v of a node with the bounds l and g.
ValuesOK(v, l, g) ==
  /\ v \in Seq(Int) /\ Len(v) \in Nat /\ l \in Int /\ g \in Int /\ l < g
  /\ \A i \in 1 .. Len(v) : v[i] \in Int /\ l < v[i] /\ v[i] < g
  /\ \A i, j \in 1 .. Len(v) : i < j => v[i] < v[j]

LEMMA RisingIs ==
  ASSUME NEW v \in Seq(Int), NEW l \in Int, NEW g \in Int
  PROVE  Rising(v, l, g) <=> ValuesOK(v, l, g)
<1>1. Len(v) \in Nat /\ \A i \in 1 .. Len(v) : v[i] \in Int
  BY LenProperties, ElementOfSeq
<1>2. /\ Fence(v, l, g, 0) = l /\ Fence(v, l, g, Len(v) + 1) = g
      /\ \A i \in 1 .. Len(v) : Fence(v, l, g, i) = v[i]
  <2>1. Fenced(v, l, g)
    BY FenceIs
  <2> QED BY <2>1 DEF Fenced
<1>3. ASSUME Rising(v, l, g) PROVE ValuesOK(v, l, g)
  <2>1. l < g
    <3>1. 0 \in 0 .. Len(v) + 1 /\ Len(v) + 1 \in 0 .. Len(v) + 1 /\ 0 < Len(v) + 1
      BY <1>1
    <3> QED BY <1>2, <1>3, <3>1 DEF Rising
  <2>2. ASSUME NEW i \in 1 .. Len(v) PROVE l < v[i] /\ v[i] < g
    <3>1. /\ i \in 0 .. Len(v) + 1 /\ 0 \in 0 .. Len(v) + 1 /\ Len(v) + 1 \in 0 .. Len(v) + 1
          /\ 0 < i /\ i < Len(v) + 1
      BY <1>1
    <3>2. Fence(v, l, g, 0) < Fence(v, l, g, i) /\ Fence(v, l, g, i) < Fence(v, l, g, Len(v) + 1)
      BY <1>3, <3>1 DEF Rising
    <3> QED BY <1>2, <3>2
  <2>3. ASSUME NEW i \in 1 .. Len(v), NEW j \in 1 .. Len(v), i < j PROVE v[i] < v[j]
    <3>1. i \in 0 .. Len(v) + 1 /\ j \in 0 .. Len(v) + 1
      BY <1>1
    <3>2. Fence(v, l, g, i) < Fence(v, l, g, j)
      BY <1>3, <2>3, <3>1 DEF Rising
    <3> QED BY <1>2, <3>2
  <2> QED BY <1>1, <2>1, <2>2, <2>3 DEF ValuesOK
<1>4. ASSUME ValuesOK(v, l, g) PROVE Rising(v, l, g)
  <2> SUFFICES ASSUME NEW i \in 0 .. Len(v) + 1, NEW j \in 0 .. Len(v) + 1, i < j
               PROVE  Fence(v, l, g, i) < Fence(v, l, g, j)
    BY DEF Rising
  <2>1. i = 0 \/ i \in 1 .. Len(v)
    BY <1>1
  <2>2. j = Len(v) + 1 \/ j \in 1 .. Len(v)
    BY <1>1
  <2>3. l < g
    BY <1>4 DEF ValuesOK
  <2>4. CASE i = 0
    <3>1. CASE j = Len(v) + 1
      BY <1>2, <2>3, <2>4, <3>1
    <3>2. CASE j \in 1 .. Len(v)
      <4>1. l < v[j]
        BY <1>4, <3>2 DEF ValuesOK
      <4> QED BY <1>2, <2>4, <3>2, <4>1
    <3> QED BY <2>2, <3>1, <3>2
  <2>5. CASE i \in 1 .. Len(v)
    <3>1. CASE j = Len(v) + 1
      <4>1. v[i] < g
        BY <1>4, <2>5 DEF ValuesOK
      <4> QED BY <1>2, <2>5, <3>1, <4>1
    <3>2. CASE j \in 1 .. Len(v)
      <4>1. v[i] < v[j]
        BY <1>4, <2>5, <3>2 DEF ValuesOK
      <4> QED BY <1>2, <2>5, <3>2, <4>1
    <3> QED BY <2>2, <3>1, <3>2
  <2> QED BY <2>1, <2>4, <2>5
<1> QED BY <1>3, <1>4

LEMMA ValuesOf ==
  ASSUME NEW m, NEW r, NEW h, NEW lo, NEW hi, Sound(m, r, h, lo, hi), NEW x \in DOMAIN m
  PROVE  ValuesOK(m[x].values, lo[x], hi[x])
<1>1. Typed(m, r, h, lo, hi)
  BY DEF Sound
<1>2. m[x].values \in Seq(Int) /\ lo[x] \in Int /\ hi[x] \in Int
  BY <1>1, NodeOf
<1>3. Rising(m[x].values, lo[x], hi[x])
  BY DEF Sound, Shape, Ordered
<1> QED BY <1>2, <1>3, RisingIs

\* The node c hangs at place i of x, which has the values v.
PlacedAt(m, h, lo, hi, c, x, i, v) ==
  /\ x = m[c].parent /\ i = m[c].position + 1 /\ v = m[x].values
  /\ x \in DOMAIN m /\ x # c /\ h[x] = h[c] + 1 /\ ~m[x].leaf
  /\ i \in 1 .. Len(v) + 1 /\ Len(m[x].children) = Len(v) + 1 /\ m[x].children[i] = c
  /\ lo[c] = Fence(v, lo[x], hi[x], i - 1) /\ hi[c] = Fence(v, lo[x], hi[x], i)
  /\ lo[x] <= lo[c] /\ lo[c] < hi[c] /\ hi[c] <= hi[x]

Within(v, l, g) ==
  /\ \A i \in 0 .. Len(v) + 1 : l <= Fence(v, l, g, i) /\ Fence(v, l, g, i) <= g
  /\ \A i, j \in 0 .. Len(v) + 1 : i < j => Fence(v, l, g, i) < Fence(v, l, g, j)

LEMMA FenceWithin ==
  ASSUME NEW v, NEW l, NEW g, ValuesOK(v, l, g)
  PROVE  Fenced(v, l, g) /\ Within(v, l, g)
<1>1. v \in Seq(Int) /\ Len(v) \in Nat /\ l \in Int /\ g \in Int
  BY DEF ValuesOK
<1>2. Rising(v, l, g)
  BY <1>1, RisingIs
<1>3. /\ \A i \in 0 .. Len(v) + 1 : Fence(v, l, g, i) \in Int
      /\ Fence(v, l, g, 0) = l /\ Fence(v, l, g, Len(v) + 1) = g
  <2>1. Fenced(v, l, g)
    BY <1>1, FenceIs
  <2> QED BY <2>1 DEF Fenced
<1>4. \A i, j \in 0 .. Len(v) + 1 : i < j => Fence(v, l, g, i) < Fence(v, l, g, j)
  BY <1>2 DEF Rising
<1>5. ASSUME NEW i \in 0 .. Len(v) + 1
      PROVE  l <= Fence(v, l, g, i) /\ Fence(v, l, g, i) <= g
  <2>1. 0 \in 0 .. Len(v) + 1 /\ Len(v) + 1 \in 0 .. Len(v) + 1
    BY <1>1
  <2>2. i = 0 \/ Fence(v, l, g, 0) < Fence(v, l, g, i)
    BY <1>4, <2>1
  <2>3. i = Len(v) + 1 \/ Fence(v, l, g, i) < Fence(v, l, g, Len(v) + 1)
    BY <1>1, <1>4, <2>1
  <2> QED BY <1>1, <1>3, <2>2, <2>3
<1>6. Fenced(v, l, g)
  BY <1>1, FenceIs
<1> QED BY <1>4, <1>5, <1>6 DEF Within

LEMMA PlaceOf ==
  ASSUME NEW m, NEW r, NEW h, NEW lo, NEW hi, Sound(m, r, h, lo, hi), NEW c \in DOMAIN m \ {r}
  PROVE  \E x, i, v : PlacedAt(m, h, lo, hi, c, x, i, v)
<1>1. PICK x, i, v : x = m[c].parent /\ i = m[c].position + 1 /\ v = m[x].values
  OBVIOUS
<1>2. Typed(m, r, h, lo, hi)
  BY DEF Sound
<1>3. x \in DOMAIN m /\ i \in 1 .. Len(m[x].children) /\ m[x].children[i] = c
  BY <1>1 DEF Sound, NoneLost
<1>4. Hangs(m, r, h, lo, hi, c, x, i)
  BY <1>3 DEF Sound, Shape, Hung
<1>5. h[x] = h[c] + 1 /\ lo[c] = Fence(v, lo[x], hi[x], i - 1) /\ hi[c] = Fence(v, lo[x], hi[x], i)
  BY <1>1, <1>4 DEF Hangs
<1>6. h[x] \in Nat /\ h[c] \in Nat /\ m[x].leaf \in BOOLEAN
  BY <1>2, <1>3, NodeOf
<1>7. ~m[x].leaf /\ x # c
  BY <1>3, <1>5, <1>6 DEF Sound, Shape, Furnished
<1>8. Len(m[x].children) = Len(v) + 1
  BY <1>1, <1>3, <1>7 DEF Sound, Shape, Furnished
<1>9. ValuesOK(v, lo[x], hi[x])
  BY <1>1, <1>3, ValuesOf
<1>10. i \in 1 .. Len(v) + 1 /\ Len(v) \in Nat
  BY <1>3, <1>8, <1>9 DEF ValuesOK
<1>11. lo[x] <= lo[c] /\ lo[c] < hi[c] /\ hi[c] <= hi[x]
  <2>1. i \in 0 .. Len(v) + 1 /\ i - 1 \in 0 .. Len(v) + 1 /\ i - 1 < i
    BY <1>10
  <2>0. Within(v, lo[x], hi[x])
    BY <1>9, FenceWithin
  <2>2. Fence(v, lo[x], hi[x], i - 1) < Fence(v, lo[x], hi[x], i)
    BY <2>0, <2>1 DEF Within
  <2>3. lo[x] <= Fence(v, lo[x], hi[x], i - 1) /\ Fence(v, lo[x], hi[x], i) <= hi[x]
    BY <2>0, <2>1 DEF Within
  <2> QED BY <1>5, <2>2, <2>3
<1> QED BY <1>1, <1>3, <1>5, <1>7, <1>8, <1>10, <1>11 DEF PlacedAt

(***************************************************************************)
(* What follows of a sound tree.                                           *)
(***************************************************************************)
LEMMA BoundedOn ==
  ASSUME NEW D, IsFiniteSet(D), NEW h \in [D -> Nat]
  PROVE  \E b \in Nat : \A x \in D : h[x] <= b
<1>0. PICK n \in Nat : ExistsBijection(1 .. n, D)
  BY FS_NatBijection
<1>1. PICK f : f \in Bijection(1 .. n, D)
  BY <1>0 DEF ExistsBijection
<1>2. f \in [1 .. n -> D] /\ \A x \in D : \E i \in 1 .. n : f[i] = x
  BY <1>1 DEF Bijection, Surjection, Injection
<1>3. PICK T : T = {k \in Nat : \E b \in Nat : \A i \in 1 .. n : i <= k => h[f[i]] <= b}
  OBVIOUS
<1>4. 0 \in T
  BY <1>3
<1>5. ASSUME NEW k \in 0 .. n - 1, k \in T PROVE k + 1 \in T
  <2>1. PICK b \in Nat : \A i \in 1 .. n : i <= k => h[f[i]] <= b
    BY <1>3, <1>5
  <2>2. k + 1 \in 1 .. n /\ h[f[k + 1]] \in Nat /\ \A i \in 1 .. n : h[f[i]] \in Nat
    BY <1>2
  <2>3. b + h[f[k + 1]] \in Nat /\ \A i \in 1 .. n : i <= k + 1 => h[f[i]] <= b + h[f[k + 1]]
    BY <2>1, <2>2
  <2> QED BY <1>3, <2>3
<1>6. \A k \in 0 .. n : k \in T
  BY <1>4, <1>5, UpTo
<1>7. n \in T
  BY <1>1, <1>6
<1>8. PICK b \in Nat : \A i \in 1 .. n : i <= n => h[f[i]] <= b
  BY <1>3, <1>7
<1>9. ASSUME NEW x \in D PROVE h[x] <= b
  <2>1. PICK i \in 1 .. n : f[i] = x
    BY <1>2
  <2>2. i <= n
    OBVIOUS
  <2> QED BY <1>8, <2>1, <2>2, Zenon
<1> QED BY <1>9

LEMMA RootHighest ==
  ASSUME NEW m, NEW r, NEW h, NEW lo, NEW hi, Sound(m, r, h, lo, hi), NEW c \in DOMAIN m \ {r}
  PROVE  h[c] < h[r]
<1>1. Typed(m, r, h, lo, hi)
  BY DEF Sound
<1>2. \A x \in DOMAIN m : h[x] \in Nat
  BY <1>1, NodeOf
<1>3. r \in DOMAIN m /\ IsFiniteSet(DOMAIN m) /\ h \in [DOMAIN m -> Nat]
  BY <1>1 DEF Typed
<1>4. PICK b \in Nat : \A x \in DOMAIN m : h[x] <= b
  BY <1>3, BoundedOn
<1> SUFFICES ASSUME h[c] >= h[r] PROVE FALSE
  BY <1>2, <1>3
<1>5. PICK S : S = {x \in DOMAIN m \ {r} : h[x] >= h[r]}
  OBVIOUS
<1>6. PICK U : U = {b - h[x] : x \in S}
  OBVIOUS
<1>7. U \in SUBSET Nat /\ U # {}
  BY <1>2, <1>4, <1>5, <1>6
<1>8. PICK u \in U : \A w \in U : u <= w
  BY <1>7, LeastOf
<1>9. PICK x \in S : u = b - h[x]
  BY <1>6, <1>8
<1>10. x \in DOMAIN m \ {r}
  BY <1>5, <1>9
<1>11. PICK y, i, v : PlacedAt(m, h, lo, hi, x, y, i, v)
  BY <1>10, PlaceOf
<1>12. y \in DOMAIN m /\ h[y] = h[x] + 1
  BY <1>11 DEF PlacedAt
<1>13. y \in S
  BY <1>2, <1>3, <1>5, <1>9, <1>12
<1>14. b - h[y] \in U
  BY <1>6, <1>13
<1> QED BY <1>2, <1>4, <1>8, <1>9, <1>10, <1>12, <1>14

\* Induction from the root down: what holds of the root and of a child of every
\* node of which it holds, holds of all.
LEMMA Downwards ==
  ASSUME NEW m, NEW r, NEW h, NEW lo, NEW hi, Sound(m, r, h, lo, hi), NEW T, r \in T,
         \A c, x, i, v : c \in DOMAIN m \ {r} /\ x \in T /\ PlacedAt(m, h, lo, hi, c, x, i, v)
                           => c \in T
  PROVE  \A x \in DOMAIN m : x \in T
<1>1. Typed(m, r, h, lo, hi)
  BY DEF Sound
<1>2. r \in DOMAIN m /\ \A x \in DOMAIN m : h[x] \in Nat
  BY <1>1, NodeOf DEF Typed
<1>3. PICK L : L = {n \in Nat : \A x \in DOMAIN m : h[x] = n => x \in T}
  OBVIOUS
<1>4. \A x \in DOMAIN m \ {r} : h[x] < h[r]
  BY RootHighest
<1>5. h[r] \in L
  BY <1>2, <1>3, <1>4
<1>6. ASSUME NEW n \in 0 .. h[r] - 1, n + 1 \in L PROVE n \in L
  <2> SUFFICES ASSUME NEW c \in DOMAIN m, h[c] = n PROVE c \in T
    BY <1>2, <1>3
  <2>1. c \in DOMAIN m \ {r}
    BY <1>2
  <2>2. PICK x, i, v : PlacedAt(m, h, lo, hi, c, x, i, v)
    BY <2>1, PlaceOf
  <2>3. x \in DOMAIN m /\ h[x] = n + 1
    BY <2>2 DEF PlacedAt
  <2>4. x \in T
    BY <1>3, <1>6, <2>3
  <2> QED BY <2>1, <2>2, <2>4
<1>7. \A n \in 0 .. h[r] : n \in L
  BY <1>2, <1>5, <1>6, DownTo
<1>8. \A x \in DOMAIN m : h[x] \in 0 .. h[r]
  BY <1>2, <1>4
<1> QED BY <1>3, <1>7, <1>8

\* The bounds of two nodes of one height have no key in common.
BesideEachOther(x, y, lo, hi) == hi[x] <= lo[y] \/ hi[y] <= lo[x]

LEMMA SiblingsBeside ==
  ASSUME NEW m, NEW r, NEW h, NEW lo, NEW hi, Sound(m, r, h, lo, hi),
         NEW c \in DOMAIN m \ {r}, NEW d \in DOMAIN m \ {r}, c # d, m[c].parent = m[d].parent
  PROVE  BesideEachOther(c, d, lo, hi)
<1>1. PICK x, i, v : PlacedAt(m, h, lo, hi, c, x, i, v)
  BY PlaceOf
<1>2. PICK y, j, w : PlacedAt(m, h, lo, hi, d, y, j, w)
  BY PlaceOf
<1>3. x = y /\ v = w /\ i # j /\ x \in DOMAIN m
  BY <1>1, <1>2 DEF PlacedAt
<1>4. ValuesOK(v, lo[x], hi[x])
  <2>1. v = m[x].values
    BY <1>1 DEF PlacedAt
  <2> QED BY <1>3, <2>1, ValuesOf
<1>5. Within(v, lo[x], hi[x]) /\ Fenced(v, lo[x], hi[x])
  BY <1>4, FenceWithin
<1>6. Len(v) \in Nat /\ i \in 1 .. Len(v) + 1 /\ j \in 1 .. Len(v) + 1
  BY <1>1, <1>2, <1>3, <1>4 DEF PlacedAt, ValuesOK
<1>7. /\ lo[c] = Fence(v, lo[x], hi[x], i - 1) /\ hi[c] = Fence(v, lo[x], hi[x], i)
      /\ lo[d] = Fence(v, lo[x], hi[x], j - 1) /\ hi[d] = Fence(v, lo[x], hi[x], j)
  BY <1>1, <1>2, <1>3 DEF PlacedAt
<1>8. \A k \in 0 .. Len(v) + 1 : Fence(v, lo[x], hi[x], k) \in Int
  BY <1>5 DEF Fenced
<1>9. \A k, l \in 0 .. Len(v) + 1 :
        k < l => Fence(v, lo[x], hi[x], k) < Fence(v, lo[x], hi[x], l)
  BY <1>5 DEF Within
<1>10. ASSUME i < j PROVE hi[c] <= lo[d]
  <2>1. i \in 0 .. Len(v) + 1 /\ j - 1 \in 0 .. Len(v) + 1 /\ (i = j - 1 \/ i < j - 1)
    BY <1>6, <1>10
  <2> QED BY <1>7, <1>8, <1>9, <2>1
<1>11. ASSUME j < i PROVE hi[d] <= lo[c]
  <2>1. j \in 0 .. Len(v) + 1 /\ i - 1 \in 0 .. Len(v) + 1 /\ (j = i - 1 \/ j < i - 1)
    BY <1>6, <1>11
  <2> QED BY <1>7, <1>8, <1>9, <2>1
<1> QED BY <1>3, <1>6, <1>10, <1>11 DEF BesideEachOther

LEMMA LevelBeside ==
  ASSUME NEW m, NEW r, NEW h, NEW lo, NEW hi, Sound(m, r, h, lo, hi),
         NEW x \in DOMAIN m, NEW y \in DOMAIN m, x # y, h[x] = h[y]
  PROVE  BesideEachOther(x, y, lo, hi)
<1>1. PICK T : T = {n \in Nat : \A c, d \in DOMAIN m :
                      h[c] = n /\ h[d] = n /\ c # d => BesideEachOther(c, d, lo, hi)}
  OBVIOUS
<1>2. Typed(m, r, h, lo, hi) /\ r \in DOMAIN m
  BY DEF Sound, Typed
<1>3. h[r] \in Nat
  BY <1>2, NodeOf
<1>4. \A c \in DOMAIN m : h[c] \in Nat /\ lo[c] \in Int /\ hi[c] \in Int
  BY <1>2, NodeOf
<1>5. \A c \in DOMAIN m \ {r} : h[c] < h[r]
  BY RootHighest
<1>6. h[r] \in T
  BY <1>1, <1>3, <1>4, <1>5
<1>7. ASSUME NEW n \in 0 .. h[r] - 1, n + 1 \in T PROVE n \in T
  <2> SUFFICES ASSUME NEW c \in DOMAIN m, NEW d \in DOMAIN m, h[c] = n, h[d] = n, c # d
               PROVE  BesideEachOther(c, d, lo, hi)
    BY <1>1, <1>3
  <2>1. c \in DOMAIN m \ {r} /\ d \in DOMAIN m \ {r}
    BY <1>3
  <2>2. PICK p, i, v : PlacedAt(m, h, lo, hi, c, p, i, v)
    BY <2>1, PlaceOf
  <2>3. PICK q, j, w : PlacedAt(m, h, lo, hi, d, q, j, w)
    BY <2>1, PlaceOf
  <2>4. CASE p = q
    <3>1. m[c].parent = m[d].parent
      BY <2>2, <2>3, <2>4 DEF PlacedAt
    <3> QED BY <2>1, <3>1, SiblingsBeside
  <2>5. CASE p # q
    <3>1. p \in DOMAIN m /\ q \in DOMAIN m /\ h[p] = n + 1 /\ h[q] = n + 1
      BY <2>2, <2>3 DEF PlacedAt
    <3>2. BesideEachOther(p, q, lo, hi)
      BY <1>1, <1>7, <2>5, <3>1
    <3>3. lo[p] <= lo[c] /\ hi[c] <= hi[p] /\ lo[q] <= lo[d] /\ hi[d] <= hi[q]
      BY <2>2, <2>3 DEF PlacedAt
    <3> QED BY <1>4, <3>1, <3>2, <3>3 DEF BesideEachOther
  <2> QED BY <2>4, <2>5
<1>8. \A i \in 0 .. h[r] : i \in T
  BY <1>3, <1>6, <1>7, DownTo
<1>9. h[x] \in 0 .. h[r]
  BY <1>3, <1>4, <1>5
<1> QED BY <1>1, <1>8, <1>9

\* A node has no key between the bounds of a node that is not above it.
LEMMA KeyOutside ==
  ASSUME NEW m, NEW r, NEW h, NEW lo, NEW hi, Sound(m, r, h, lo, hi),
         NEW x \in DOMAIN m, NEW y \in DOMAIN m, x # y, h[x] <= h[y],
         NEW k \in 1 .. Len(m[y].values)
  PROVE  m[y].values[k] <= lo[x] \/ hi[x] <= m[y].values[k]
<1>1. PICK u : u = m[y].values
  OBVIOUS
<1> DEFINE Outside(c) == u[k] <= lo[c] \/ hi[c] <= u[k]
<1>2. PICK T : T = {n \in Nat : \A c \in DOMAIN m : h[c] = n /\ c # y => Outside(c)}
  OBVIOUS
<1>3. ValuesOK(u, lo[y], hi[y])
  BY <1>1, ValuesOf
<1>4. k \in 1 .. Len(u) /\ u[k] \in Int /\ lo[y] < u[k] /\ u[k] < hi[y] /\ Len(u) \in Nat
  BY <1>1, <1>3 DEF ValuesOK
<1>5. \A c \in DOMAIN m : h[c] \in Nat /\ lo[c] \in Int /\ hi[c] \in Int
  BY NodeOf DEF Sound
<1>6. h[y] \in T
  <2> SUFFICES ASSUME NEW c \in DOMAIN m, h[c] = h[y], c # y PROVE Outside(c)
    BY <1>2, <1>5
  <2>1. BesideEachOther(c, y, lo, hi)
    BY LevelBeside
  <2> QED BY <1>4, <1>5, <2>1 DEF BesideEachOther
<1>7. ASSUME NEW n \in 0 .. h[y] - 1, n + 1 \in T PROVE n \in T
  <2> SUFFICES ASSUME NEW c \in DOMAIN m, h[c] = n, c # y PROVE Outside(c)
    BY <1>2, <1>5
  <2>1. c \in DOMAIN m \ {r}
    <3>1. h[c] < h[y]
      BY <1>5
    <3>2. y = r \/ h[y] < h[r]
      BY RootHighest
    <3> QED BY <1>5, <3>1, <3>2
  <2>2. PICK p, i, v : PlacedAt(m, h, lo, hi, c, p, i, v)
    BY <2>1, PlaceOf
  <2>3. p \in DOMAIN m /\ h[p] = n + 1 /\ lo[p] <= lo[c] /\ hi[c] <= hi[p]
    BY <2>2 DEF PlacedAt
  <2>4. CASE p # y
    <3>1. u[k] <= lo[p] \/ hi[p] <= u[k]
      BY <1>2, <1>7, <2>3, <2>4
    <3>2. u[k] \in Int /\ lo[p] \in Int /\ hi[p] \in Int /\ lo[c] \in Int /\ hi[c] \in Int
      BY <1>4, <1>5, <2>3
    <3>3. PICK q, l1, g1, l2, g2 : /\ q = u[k] /\ l1 = lo[p] /\ g1 = hi[p]
                                   /\ l2 = lo[c] /\ g2 = hi[c]
      OBVIOUS
    <3>4. /\ q \in Int /\ l1 \in Int /\ g1 \in Int /\ l2 \in Int /\ g2 \in Int
          /\ l1 <= l2 /\ g2 <= g1 /\ (q <= l1 \/ g1 <= q)
      BY <2>3, <3>1, <3>2, <3>3, Zenon
    <3>5. q <= l2 \/ g2 <= q
      BY <3>4
    <3> QED BY <3>3, <3>5, Zenon
  <2>5. CASE p = y
    <3>1. /\ v = u /\ i \in 1 .. Len(u) + 1
          /\ lo[c] = Fence(u, lo[y], hi[y], i - 1) /\ hi[c] = Fence(u, lo[y], hi[y], i)
      BY <1>1, <2>2, <2>5 DEF PlacedAt
    <3>2. Fenced(u, lo[y], hi[y]) /\ Within(u, lo[y], hi[y])
      BY <1>3, FenceWithin
    <3>3. Fence(u, lo[y], hi[y], k) = u[k]
      BY <1>4, <3>2 DEF Fenced
    <3>4. k \in 0 .. Len(u) + 1 /\ i \in 0 .. Len(u) + 1 /\ i - 1 \in 0 .. Len(u) + 1
      BY <1>4, <3>1
    <3>5. k < i - 1 \/ k = i - 1 \/ k = i \/ i < k
      BY <3>4
    <3>6. CASE k < i - 1
      <4>1. Fence(u, lo[y], hi[y], k) < Fence(u, lo[y], hi[y], i - 1)
        BY <3>2, <3>4, <3>6 DEF Within
      <4> QED BY <1>4, <1>5, <3>1, <3>3, <4>1
    <3>7. CASE i < k
      <4>1. Fence(u, lo[y], hi[y], i) < Fence(u, lo[y], hi[y], k)
        BY <3>2, <3>4, <3>7 DEF Within
      <4> QED BY <1>4, <1>5, <3>1, <3>3, <4>1
    <3> QED BY <1>4, <3>1, <3>3, <3>5, <3>6, <3>7
  <2> QED BY <2>4, <2>5
<1>8. h[y] \in Nat /\ h[x] \in 0 .. h[y]
  BY <1>5
<1>9. \A j \in 0 .. h[y] : j \in T
  BY <1>6, <1>7, <1>8, DownTo
<1> QED BY <1>1, <1>2, <1>8, <1>9

\* Each key is at one place.
LEMMA KeyOnce ==
  ASSUME NEW m, NEW r, NEW h, NEW lo, NEW hi, Sound(m, r, h, lo, hi),
         NEW x \in DOMAIN m, NEW y \in DOMAIN m,
         NEW i \in 1 .. Len(m[x].values), NEW j \in 1 .. Len(m[y].values),
         m[x].values[i] = m[y].values[j]
  PROVE  x = y /\ i = j
<1>1. PICK u, v : u = m[x].values /\ v = m[y].values
  OBVIOUS
<1>2. ValuesOK(u, lo[x], hi[x]) /\ ValuesOK(v, lo[y], hi[y])
  BY <1>1, ValuesOf
<1>3. h[x] \in Nat /\ h[y] \in Nat
  BY NodeOf DEF Sound
<1>4. i \in 1 .. Len(u) /\ j \in 1 .. Len(v) /\ u[i] = v[j]
  BY <1>1
<1>5. /\ u[i] \in Int /\ lo[x] < u[i] /\ u[i] < hi[x] /\ lo[x] \in Int /\ hi[x] \in Int
  BY <1>2, <1>4 DEF ValuesOK
<1>6. /\ v[j] \in Int /\ lo[y] < v[j] /\ v[j] < hi[y] /\ lo[y] \in Int /\ hi[y] \in Int
  BY <1>2, <1>4 DEF ValuesOK
<1>7. ASSUME x # y, h[x] <= h[y] PROVE FALSE
  <2>1. v[j] <= lo[x] \/ hi[x] <= v[j]
    BY <1>1, <1>7, KeyOutside
  <2> QED BY <1>4, <1>5, <2>1
<1>8. ASSUME x # y, h[y] <= h[x] PROVE FALSE
  <2>1. u[i] <= lo[y] \/ hi[y] <= u[i]
    BY <1>1, <1>8, KeyOutside
  <2> QED BY <1>4, <1>6, <2>1
<1>9. x = y
  BY <1>3, <1>7, <1>8
<1>10. i = j
  <2>1. u = v /\ i \in 1 .. Len(u) /\ j \in 1 .. Len(u)
    BY <1>1, <1>9
  <2>2. \A k, l \in 1 .. Len(u) : k < l => u[k] < u[l]
    BY <1>2 DEF ValuesOK
  <2>3. Len(u) \in Nat
    BY <1>2 DEF ValuesOK
  <2>4. ~(i < j) /\ ~(j < i)
    BY <1>4, <1>5, <1>6, <2>1, <2>2
  <2> QED BY <2>1, <2>3, <2>4
<1> QED BY <1>9, <1>10

LEMMA TreeKeysAre ==
  ASSUME NEW m, NEW r, NEW h, NEW lo, NEW hi, Typed(m, r, h, lo, hi), NEW k
  PROVE  k \in TreeKeys(m) <=> \E x \in DOMAIN m : \E i \in 1 .. Len(m[x].values) : m[x].values[i] = k
<1>1. \A x \in DOMAIN m : DOMAIN m[x].values = 1 .. Len(m[x].values)
  BY NodeOf
<1>2. k \in TreeKeys(m) <=> \E x \in DOMAIN m : k \in ToSet(m[x].values)
  BY DEF TreeKeys
<1> QED BY <1>1, <1>2 DEF ToSet

(***************************************************************************)
(* A node in two parts: w is u, then s, then v.  Its parent is without the *)
(* value at place d, or a sequence of children without the child there.    *)
(***************************************************************************)
IsJoin(w, u, s, v) ==
  /\ Len(w) = Len(u) + 1 + Len(v)
  /\ \A j \in 1 .. Len(u) : w[j] = u[j]
  /\ w[Len(u) + 1] = s
  /\ \A j \in 1 .. Len(v) : w[Len(u) + 1 + j] = v[j]

IsConcat(w, u, v) ==
  /\ Len(w) = Len(u) + Len(v)
  /\ \A j \in 1 .. Len(u) : w[j] = u[j]
  /\ \A j \in 1 .. Len(v) : w[Len(u) + j] = v[j]

IsWithout(w, u, d) ==
  /\ d \in 1 .. Len(u) /\ Len(w) = Len(u) - 1
  /\ \A j \in 1 .. d - 1 : w[j] = u[j]
  /\ \A j \in d .. Len(u) - 1 : w[j] = u[j + 1]

JoinedFences(w, u, s, v, l, g) ==
  /\ \A i \in 0 .. Len(u) + 1 : Fence(w, l, g, i) = Fence(u, l, s, i)
  /\ \A i \in 0 .. Len(v) + 1 : Fence(w, l, g, Len(u) + 1 + i) = Fence(v, s, g, i)

LEMMA JoinFences ==
  ASSUME NEW w \in Seq(Int), NEW u \in Seq(Int), NEW v \in Seq(Int),
         NEW l \in Int, NEW s \in Int, NEW g \in Int, IsJoin(w, u, s, v)
  PROVE  JoinedFences(w, u, s, v, l, g)
<1>1. Fenced(w, l, g) /\ Fenced(u, l, s) /\ Fenced(v, s, g)
  BY FenceIs
<1>2. Len(w) \in Nat /\ Len(u) \in Nat /\ Len(v) \in Nat /\ Len(w) = Len(u) + 1 + Len(v)
  BY <1>1 DEF Fenced, IsJoin
<1>3. ASSUME NEW i \in 0 .. Len(u) + 1 PROVE Fence(w, l, g, i) = Fence(u, l, s, i)
  <2>1. CASE i = 0
    BY <1>1, <2>1 DEF Fenced
  <2>2. CASE i \in 1 .. Len(u)
    <3>1. w[i] = u[i] /\ i \in 1 .. Len(w)
      BY <1>2, <2>2 DEF IsJoin
    <3>2. Fence(w, l, g, i) = w[i] /\ Fence(u, l, s, i) = u[i]
      BY <1>1, <2>2, <3>1 DEF Fenced
    <3> QED BY <3>1, <3>2
  <2>3. CASE i = Len(u) + 1
    <3>1. w[i] = s /\ i \in 1 .. Len(w)
      BY <1>2, <2>3 DEF IsJoin
    <3>2. Fence(w, l, g, i) = w[i]
      BY <1>1, <3>1 DEF Fenced
    <3>3. Fence(u, l, s, i) = s
      BY <1>1, <2>3 DEF Fenced
    <3> QED BY <3>1, <3>2, <3>3
  <2> QED BY <1>2, <2>1, <2>2, <2>3
<1>4. ASSUME NEW i \in 0 .. Len(v) + 1 PROVE Fence(w, l, g, Len(u) + 1 + i) = Fence(v, s, g, i)
  <2>1. CASE i = 0
    <3>1. w[Len(u) + 1] = s /\ Len(u) + 1 \in 1 .. Len(w) /\ Len(u) + 1 + i = Len(u) + 1
      BY <1>2, <2>1 DEF IsJoin
    <3>2. Fence(w, l, g, Len(u) + 1) = w[Len(u) + 1]
      BY <1>1, <3>1 DEF Fenced
    <3>3. Fence(v, s, g, i) = s
      BY <1>1, <2>1 DEF Fenced
    <3> QED BY <3>1, <3>2, <3>3
  <2>2. CASE i \in 1 .. Len(v)
    <3>1. w[Len(u) + 1 + i] = v[i]
      BY <2>2 DEF IsJoin
    <3>2. Len(u) + 1 + i \in 1 .. Len(w)
      BY <1>2, <2>2
    <3>3. Fence(w, l, g, Len(u) + 1 + i) = w[Len(u) + 1 + i]
      BY <1>1, <3>2 DEF Fenced
    <3>4. Fence(v, s, g, i) = v[i]
      BY <1>1, <2>2 DEF Fenced
    <3> QED BY <3>1, <3>3, <3>4
  <2>3. CASE i = Len(v) + 1
    <3>1. Len(u) + 1 + i = Len(w) + 1
      BY <1>2, <2>3
    <3>2. Fence(w, l, g, Len(w) + 1) = g /\ Fence(v, s, g, Len(v) + 1) = g
      BY <1>1 DEF Fenced
    <3> QED BY <2>3, <3>1, <3>2
  <2>4. i = 0 \/ i \in 1 .. Len(v) \/ i = Len(v) + 1
    <3>1. PICK q : q = Len(v)
      OBVIOUS
    <3>2. q \in Nat /\ i \in 0 .. q + 1
      BY <1>2, <3>1
    <3>3. i = 0 \/ i \in 1 .. q \/ i = q + 1
      BY <3>2
    <3> QED BY <3>1, <3>3
  <2> QED BY <2>1, <2>2, <2>3, <2>4
<1> QED BY <1>3, <1>4 DEF JoinedFences

LEMMA JoinRising ==
  ASSUME NEW w \in Seq(Int), NEW u \in Seq(Int), NEW v \in Seq(Int),
         NEW l \in Int, NEW s \in Int, NEW g \in Int, IsJoin(w, u, s, v)
  PROVE  Rising(w, l, g) <=> Rising(u, l, s) /\ Rising(v, s, g)
<1>1. JoinedFences(w, u, s, v, l, g)
  BY JoinFences
<1>2. Fenced(w, l, g) /\ Fenced(u, l, s) /\ Fenced(v, s, g)
  BY FenceIs
<1>3. Len(w) \in Nat /\ Len(u) \in Nat /\ Len(v) \in Nat /\ Len(w) = Len(u) + 1 + Len(v)
  BY <1>2 DEF Fenced, IsJoin
<1>4. PICK p : p = Len(u) + 1
  OBVIOUS
<1>5. /\ \A i \in 0 .. p : Fence(w, l, g, i) = Fence(u, l, s, i)
      /\ \A i \in 0 .. Len(v) + 1 : Fence(w, l, g, p + i) = Fence(v, s, g, i)
  BY <1>1, <1>4 DEF JoinedFences
<1>6. ASSUME Rising(w, l, g) PROVE Rising(u, l, s)
  <2> SUFFICES ASSUME NEW i \in 0 .. p, NEW j \in 0 .. p, i < j
               PROVE  Fence(u, l, s, i) < Fence(u, l, s, j)
    BY <1>4 DEF Rising
  <2>1. i \in 0 .. Len(w) + 1 /\ j \in 0 .. Len(w) + 1
    BY <1>3, <1>4
  <2>2. Fence(w, l, g, i) < Fence(w, l, g, j)
    BY <1>6, <2>1 DEF Rising
  <2> QED BY <1>5, <2>2
<1>7. ASSUME Rising(w, l, g) PROVE Rising(v, s, g)
  <2> SUFFICES ASSUME NEW i \in 0 .. Len(v) + 1, NEW j \in 0 .. Len(v) + 1, i < j
               PROVE  Fence(v, s, g, i) < Fence(v, s, g, j)
    BY DEF Rising
  <2>1. p + i \in 0 .. Len(w) + 1 /\ p + j \in 0 .. Len(w) + 1 /\ p + i < p + j
    BY <1>3, <1>4
  <2>2. Fence(w, l, g, p + i) < Fence(w, l, g, p + j)
    BY <1>7, <2>1 DEF Rising
  <2> QED BY <1>5, <2>2
<1>8. ASSUME Rising(u, l, s), Rising(v, s, g) PROVE Rising(w, l, g)
  <2> SUFFICES ASSUME NEW i \in 0 .. Len(w) + 1, NEW j \in 0 .. Len(w) + 1, i < j
               PROVE  Fence(w, l, g, i) < Fence(w, l, g, j)
    BY DEF Rising
  <2>1. ASSUME NEW k \in 0 .. p - 1 PROVE Fence(w, l, g, k) < s
    <3>1. k \in 0 .. Len(u) + 1 /\ Len(u) + 1 \in 0 .. Len(u) + 1 /\ k < Len(u) + 1 /\ k \in 0 .. p
      BY <1>3, <1>4
    <3>2. Fence(u, l, s, k) < Fence(u, l, s, Len(u) + 1)
      BY <1>8, <3>1 DEF Rising
    <3>3. Fence(u, l, s, Len(u) + 1) = s
      BY <1>2 DEF Fenced
    <3> QED BY <1>5, <3>1, <3>2, <3>3
  <2>2. ASSUME NEW k \in p .. Len(w) + 1 PROVE s <= Fence(w, l, g, k)
    <3>1. k - p \in 0 .. Len(v) + 1 /\ p + (k - p) = k /\ 0 \in 0 .. Len(v) + 1
      BY <1>3, <1>4
    <3>2. Fence(w, l, g, k) = Fence(v, s, g, k - p)
      BY <1>5, <3>1
    <3>3. Fence(v, s, g, 0) = s /\ Fence(v, s, g, k - p) \in Int
      BY <1>2, <3>1 DEF Fenced
    <3>4. k - p = 0 \/ Fence(v, s, g, 0) < Fence(v, s, g, k - p)
      BY <1>8, <3>1 DEF Rising
    <3> QED BY <3>1, <3>2, <3>3, <3>4
  <2>3. Fence(w, l, g, i) \in Int /\ Fence(w, l, g, j) \in Int
    BY <1>2 DEF Fenced
  <2>4. CASE j <= p
    <3>1. i \in 0 .. p /\ j \in 0 .. p
      BY <1>3, <1>4, <2>4
    <3>2. Fence(u, l, s, i) < Fence(u, l, s, j)
      BY <1>4, <1>8, <3>1 DEF Rising
    <3> QED BY <1>5, <3>1, <3>2
  <2>5. CASE p <= i
    <3>1. i - p \in 0 .. Len(v) + 1 /\ j - p \in 0 .. Len(v) + 1 /\ i - p < j - p
          /\ p + (i - p) = i /\ p + (j - p) = j
      BY <1>3, <1>4, <2>5
    <3>2. Fence(v, s, g, i - p) < Fence(v, s, g, j - p)
      BY <1>8, <3>1 DEF Rising
    <3>3. Fence(w, l, g, i) = Fence(v, s, g, i - p) /\ Fence(w, l, g, j) = Fence(v, s, g, j - p)
      BY <1>5, <3>1
    <3> QED BY <3>2, <3>3
  <2>6. CASE i < p /\ p < j
    <3>1. i \in 0 .. p - 1 /\ j \in p .. Len(w) + 1
      BY <1>3, <1>4, <2>6
    <3>2. Fence(w, l, g, i) < s /\ s <= Fence(w, l, g, j)
      BY <2>1, <2>2, <3>1
    <3> QED BY <2>3, <3>2
  <2> QED BY <1>3, <1>4, <2>4, <2>5, <2>6
<1> QED BY <1>6, <1>7, <1>8

FencesWithout(w, u, d, l, g) ==
  /\ \A i \in 0 .. d - 1 : Fence(w, l, g, i) = Fence(u, l, g, i)
  /\ \A i \in d .. Len(u) : Fence(w, l, g, i) = Fence(u, l, g, i + 1)

LEMMA WithoutFences ==
  ASSUME NEW w \in Seq(Int), NEW u \in Seq(Int), NEW d, NEW l \in Int, NEW g \in Int,
         IsWithout(w, u, d)
  PROVE  FencesWithout(w, u, d, l, g)
<1>1. Fenced(w, l, g) /\ Fenced(u, l, g)
  BY FenceIs
<1>2. Len(w) \in Nat /\ Len(u) \in Nat /\ Len(w) = Len(u) - 1 /\ d \in 1 .. Len(u)
  BY <1>1 DEF Fenced, IsWithout
<1>3. ASSUME NEW i \in 0 .. d - 1 PROVE Fence(w, l, g, i) = Fence(u, l, g, i)
  <2>1. CASE i = 0
    BY <1>1, <2>1 DEF Fenced
  <2>2. CASE i \in 1 .. d - 1
    <3>1. w[i] = u[i]
      BY <2>2 DEF IsWithout
    <3>2. i \in 1 .. Len(w) /\ i \in 1 .. Len(u)
      BY <1>2, <2>2
    <3>3. Fence(w, l, g, i) = w[i] /\ Fence(u, l, g, i) = u[i]
      BY <1>1, <3>2 DEF Fenced
    <3> QED BY <3>1, <3>3
  <2> QED BY <1>2, <2>1, <2>2
<1>4. ASSUME NEW i \in d .. Len(u) PROVE Fence(w, l, g, i) = Fence(u, l, g, i + 1)
  <2>1. CASE i = Len(u)
    <3>1. i = Len(w) + 1 /\ i + 1 = Len(u) + 1
      BY <1>2, <2>1
    <3>2. Fence(w, l, g, Len(w) + 1) = g /\ Fence(u, l, g, Len(u) + 1) = g
      BY <1>1 DEF Fenced
    <3> QED BY <3>1, <3>2
  <2>2. CASE i \in d .. Len(u) - 1
    <3>1. w[i] = u[i + 1]
      BY <2>2 DEF IsWithout
    <3>2. i \in 1 .. Len(w) /\ i + 1 \in 1 .. Len(u)
      BY <1>2, <2>2
    <3>3. Fence(w, l, g, i) = w[i] /\ Fence(u, l, g, i + 1) = u[i + 1]
      BY <1>1, <3>2 DEF Fenced
    <3> QED BY <3>1, <3>3
  <2>3. i = Len(u) \/ i \in d .. Len(u) - 1
    BY <1>2
  <2> QED BY <2>1, <2>2, <2>3
<1> QED BY <1>3, <1>4 DEF FencesWithout

LEMMA WithoutRising ==
  ASSUME NEW w \in Seq(Int), NEW u \in Seq(Int), NEW d, NEW l \in Int, NEW g \in Int,
         IsWithout(w, u, d), Rising(u, l, g)
  PROVE  Rising(w, l, g)
<1>1. FencesWithout(w, u, d, l, g)
  BY WithoutFences
<1>2. Fenced(w, l, g) /\ Fenced(u, l, g)
  BY FenceIs
<1>3. Len(w) \in Nat /\ Len(u) \in Nat /\ Len(w) = Len(u) - 1 /\ d \in 1 .. Len(u)
  BY <1>2 DEF Fenced, IsWithout
<1> SUFFICES ASSUME NEW i \in 0 .. Len(w) + 1, NEW j \in 0 .. Len(w) + 1, i < j
             PROVE  Fence(w, l, g, i) < Fence(w, l, g, j)
  BY DEF Rising
<1>4. PICK k : k = IF i < d THEN i ELSE i + 1
  OBVIOUS
<1>5. PICK n : n = IF j < d THEN j ELSE j + 1
  OBVIOUS
<1>6. Fence(w, l, g, i) = Fence(u, l, g, k)
  <2>1. i \in 0 .. d - 1 \/ i \in d .. Len(u)
    <3>1. PICK q, z : q = Len(u) /\ z = Len(w)
      OBVIOUS
    <3>2. q \in Nat /\ z = q - 1 /\ d \in 1 .. q /\ i \in 0 .. z + 1
      BY <1>3, <3>1
    <3>3. i \in 0 .. d - 1 \/ i \in d .. q
      BY <3>2
    <3> QED BY <3>1, <3>3
  <2> QED BY <1>1, <1>3, <1>4, <2>1 DEF FencesWithout
<1>7. Fence(w, l, g, j) = Fence(u, l, g, n)
  <2>1. j \in 0 .. d - 1 \/ j \in d .. Len(u)
    <3>1. PICK q, z : q = Len(u) /\ z = Len(w)
      OBVIOUS
    <3>2. q \in Nat /\ z = q - 1 /\ d \in 1 .. q /\ j \in 0 .. z + 1
      BY <1>3, <3>1
    <3>3. j \in 0 .. d - 1 \/ j \in d .. q
      BY <3>2
    <3> QED BY <3>1, <3>3
  <2> QED BY <1>1, <1>3, <1>5, <2>1 DEF FencesWithout
<1>8. k \in 0 .. Len(u) + 1 /\ n \in 0 .. Len(u) + 1 /\ k < n
  <2>1. PICK q, z : q = Len(u) /\ z = Len(w)
    OBVIOUS
  <2>2. /\ q \in Nat /\ z = q - 1 /\ d \in 1 .. q
        /\ i \in 0 .. z + 1 /\ j \in 0 .. z + 1 /\ i < j
    BY <1>3, <2>1
  <2>3. k \in 0 .. q + 1
    BY <1>4, <2>2
  <2>4. n \in 0 .. q + 1
    BY <1>5, <2>2
  <2>5. k < n
    BY <1>4, <1>5, <2>2
  <2> QED BY <2>1, <2>3, <2>4, <2>5
<1>9. Fence(u, l, g, k) < Fence(u, l, g, n)
  BY <1>8 DEF Rising
<1> QED BY <1>6, <1>7, <1>9

LEMMA WithRising ==
  ASSUME NEW w \in Seq(Int), NEW u \in Seq(Int), NEW d, NEW l \in Int, NEW g \in Int,
         IsWithout(w, u, d), Rising(w, l, g),
         Fence(w, l, g, d - 1) < u[d], u[d] < Fence(w, l, g, d)
  PROVE  Rising(u, l, g)
<1>1. FencesWithout(w, u, d, l, g)
  BY WithoutFences
<1>2. Fenced(w, l, g) /\ Fenced(u, l, g)
  BY FenceIs
<1>3. Len(w) \in Nat /\ Len(u) \in Nat /\ Len(w) = Len(u) - 1 /\ d \in 1 .. Len(u)
  BY <1>2 DEF Fenced, IsWithout
<1>4. /\ \A i \in 0 .. Len(w) + 1 : Fence(w, l, g, i) \in Int
      /\ \A i \in 0 .. Len(u) + 1 : Fence(u, l, g, i) \in Int
      /\ Fence(u, l, g, d) = u[d]
  BY <1>2, <1>3 DEF Fenced
<1>5. \A i, j \in 0 .. Len(w) + 1 : i < j => Fence(w, l, g, i) < Fence(w, l, g, j)
  BY DEF Rising
<1>6. /\ \A i \in 0 .. d - 1 : Fence(u, l, g, i) = Fence(w, l, g, i)
      /\ \A i \in d + 1 .. Len(u) + 1 : Fence(u, l, g, i) = Fence(w, l, g, i - 1)
  <2>1. \A i \in 0 .. d - 1 : Fence(u, l, g, i) = Fence(w, l, g, i)
    BY <1>1 DEF FencesWithout
  <2>2. ASSUME NEW i \in d + 1 .. Len(u) + 1 PROVE Fence(u, l, g, i) = Fence(w, l, g, i - 1)
    <3>1. i - 1 \in d .. Len(u) /\ i - 1 + 1 = i
      BY <1>3
    <3>2. Fence(w, l, g, i - 1) = Fence(u, l, g, i - 1 + 1)
      BY <1>1, <3>1 DEF FencesWithout
    <3> QED BY <3>1, <3>2
  <2> QED BY <2>1, <2>2
<1>7. ASSUME NEW i \in 0 .. d - 1 PROVE Fence(u, l, g, i) < u[d]
  <2>1. i \in 0 .. Len(w) + 1 /\ d - 1 \in 0 .. Len(w) + 1 /\ (i = d - 1 \/ i < d - 1)
    BY <1>3
  <2>2. Fence(w, l, g, i) = Fence(w, l, g, d - 1) \/ Fence(w, l, g, i) < Fence(w, l, g, d - 1)
    BY <1>5, <2>1
  <2>3. u[d] \in Int
    BY <1>3, <1>4
  <2> QED BY <1>4, <1>6, <2>1, <2>2, <2>3
<1>8. ASSUME NEW i \in d + 1 .. Len(u) + 1 PROVE u[d] < Fence(u, l, g, i)
  <2>1. i - 1 \in 0 .. Len(w) + 1 /\ d \in 0 .. Len(w) + 1 /\ (i - 1 = d \/ d < i - 1)
    BY <1>3
  <2>2. Fence(w, l, g, i - 1) = Fence(w, l, g, d) \/ Fence(w, l, g, d) < Fence(w, l, g, i - 1)
    BY <1>5, <2>1
  <2>3. u[d] \in Int
    BY <1>3, <1>4
  <2> QED BY <1>4, <1>6, <2>1, <2>2, <2>3
<1> SUFFICES ASSUME NEW i \in 0 .. Len(u) + 1, NEW j \in 0 .. Len(u) + 1, i < j
             PROVE  Fence(u, l, g, i) < Fence(u, l, g, j)
  BY DEF Rising
<1>9. CASE i = d
  <2>1. j \in d + 1 .. Len(u) + 1
    BY <1>9
  <2> QED BY <1>4, <1>8, <1>9, <2>1
<1>10. CASE j = d
  <2>1. i \in 0 .. d - 1
    BY <1>10
  <2> QED BY <1>4, <1>7, <1>10, <2>1
<1>11. CASE i # d /\ j # d
  <2>1. PICK k : k = IF i < d THEN i ELSE i - 1
    OBVIOUS
  <2>2. PICK n : n = IF j < d THEN j ELSE j - 1
    OBVIOUS
  <2>3. i \in 0 .. d - 1 \/ i \in d + 1 .. Len(u) + 1
    BY <1>3, <1>11
  <2>4. j \in 0 .. d - 1 \/ j \in d + 1 .. Len(u) + 1
    BY <1>3, <1>11
  <2>5. Fence(u, l, g, i) = Fence(w, l, g, k)
    BY <1>3, <1>6, <2>1, <2>3
  <2>6. Fence(u, l, g, j) = Fence(w, l, g, n)
    BY <1>3, <1>6, <2>2, <2>4
  <2>7. k \in 0 .. Len(w) + 1 /\ n \in 0 .. Len(w) + 1
    <3>1. (i < d /\ k = i) \/ (d < i /\ k = i - 1)
      BY <1>3, <1>11, <2>1
    <3>2. (j < d /\ n = j) \/ (d < j /\ n = j - 1)
      BY <1>3, <1>11, <2>2
    <3>3. PICK q, z : q = Len(w) /\ z = Len(u)
      OBVIOUS
    <3>4. q \in Nat /\ z = q + 1 /\ d \in 1 .. z /\ i \in 0 .. z + 1 /\ j \in 0 .. z + 1
      BY <1>3, <3>3
    <3>5. k \in 0 .. q + 1
      BY <3>1, <3>4
    <3>6. n \in 0 .. q + 1
      BY <3>2, <3>4
    <3> QED BY <3>3, <3>5, <3>6
  <2>8. k < n
    <3>1. (i < d /\ k = i) \/ (d < i /\ k = i - 1)
      BY <1>3, <1>11, <2>1
    <3>2. (j < d /\ n = j) \/ (d < j /\ n = j - 1)
      BY <1>3, <1>11, <2>2
    <3> QED BY <1>3, <3>1, <3>2
  <2> QED BY <1>5, <2>5, <2>6, <2>7, <2>8
<1> QED BY <1>9, <1>10, <1>11

TreeNodes(m) == m \in [DOMAIN m -> Node] /\ DOMAIN m \subseteq Nat \ {0} /\ IsFiniteSet(DOMAIN m)

SameBody(b, c) ==
  b.leaf = c.leaf /\ b.values = c.values /\ b.children = c.children /\ b.max_count = c.max_count

(***************************************************************************)
(* The tree n is the tree m in which the siblings x and y, the children at *)
(* places d and d + 1 of p, are one node x, with the value of p between    *)
(* them.  Only the contents of nodes are compared; whether the nodes know  *)
(* their parents is said apart, by Links.                                  *)
(***************************************************************************)
Joined(m, n, p, d, x, y) ==
  /\ y \notin DOMAIN n /\ DOMAIN m = DOMAIN n \cup {y}
  /\ x \in DOMAIN n /\ p \in DOMAIN n /\ x # p
  /\ \A z \in DOMAIN n \ {x, p} : SameBody(m[z], n[z])
  /\ m[x].leaf = n[x].leaf /\ m[y].leaf = n[x].leaf /\ ~m[p].leaf /\ ~n[p].leaf
  /\ m[p].children[d] = x /\ m[p].children[d + 1] = y
  /\ IsJoin(n[x].values, m[x].values, m[p].values[d], m[y].values)
  /\ IsConcat(n[x].children, m[x].children, m[y].children)
  /\ IsWithout(n[p].values, m[p].values, d)
  /\ IsWithout(n[p].children, m[p].children, d + 1)

OnlyOf(f, n) == [z \in DOMAIN n |-> f[z]]

JoinedHi(hi, n, x, y) == [z \in DOMAIN n |-> IF z = x THEN hi[y] ELSE hi[z]]

\* A node that is in the children of some node, which it knows as its parent, is not lost.
LEMMA NoneLostIf ==
  ASSUME NEW m, NEW r, TreeNodes(m), Links(m),
         \A c \in DOMAIN m \ {r} :
           \E z \in DOMAIN m : \E i \in 1 .. Len(m[z].children) : m[z].children[i] = c
  PROVE  NoneLost(m, r)
<1> SUFFICES ASSUME NEW c \in DOMAIN m \ {r}
             PROVE  /\ m[c].parent \in DOMAIN m
                    /\ m[c].position + 1 \in 1 .. Len(m[m[c].parent].children)
                    /\ m[m[c].parent].children[m[c].position + 1] = c
  BY DEF NoneLost
<1>1. PICK z \in DOMAIN m : \E i \in 1 .. Len(m[z].children) : m[z].children[i] = c
  OBVIOUS
<1>2. PICK i \in 1 .. Len(m[z].children) : m[z].children[i] = c
  BY <1>1
<1>3. m[c].parent = z /\ m[c].position = i - 1
  BY <1>2 DEF Links
<1>4. i - 1 + 1 = i
  OBVIOUS
<1> QED BY <1>2, <1>3, <1>4

LEMMA JoinedSeqs ==
  ASSUME NEW m, NEW n, NEW p, NEW d, NEW x, NEW y, TreeNodes(m), TreeNodes(n), Joined(m, n, p, d, x, y)
  PROVE  /\ n[x].values \in Seq(Int) /\ m[x].values \in Seq(Int) /\ m[y].values \in Seq(Int)
         /\ n[p].values \in Seq(Int) /\ m[p].values \in Seq(Int)
         /\ m[p].values[d] \in Int /\ d \in Nat /\ d >= 1
         /\ x \in DOMAIN m /\ y \in DOMAIN m /\ p \in DOMAIN m /\ x # y /\ p # y
<1>1. x \in DOMAIN m /\ y \in DOMAIN m /\ p \in DOMAIN m /\ x # y /\ p # y
  BY DEF Joined
<1>2. x \in DOMAIN n /\ p \in DOMAIN n
  BY DEF Joined
<1>3. m[x] \in Node /\ m[y] \in Node /\ m[p] \in Node /\ n[x] \in Node /\ n[p] \in Node
  BY <1>1, <1>2 DEF TreeNodes
<1>4. /\ n[x].values \in Seq(Int) /\ m[x].values \in Seq(Int) /\ m[y].values \in Seq(Int)
      /\ n[p].values \in Seq(Int) /\ m[p].values \in Seq(Int)
  BY <1>3 DEF Node
<1>5. d \in 1 .. Len(m[p].values)
  BY DEF Joined, IsWithout
<1>6. m[p].values[d] \in Int /\ d \in Nat /\ d >= 1
  BY <1>4, <1>5, ElementOfSeq, LenProperties
<1> QED BY <1>1, <1>4, <1>6

LEMMA JoinSound ==
  ASSUME NEW m, NEW r, NEW h, NEW lo, NEW hi, Sound(m, r, h, lo, hi),
         NEW n, NEW p, NEW d, NEW x, NEW y, Joined(m, n, p, d, x, y), TreeNodes(n), Links(n)
  PROVE  /\ Sound(n, r, OnlyOf(h, n), OnlyOf(lo, n), JoinedHi(hi, n, x, y))
         /\ x # r /\ y # r /\ h[x] = h[y] /\ h[p] = h[x] + 1
         /\ hi[x] = m[p].values[d] /\ lo[y] = m[p].values[d]
<1>1. PICK h2, lo2, hi2 : h2 = OnlyOf(h, n) /\ lo2 = OnlyOf(lo, n) /\ hi2 = JoinedHi(hi, n, x, y)
  OBVIOUS
<1>2. Typed(m, r, h, lo, hi) /\ TreeNodes(m)
  BY DEF Sound, Typed, TreeNodes
<1>3. /\ DOMAIN m = DOMAIN n \cup {y} /\ y \notin DOMAIN n /\ x \in DOMAIN n /\ p \in DOMAIN n
      /\ x # p /\ x # y /\ p # y /\ x \in DOMAIN m /\ y \in DOMAIN m /\ p \in DOMAIN m
      /\ m[p].children[d] = x /\ m[p].children[d + 1] = y /\ ~m[p].leaf /\ ~n[p].leaf
      /\ \A z \in DOMAIN n \ {x, p} : SameBody(m[z], n[z])
      /\ m[x].leaf = n[x].leaf /\ m[y].leaf = n[x].leaf
  BY DEF Joined
<1>4. PICK u, v, w, s, f, g : /\ u = m[x].values /\ v = m[y].values /\ w = n[x].values
                              /\ s = m[p].values[d] /\ f = m[p].values /\ g = n[p].values
  OBVIOUS
<1>5. /\ u \in Seq(Int) /\ v \in Seq(Int) /\ w \in Seq(Int) /\ f \in Seq(Int) /\ g \in Seq(Int)
      /\ s \in Int /\ d \in Nat /\ d >= 1
  BY <1>2, <1>4, JoinedSeqs
<1>6. IsJoin(w, u, s, v) /\ IsWithout(g, f, d)
  BY <1>4 DEF Joined
<1>7. PICK cx, cy, cw, cp, cq :
        /\ cx = m[x].children /\ cy = m[y].children /\ cw = n[x].children
        /\ cp = m[p].children /\ cq = n[p].children
  OBVIOUS
<1>8. IsConcat(cw, cx, cy) /\ IsWithout(cq, cp, d + 1)
  BY <1>7 DEF Joined
<1>9. d \in 1 .. Len(f) /\ Len(f) \in Nat /\ Len(u) \in Nat /\ Len(v) \in Nat /\ Len(cp) = Len(f) + 1
  <2>1. Len(cp) = Len(f) + 1
    BY <1>3, <1>4, <1>7 DEF Sound, Shape, Furnished
  <2> QED BY <1>5, <1>6, <2>1, LenProperties DEF IsWithout
<1>10. d \in 1 .. Len(m[p].children) /\ d + 1 \in 1 .. Len(m[p].children)
  BY <1>7, <1>9
<1>11. Hangs(m, r, h, lo, hi, x, p, d) /\ Hangs(m, r, h, lo, hi, y, p, d + 1)
  BY <1>3, <1>10 DEF Sound, Shape, Hung
<1>12. /\ m[x].parent = p /\ m[x].position = d - 1
       /\ m[y].parent = p /\ m[y].position = d + 1 - 1
  BY <1>3, <1>10 DEF Sound, Links
<1>13. /\ \A z \in DOMAIN m : h[z] \in Nat /\ lo[z] \in Int /\ hi[z] \in Int
       /\ r \in DOMAIN m
  BY <1>2, NodeOf DEF Typed
<1>14. Fenced(f, lo[p], hi[p])
  BY <1>3, <1>5, <1>13, FenceIs
<1>15. /\ x # r /\ y # r /\ h[p] = h[x] + 1 /\ h[p] = h[y] + 1
       /\ lo[x] = Fence(f, lo[p], hi[p], d - 1) /\ hi[x] = Fence(f, lo[p], hi[p], d)
       /\ lo[y] = Fence(f, lo[p], hi[p], d) /\ hi[y] = Fence(f, lo[p], hi[p], d + 1)
  <2>1. d + 1 - 1 = d
    BY <1>5
  <2>2. /\ x # r /\ h[p] = h[x] + 1
        /\ lo[x] = Fence(f, lo[p], hi[p], d - 1) /\ hi[x] = Fence(f, lo[p], hi[p], d)
    BY <1>4, <1>11 DEF Hangs
  <2>3. /\ y # r /\ h[p] = h[y] + 1
        /\ lo[y] = Fence(f, lo[p], hi[p], d + 1 - 1) /\ hi[y] = Fence(f, lo[p], hi[p], d + 1)
    <3>1. PICK e : e = d + 1
      OBVIOUS
    <3>2. Hangs(m, r, h, lo, hi, y, p, e) /\ f = m[p].values
      BY <1>4, <1>11, <3>1
    <3>3. /\ y # r /\ h[p] = h[y] + 1
          /\ lo[y] = Fence(f, lo[p], hi[p], e - 1) /\ hi[y] = Fence(f, lo[p], hi[p], e)
      BY <3>2 DEF Hangs
    <3> QED BY <1>5, <3>1, <3>3
  <2> QED BY <2>1, <2>2, <2>3
<1>16. h[x] = h[y] /\ hi[x] = s /\ lo[y] = s /\ r \in DOMAIN n
  <2>1. Fence(f, lo[p], hi[p], d) = s
    BY <1>4, <1>9, <1>14 DEF Fenced
  <2>2. h[x] = h[y]
    BY <1>3, <1>13, <1>15
  <2> QED BY <1>3, <1>13, <1>15, <2>1, <2>2
<1>17. /\ \A z \in DOMAIN n : h2[z] = h[z] /\ lo2[z] = lo[z] /\ (z # x => hi2[z] = hi[z])
       /\ hi2[x] = hi[y]
  BY <1>1, <1>3 DEF OnlyOf, JoinedHi
\* Every other child is a node as before.
<1>18. ASSUME NEW z \in DOMAIN m, NEW i \in 1 .. Len(m[z].children), NEW c,
              c = m[z].children[i], z # p \/ (i # d /\ i # d + 1)
       PROVE  /\ c \in DOMAIN n /\ c # r /\ c # x /\ c # y /\ h2[c] = h[c] /\ lo2[c] = lo[c]
              /\ hi2[c] = hi[c] /\ h[z] = h[c] + 1
              /\ lo[c] = Fence(m[z].values, lo[z], hi[z], i - 1)
              /\ hi[c] = Fence(m[z].values, lo[z], hi[z], i)
  <2>1. Hangs(m, r, h, lo, hi, c, z, i)
    BY <1>18 DEF Sound, Shape, Hung
  <2>2. m[c].parent = z /\ m[c].position = i - 1
    BY <1>18 DEF Sound, Links
  <2>3. c # x /\ c # y
    <3>1. PICK e1 : e1 = d + 1
      OBVIOUS
    <3>2. d \in Nat /\ d # 0 /\ i \in Nat /\ (z # p \/ (i # d /\ i # e1))
      BY <1>5, <1>18, <3>1
    <3>3. m[x].parent = p /\ m[x].position = d - 1 /\ m[y].parent = p /\ m[y].position = e1 - 1
      BY <1>5, <1>12, <3>1
    <3>4. i - 1 = d - 1 => i = d
      BY <3>2
    <3>5. i - 1 = e1 - 1 => i = e1
      BY <1>5, <3>1, <3>2
    <3> QED BY <2>2, <3>2, <3>3, <3>4, <3>5, Zenon
  <2>4. c \in DOMAIN m /\ c # r
    BY <2>1 DEF Hangs
  <2> QED BY <1>3, <1>17, <2>1, <2>3, <2>4 DEF Hangs
<1>19. Typed(n, r, h2, lo2, hi2)
  <2>1. h2 \in [DOMAIN n -> Nat] /\ lo2 \in [DOMAIN n -> Int] /\ hi2 \in [DOMAIN n -> Int]
    BY <1>1, <1>3, <1>13 DEF OnlyOf, JoinedHi
  <2> QED BY <1>16, <2>1 DEF Typed, TreeNodes
<1>20. JoinedFences(w, u, s, v, lo[x], hi[y]) /\ FencesWithout(g, f, d, lo[p], hi[p])
  BY <1>3, <1>5, <1>6, <1>13, JoinFences, WithoutFences
<1>21. Ordered(n, lo2, hi2)
  <2> SUFFICES ASSUME NEW z \in DOMAIN n PROVE Rising(n[z].values, lo2[z], hi2[z])
    BY DEF Ordered
  <2>1. \A q \in DOMAIN m : Rising(m[q].values, lo[q], hi[q])
    BY DEF Sound, Shape, Ordered
  <2>2. CASE z = x
    <3>1. Rising(u, lo[x], s) /\ Rising(v, s, hi[y])
      BY <1>3, <1>4, <1>16, <2>1
    <3>2. Rising(w, lo[x], hi[y])
      BY <1>3, <1>5, <1>6, <1>13, <3>1, JoinRising
    <3> QED BY <1>3, <1>4, <1>17, <2>2, <3>2
  <2>3. CASE z = p
    <3>1. Rising(f, lo[p], hi[p])
      BY <1>3, <1>4, <2>1
    <3>2. Rising(g, lo[p], hi[p])
      BY <1>3, <1>5, <1>6, <1>13, <3>1, WithoutRising
    <3> QED BY <1>3, <1>4, <1>17, <2>3, <3>2
  <2>4. CASE z # x /\ z # p
    <3>1. n[z].values = m[z].values
      BY <1>3, <2>4 DEF SameBody
    <3> QED BY <1>3, <1>17, <2>1, <2>4, <3>1
  <2> QED BY <2>2, <2>3, <2>4
<1>22. Furnished(n, h2)
  <2> SUFFICES ASSUME NEW z \in DOMAIN n
               PROVE  /\ n[z].leaf <=> h2[z] = 0
                      /\ Len(n[z].children) = IF n[z].leaf THEN 0 ELSE Len(n[z].values) + 1
    BY DEF Furnished
  <2>1. \A q \in DOMAIN m :
          /\ m[q].leaf <=> h[q] = 0
          /\ Len(m[q].children) = IF m[q].leaf THEN 0 ELSE Len(m[q].values) + 1
    BY DEF Sound, Shape, Furnished
  <2>2. CASE z = x
    <3>1. n[x].leaf <=> h2[x] = 0
      BY <1>3, <1>17, <2>1
    <3>2. Len(cw) = Len(cx) + Len(cy) /\ Len(w) = Len(u) + 1 + Len(v)
      BY <1>6, <1>8 DEF IsConcat, IsJoin
    <3>3. CASE n[x].leaf
      <4>1. Len(cx) = 0 /\ Len(cy) = 0
        BY <1>3, <1>7, <2>1, <3>3
      <4> QED BY <1>7, <2>2, <3>1, <3>2, <3>3, <4>1
    <3>4. CASE ~n[x].leaf
      <4>1. Len(cx) = Len(u) + 1 /\ Len(cy) = Len(v) + 1
        BY <1>3, <1>4, <1>7, <2>1, <3>4
      <4>2. Len(cw) = Len(w) + 1
        BY <1>9, <3>2, <4>1
      <4> QED BY <1>4, <1>7, <2>2, <3>1, <3>4, <4>2
    <3> QED BY <3>3, <3>4
  <2>3. CASE z = p
    <3>1. Len(cq) = Len(cp) - 1 /\ Len(g) = Len(f) - 1
      BY <1>6, <1>8 DEF IsWithout
    <3>2. Len(cq) = Len(g) + 1
      BY <1>9, <3>1
    <3>3. n[p].leaf <=> h2[p] = 0
      BY <1>3, <1>17, <2>1
    <3> QED BY <1>3, <1>4, <1>7, <2>3, <3>2, <3>3
  <2>4. CASE z # x /\ z # p
    <3>1. n[z].values = m[z].values /\ n[z].children = m[z].children /\ n[z].leaf = m[z].leaf
      BY <1>3, <2>4 DEF SameBody
    <3> QED BY <1>3, <1>17, <2>1, <3>1
  <2> QED BY <2>2, <2>3, <2>4
<1>23. Hung(n, r, h2, lo2, hi2)
  <2> SUFFICES ASSUME NEW z \in DOMAIN n, NEW i \in 1 .. Len(n[z].children)
               PROVE  Hangs(n, r, h2, lo2, hi2, n[z].children[i], z, i)
    BY DEF Hung
  <2>1. PICK c : c = n[z].children[i]
    OBVIOUS
  <2>2. CASE z = x
    <3>1. Len(cx) \in Nat /\ Len(cy) \in Nat /\ i \in 1 .. Len(cx) + Len(cy)
      <4>1. Len(cx) \in Nat /\ Len(cy) \in Nat
        BY <1>2, <1>3, <1>7, NodeOf
      <4> QED BY <1>7, <1>8, <2>2, <4>1 DEF IsConcat
    <3>2. ~n[x].leaf
      BY <1>19, <1>22, <2>2, NodeOf DEF Furnished
    <3>3. Len(cx) = Len(u) + 1 /\ Len(cy) = Len(v) + 1
      BY <1>3, <1>4, <1>7, <3>2 DEF Sound, Shape, Furnished
    <3>4. CASE i \in 1 .. Len(cx)
      <4>1. c = cx[i]
        BY <1>7, <1>8, <2>1, <2>2, <3>4 DEF IsConcat
      <4>2. /\ c \in DOMAIN n /\ c # r /\ h2[c] = h[c] /\ lo2[c] = lo[c]
            /\ hi2[c] = hi[c] /\ h[x] = h[c] + 1
            /\ lo[c] = Fence(u, lo[x], s, i - 1) /\ hi[c] = Fence(u, lo[x], s, i)
        BY <1>3, <1>4, <1>7, <1>16, <1>18, <3>4, <4>1
      <4>3. i - 1 \in 0 .. Len(u) + 1 /\ i \in 0 .. Len(u) + 1
        BY <1>9, <3>3, <3>4
      <4>4. Fence(w, lo[x], hi[y], i - 1) = Fence(u, lo[x], s, i - 1)
        BY <1>20, <4>3 DEF JoinedFences
      <4>5. Fence(w, lo[x], hi[y], i) = Fence(u, lo[x], s, i)
        BY <1>20, <4>3 DEF JoinedFences
      <4> QED BY <1>3, <1>4, <1>17, <2>1, <2>2, <4>2, <4>4, <4>5 DEF Hangs
    <3>5. CASE i \notin 1 .. Len(cx)
      <4>1. PICK j : j = i - Len(cx)
        OBVIOUS
      <4>2. j \in 1 .. Len(cy) /\ i = Len(cx) + j
        BY <3>1, <3>5, <4>1
      <4>3. c = cy[j]
        BY <1>7, <1>8, <2>1, <2>2, <4>2 DEF IsConcat
      <4>4. /\ c \in DOMAIN n /\ c # r /\ h2[c] = h[c] /\ lo2[c] = lo[c]
            /\ hi2[c] = hi[c] /\ h[y] = h[c] + 1
            /\ lo[c] = Fence(v, s, hi[y], j - 1) /\ hi[c] = Fence(v, s, hi[y], j)
        BY <1>3, <1>4, <1>7, <1>16, <1>18, <4>2, <4>3
      <4>5. /\ j - 1 \in 0 .. Len(v) + 1 /\ j \in 0 .. Len(v) + 1
            /\ i - 1 = Len(u) + 1 + (j - 1) /\ i = Len(u) + 1 + j
        BY <1>9, <3>3, <4>2
      <4>6. Fence(w, lo[x], hi[y], i - 1) = Fence(v, s, hi[y], j - 1)
        BY <1>20, <4>5 DEF JoinedFences
      <4>7. Fence(w, lo[x], hi[y], i) = Fence(v, s, hi[y], j)
        BY <1>20, <4>5 DEF JoinedFences
      <4> QED BY <1>3, <1>4, <1>16, <1>17, <2>1, <2>2, <4>4, <4>6, <4>7 DEF Hangs
    <3> QED BY <3>4, <3>5
  <2>3. CASE z = p
    <3>1. Len(cp) \in Nat /\ Len(cq) = Len(cp) - 1 /\ i \in 1 .. Len(cq)
      BY <1>7, <1>8, <1>9, <2>3 DEF IsWithout
    <3>2. CASE i \in 1 .. d
      <4>1. c = cp[i]
        BY <1>5, <1>7, <1>8, <2>1, <2>3, <3>2 DEF IsWithout
      <4>2. i - 1 \in 0 .. d - 1
        BY <1>5, <3>2
      <4>3. Fence(g, lo[p], hi[p], i - 1) = Fence(f, lo[p], hi[p], i - 1)
        BY <1>20, <4>2 DEF FencesWithout
      <4>4. CASE i = d
        <5>1. c = x
          BY <1>3, <1>7, <4>1, <4>4
        <5>2. d \in d .. Len(f)
          BY <1>9
        <5>3. Fence(g, lo[p], hi[p], d) = Fence(f, lo[p], hi[p], d + 1)
          BY <1>20, <5>2 DEF FencesWithout
        <5>4. lo2[x] = Fence(g, lo[p], hi[p], i - 1) /\ hi2[x] = Fence(g, lo[p], hi[p], i)
          BY <1>3, <1>15, <1>17, <4>3, <4>4, <5>3
        <5> QED BY <1>3, <1>4, <1>15, <1>17, <2>1, <2>3, <5>1, <5>4 DEF Hangs
      <4>5. CASE i # d
        <5>1. i # d + 1 /\ i \in 1 .. Len(m[p].children) /\ i \in 0 .. d - 1
          BY <1>5, <1>7, <1>9, <3>2, <4>5
        <5>2. /\ c \in DOMAIN n /\ c # r /\ h2[c] = h[c] /\ lo2[c] = lo[c]
              /\ hi2[c] = hi[c] /\ h[p] = h[c] + 1
              /\ lo[c] = Fence(f, lo[p], hi[p], i - 1) /\ hi[c] = Fence(f, lo[p], hi[p], i)
          <6>1. c = m[p].children[i] /\ p \in DOMAIN m /\ f = m[p].values
            BY <1>3, <1>4, <1>7, <4>1, Zenon
          <6>2. i \in 1 .. Len(m[p].children) /\ i # d /\ i # d + 1
            BY <4>5, <5>1, Zenon
          <6> QED BY <1>18, <6>1, <6>2
        <5>3. Fence(g, lo[p], hi[p], i) = Fence(f, lo[p], hi[p], i)
          BY <1>20, <5>1 DEF FencesWithout
        <5> QED BY <1>3, <1>4, <1>17, <2>1, <2>3, <4>3, <5>2, <5>3 DEF Hangs
      <4> QED BY <4>4, <4>5
    <3>3. CASE i \notin 1 .. d
      <4>1. i \in d + 1 .. Len(cp) - 1 /\ i + 1 \in 1 .. Len(cp) /\ i + 1 # d /\ i + 1 # d + 1
        BY <1>5, <3>1, <3>3
      <4>2. c = cp[i + 1]
        BY <1>7, <1>8, <2>1, <2>3, <4>1 DEF IsWithout
      <4>3. /\ c \in DOMAIN n /\ c # r /\ h2[c] = h[c] /\ lo2[c] = lo[c]
            /\ hi2[c] = hi[c] /\ h[p] = h[c] + 1
            /\ lo[c] = Fence(f, lo[p], hi[p], i + 1 - 1) /\ hi[c] = Fence(f, lo[p], hi[p], i + 1)
        BY <1>3, <1>4, <1>7, <1>18, <4>1, <4>2
      <4>4. i - 1 \in d .. Len(f) /\ i \in d .. Len(f) /\ i - 1 + 1 = i + 1 - 1
        BY <1>5, <1>9, <4>1
      <4>5. Fence(g, lo[p], hi[p], i - 1) = Fence(f, lo[p], hi[p], i - 1 + 1)
        BY <1>20, <4>4 DEF FencesWithout
      <4>6. Fence(g, lo[p], hi[p], i) = Fence(f, lo[p], hi[p], i + 1)
        BY <1>20, <4>4 DEF FencesWithout
      <4> QED BY <1>3, <1>4, <1>17, <2>1, <2>3, <4>3, <4>4, <4>5, <4>6 DEF Hangs
    <3> QED BY <3>2, <3>3
  <2>4. CASE z # x /\ z # p
    <3>1. n[z].values = m[z].values /\ n[z].children = m[z].children /\ z \in DOMAIN m
      BY <1>3, <2>4 DEF SameBody
    <3>2. /\ c \in DOMAIN n /\ c # r /\ h2[c] = h[c] /\ lo2[c] = lo[c]
          /\ hi2[c] = hi[c] /\ h[z] = h[c] + 1
          /\ lo[c] = Fence(m[z].values, lo[z], hi[z], i - 1)
          /\ hi[c] = Fence(m[z].values, lo[z], hi[z], i)
      BY <1>18, <2>1, <2>4, <3>1
    <3> QED BY <1>17, <2>1, <2>4, <3>1, <3>2 DEF Hangs
  <2> QED BY <2>2, <2>3, <2>4
<1>24. NoneLost(n, r)
  <2> SUFFICES ASSUME NEW c \in DOMAIN n \ {r}
               PROVE  \E z \in DOMAIN n : \E i \in 1 .. Len(n[z].children) : n[z].children[i] = c
    BY NoneLostIf
  <2>1. c \in DOMAIN m \ {r} /\ c # y
    BY <1>3
  <2>2. PICK z, i : z = m[c].parent /\ i = m[c].position + 1
    OBVIOUS
  <2>3. z \in DOMAIN m /\ i \in 1 .. Len(m[z].children) /\ m[z].children[i] = c
    BY <2>1, <2>2 DEF Sound, NoneLost
  <2>4. CASE z = x
    <3>1. i \in 1 .. Len(cx) /\ Len(cw) = Len(cx) + Len(cy) /\ cw[i] = c
      BY <1>7, <1>8, <2>3, <2>4 DEF IsConcat
    <3>2. Len(cx) \in Nat /\ Len(cy) \in Nat
      BY <1>2, <1>3, <1>7, NodeOf
    <3>3. i \in 1 .. Len(cw)
      BY <3>1, <3>2
    <3> QED BY <1>3, <1>7, <3>1, <3>3
  <2>5. CASE z = y
    <3>1. i \in 1 .. Len(cy) /\ Len(cw) = Len(cx) + Len(cy) /\ cw[Len(cx) + i] = c
      BY <1>7, <1>8, <2>3, <2>5 DEF IsConcat
    <3>2. Len(cx) \in Nat /\ Len(cy) \in Nat
      BY <1>2, <1>3, <1>7, NodeOf
    <3>3. Len(cx) + i \in 1 .. Len(cw)
      BY <3>1, <3>2
    <3> QED BY <1>3, <1>7, <3>1, <3>3
  <2>6. CASE z = p
    <3>1. i \in 1 .. Len(cp) /\ cp[i] = c /\ i # d + 1 /\ Len(cq) = Len(cp) - 1
      BY <1>3, <1>7, <1>8, <2>1, <2>3, <2>6 DEF IsWithout
    <3>2. CASE i <= d
      <4>1. i \in 1 .. d + 1 - 1 /\ i \in 1 .. Len(cq)
        BY <1>5, <1>9, <3>1, <3>2
      <4>2. cq[i] = cp[i]
        BY <1>5, <1>8, <4>1 DEF IsWithout
      <4> QED BY <1>3, <1>7, <3>1, <4>1, <4>2
    <3>3. CASE ~(i <= d)
      <4>1. i - 1 \in d + 1 .. Len(cp) - 1 /\ i - 1 \in 1 .. Len(cq) /\ i - 1 + 1 = i
        BY <1>5, <1>9, <3>1, <3>3
      <4>2. cq[i - 1] = cp[i - 1 + 1]
        BY <1>5, <1>8, <4>1 DEF IsWithout
      <4> QED BY <1>3, <1>7, <3>1, <4>1, <4>2
    <3> QED BY <3>2, <3>3
  <2>7. CASE z # x /\ z # y /\ z # p
    <3>1. z \in DOMAIN n /\ n[z].children = m[z].children
      BY <1>3, <2>3, <2>7 DEF SameBody
    <3> QED BY <2>3, <3>1
  <2> QED BY <2>4, <2>5, <2>6, <2>7
<1>25. Sound(n, r, h2, lo2, hi2)
  BY <1>19, <1>21, <1>22, <1>23, <1>24 DEF Sound, Shape
<1> QED BY <1>1, <1>4, <1>15, <1>16, <1>25

Extended(f, m, y, e) == [z \in DOMAIN m |-> IF z = y THEN e ELSE f[z]]

SplitHi(hi, m, x, y, s) ==
  [z \in DOMAIN m |-> CASE z = x -> s [] z # x /\ z = y -> hi[x] [] OTHER -> hi[z]]

LEMMA RisingApart ==
  ASSUME NEW w \in Seq(Int), NEW u \in Seq(Int), NEW v \in Seq(Int),
         NEW l \in Int, NEW s \in Int, NEW g \in Int, IsJoin(w, u, s, v), Rising(w, l, g)
  PROVE  Rising(u, l, s) /\ Rising(v, s, g)
BY JoinRising

LEMMA SplitSound ==
  ASSUME NEW n, NEW r, NEW h, NEW lo, NEW hi, Sound(n, r, h, lo, hi),
         NEW m, NEW p, NEW d, NEW x, NEW y, Joined(m, n, p, d, x, y), TreeNodes(m), Links(m),
         ~m[x].leaf => Len(m[x].children) = Len(m[x].values) + 1
  PROVE  /\ Sound(m, r, Extended(h, m, y, h[x]), Extended(lo, m, y, m[p].values[d]),
                  SplitHi(hi, m, x, y, m[p].values[d]))
         /\ x # r /\ y # r /\ h[p] = h[x] + 1
         /\ lo[x] < m[p].values[d] /\ m[p].values[d] < hi[x]
<1>1. PICK h2, lo2, hi2 : /\ h2 = Extended(h, m, y, h[x])
                          /\ lo2 = Extended(lo, m, y, m[p].values[d])
                          /\ hi2 = SplitHi(hi, m, x, y, m[p].values[d])
  OBVIOUS
<1>2. Typed(n, r, h, lo, hi) /\ TreeNodes(n)
  BY DEF Sound, Typed, TreeNodes
<1>3. /\ DOMAIN m = DOMAIN n \cup {y} /\ y \notin DOMAIN n /\ x \in DOMAIN n /\ p \in DOMAIN n
      /\ x # p /\ x # y /\ p # y /\ x \in DOMAIN m /\ y \in DOMAIN m /\ p \in DOMAIN m
      /\ m[p].children[d] = x /\ m[p].children[d + 1] = y /\ ~m[p].leaf /\ ~n[p].leaf
      /\ \A z \in DOMAIN n \ {x, p} : SameBody(m[z], n[z])
      /\ m[x].leaf = n[x].leaf /\ m[y].leaf = n[x].leaf
  BY DEF Joined
<1>4. PICK u, v, w, s, f, g : /\ u = m[x].values /\ v = m[y].values /\ w = n[x].values
                              /\ s = m[p].values[d] /\ f = m[p].values /\ g = n[p].values
  OBVIOUS
<1>5. /\ u \in Seq(Int) /\ v \in Seq(Int) /\ w \in Seq(Int) /\ f \in Seq(Int) /\ g \in Seq(Int)
      /\ s \in Int /\ d \in Nat /\ d >= 1
  BY <1>2, <1>4, JoinedSeqs
<1>6. IsJoin(w, u, s, v) /\ IsWithout(g, f, d)
  BY <1>4 DEF Joined
<1>7. PICK cx, cy, cw, cp, cq :
        /\ cx = m[x].children /\ cy = m[y].children /\ cw = n[x].children
        /\ cp = m[p].children /\ cq = n[p].children
  OBVIOUS
<1>8. IsConcat(cw, cx, cy) /\ IsWithout(cq, cp, d + 1)
  BY <1>7 DEF Joined
<1>9. /\ d \in 1 .. Len(f) /\ Len(f) \in Nat /\ Len(u) \in Nat /\ Len(v) \in Nat
      /\ Len(g) = Len(f) - 1 /\ Len(w) = Len(u) + 1 + Len(v)
      /\ Len(cx) \in Nat /\ Len(cy) \in Nat /\ Len(cp) \in Nat /\ Len(cq) \in Nat
      /\ Len(cp) = Len(f) + 1
  <2>1. Len(cq) = Len(g) + 1
    BY <1>3, <1>4, <1>7 DEF Sound, Shape, Furnished
  <2>2. d \in 1 .. Len(f) /\ Len(g) = Len(f) - 1
    BY <1>6 DEF IsWithout
  <2>3. Len(w) = Len(u) + 1 + Len(v)
    BY <1>6 DEF IsJoin
  <2>4. Len(f) \in Nat /\ Len(u) \in Nat /\ Len(v) \in Nat
    BY <1>5, LenProperties
  <2>5. cx \in Seq(Nat) /\ cy \in Seq(Nat) /\ cp \in Seq(Nat)
    <3>1. m[x] \in Node /\ m[y] \in Node /\ m[p] \in Node
      BY <1>3 DEF TreeNodes
    <3> QED BY <1>7, <3>1 DEF Node
  <2>6. Len(cx) \in Nat /\ Len(cy) \in Nat /\ Len(cp) \in Nat
    BY <2>5, LenProperties
  <2>7. Len(cq) = Len(cp) - 1
    BY <1>8 DEF IsWithout
  <2>8. Len(cp) = Len(f) + 1 /\ Len(cq) \in Nat
    BY <2>1, <2>2, <2>4, <2>6, <2>7
  <2> QED BY <2>2, <2>3, <2>4, <2>6, <2>8
<1>10. d \in 1 .. Len(n[p].children) /\ cq[d] = x /\ Len(cq) = Len(cp) - 1
  <2>1. PICK e : e = d + 1
    OBVIOUS
  <2>2. IsWithout(cq, cp, e)
    BY <1>8, <2>1
  <2>3. Len(cq) = Len(cp) - 1 /\ \A j \in 1 .. e - 1 : cq[j] = cp[j]
    BY <2>2 DEF IsWithout
  <2>4. d \in 1 .. Len(cq) /\ d \in 1 .. e - 1
    BY <1>5, <1>9, <2>1, <2>3
  <2> QED BY <1>3, <1>7, <2>3, <2>4
<1>11. /\ x # r /\ h[p] = h[x] + 1
       /\ lo[x] = Fence(g, lo[p], hi[p], d - 1) /\ hi[x] = Fence(g, lo[p], hi[p], d)
  <2>1. Hangs(n, r, h, lo, hi, x, p, d)
    BY <1>3, <1>7, <1>10 DEF Sound, Shape, Hung
  <2> QED BY <1>4, <2>1 DEF Hangs
<1>12. n[x].parent = p /\ n[x].position = d - 1
  BY <1>3, <1>7, <1>10 DEF Sound, Links
<1>13. /\ \A z \in DOMAIN n : h[z] \in Nat /\ lo[z] \in Int /\ hi[z] \in Int
       /\ r \in DOMAIN n
  BY <1>2, NodeOf DEF Typed
<1>14. Fenced(f, lo[p], hi[p]) /\ Fenced(w, lo[x], hi[x])
  BY <1>3, <1>5, <1>13, FenceIs
<1>15. lo[x] < s /\ s < hi[x]
  <2>1. Rising(w, lo[x], hi[x])
    BY <1>3, <1>4 DEF Sound, Shape, Ordered
  <2>2. ValuesOK(w, lo[x], hi[x])
    BY <1>3, <1>5, <1>13, <2>1, RisingIs
  <2>3. Len(u) + 1 \in 1 .. Len(w) /\ w[Len(u) + 1] = s
    BY <1>6, <1>9 DEF IsJoin
  <2> QED BY <2>2, <2>3 DEF ValuesOK
<1>16. /\ y # r /\ r \in DOMAIN m
       /\ h2[x] = h[x] /\ h2[y] = h[x] /\ lo2[x] = lo[x] /\ lo2[y] = s /\ hi2[x] = s /\ hi2[y] = hi[x]
       /\ \A z \in DOMAIN n : h2[z] = h[z] /\ lo2[z] = lo[z] /\ (z # x => hi2[z] = hi[z])
  <2>1. y # r /\ r \in DOMAIN m
    BY <1>3, <1>13
  <2>2. \A z \in DOMAIN m : /\ h2[z] = IF z = y THEN h[x] ELSE h[z]
                            /\ lo2[z] = IF z = y THEN s ELSE lo[z]
                            /\ hi2[z] = CASE z = x -> s [] z # x /\ z = y -> hi[x] [] OTHER -> hi[z]
    BY <1>1, <1>4 DEF Extended, SplitHi
  <2> QED BY <1>3, <2>1, <2>2
<1>17. JoinedFences(w, u, s, v, lo[x], hi[x]) /\ FencesWithout(g, f, d, lo[p], hi[p])
  BY <1>3, <1>5, <1>6, <1>13, JoinFences, WithoutFences
\* Every other child is a node as before.
<1>18. ASSUME NEW z \in DOMAIN n, NEW i \in 1 .. Len(n[z].children), NEW c,
              c = n[z].children[i], z # p \/ i # d
       PROVE  /\ c \in DOMAIN m /\ c # r /\ c # x /\ c # y /\ h2[c] = h[c] /\ lo2[c] = lo[c]
              /\ hi2[c] = hi[c] /\ h[z] = h[c] + 1
              /\ lo[c] = Fence(n[z].values, lo[z], hi[z], i - 1)
              /\ hi[c] = Fence(n[z].values, lo[z], hi[z], i)
  <2>1. Hangs(n, r, h, lo, hi, c, z, i)
    BY <1>18 DEF Sound, Shape, Hung
  <2>2. n[c].parent = z /\ n[c].position = i - 1
    BY <1>18 DEF Sound, Links
  <2>3. c # x
    BY <1>5, <1>12, <1>18, <2>2
  <2>4. c \in DOMAIN n /\ c # r
    BY <2>1 DEF Hangs
  <2> QED BY <1>3, <1>16, <2>1, <2>3, <2>4 DEF Hangs
<1>19. Typed(m, r, h2, lo2, hi2)
  <2>1. h2 \in [DOMAIN m -> Nat] /\ lo2 \in [DOMAIN m -> Int] /\ hi2 \in [DOMAIN m -> Int]
    <3>1. ASSUME NEW z \in DOMAIN m PROVE h2[z] \in Nat /\ lo2[z] \in Int /\ hi2[z] \in Int
      <4>1. z = y \/ z = x \/ (z \in DOMAIN n /\ z # x)
        BY <1>3
      <4> QED BY <1>3, <1>5, <1>13, <1>16, <4>1
    <3>2. /\ h2 = [z \in DOMAIN m |-> h2[z]] /\ lo2 = [z \in DOMAIN m |-> lo2[z]]
          /\ hi2 = [z \in DOMAIN m |-> hi2[z]]
      BY <1>1 DEF Extended, SplitHi
    <3> QED BY <3>1, <3>2
  <2> QED BY <1>16, <2>1 DEF Typed, TreeNodes
<1>20. Rising(u, lo[x], s) /\ Rising(v, s, hi[x]) /\ Rising(f, lo[p], hi[p])
  <2>1. Rising(w, lo[x], hi[x]) /\ Rising(g, lo[p], hi[p])
    BY <1>3, <1>4 DEF Sound, Shape, Ordered
  <2>2. f[d] = s
    BY <1>4
  <2>5. lo[x] \in Int /\ hi[x] \in Int
    BY <1>3, <1>13
  <2>3. Rising(u, lo[x], s) /\ Rising(v, s, hi[x])
    <3>1. PICK e1, e2 : e1 = lo[x] /\ e2 = hi[x]
      OBVIOUS
    <3>2. e1 \in Int /\ e2 \in Int /\ Rising(w, e1, e2)
      BY <2>1, <2>5, <3>1
    <3>3. w \in Seq(Int) /\ u \in Seq(Int) /\ v \in Seq(Int) /\ s \in Int /\ IsJoin(w, u, s, v)
      BY <1>5, <1>6
    <3>4. Rising(u, e1, s) /\ Rising(v, s, e2)
      BY <3>2, <3>3, RisingApart
    <3> QED BY <3>1, <3>4
  <2>4. Rising(f, lo[p], hi[p])
    BY <1>3, <1>5, <1>6, <1>11, <1>13, <1>15, <2>1, <2>2, WithRising
  <2> QED BY <2>3, <2>4
<1>21. Ordered(m, lo2, hi2)
  <2> SUFFICES ASSUME NEW z \in DOMAIN m PROVE Rising(m[z].values, lo2[z], hi2[z])
    BY DEF Ordered
  <2>1. CASE z = x
    BY <1>4, <1>16, <1>20, <2>1
  <2>2. CASE z = y
    BY <1>4, <1>16, <1>20, <2>2
  <2>3. CASE z = p
    BY <1>3, <1>4, <1>16, <1>20, <2>3
  <2>4. CASE z # x /\ z # y /\ z # p
    <3>1. n[z].values = m[z].values /\ z \in DOMAIN n
      BY <1>3, <2>4 DEF SameBody
    <3>2. Rising(n[z].values, lo[z], hi[z])
      BY <3>1 DEF Sound, Shape, Ordered
    <3> QED BY <1>16, <2>4, <3>1, <3>2
  <2> QED BY <2>1, <2>2, <2>3, <2>4
<1>22. /\ m[x].leaf => Len(cx) = 0 /\ Len(cy) = 0
       /\ ~m[x].leaf => Len(cx) = Len(u) + 1 /\ Len(cy) = Len(v) + 1
       /\ Len(cw) = Len(cx) + Len(cy)
  <2>1. Len(cw) = Len(cx) + Len(cy)
    BY <1>8 DEF IsConcat
  <2>2. Len(cw) = IF m[x].leaf THEN 0 ELSE Len(w) + 1
    BY <1>3, <1>4, <1>7 DEF Sound, Shape, Furnished
  <2>3. ~m[x].leaf => Len(cx) = Len(u) + 1
    BY <1>4, <1>7
  <2> QED BY <1>9, <2>1, <2>2, <2>3
<1>23. Furnished(m, h2)
  <2> SUFFICES ASSUME NEW z \in DOMAIN m
               PROVE  /\ m[z].leaf <=> h2[z] = 0
                      /\ Len(m[z].children) = IF m[z].leaf THEN 0 ELSE Len(m[z].values) + 1
    BY DEF Furnished
  <2>1. \A q \in DOMAIN n :
          /\ n[q].leaf <=> h[q] = 0
          /\ Len(n[q].children) = IF n[q].leaf THEN 0 ELSE Len(n[q].values) + 1
    BY DEF Sound, Shape, Furnished
  <2>2. CASE z = x
    BY <1>3, <1>4, <1>7, <1>16, <1>22, <2>1, <2>2
  <2>3. CASE z = y
    BY <1>3, <1>4, <1>7, <1>16, <1>22, <2>1, <2>3
  <2>4. CASE z = p
    BY <1>3, <1>4, <1>7, <1>9, <1>16, <2>1, <2>4
  <2>5. CASE z # x /\ z # y /\ z # p
    <3>1. /\ n[z].values = m[z].values /\ n[z].children = m[z].children /\ n[z].leaf = m[z].leaf
          /\ z \in DOMAIN n
      BY <1>3, <2>5 DEF SameBody
    <3> QED BY <1>3, <1>16, <2>1, <3>1
  <2> QED BY <2>2, <2>3, <2>4, <2>5
<1>24. Hung(m, r, h2, lo2, hi2)
  <2> SUFFICES ASSUME NEW z \in DOMAIN m, NEW i \in 1 .. Len(m[z].children)
               PROVE  Hangs(m, r, h2, lo2, hi2, m[z].children[i], z, i)
    BY DEF Hung
  <2>1. PICK c : c = m[z].children[i]
    OBVIOUS
  <2>2. CASE z = x
    <3>1. i \in 1 .. Len(cx) /\ c = cx[i]
      BY <1>7, <2>1, <2>2
    <3>2. Len(cx) = Len(u) + 1 /\ i \in 1 .. Len(cw)
      <4>1. Len(cx) # 0
        BY <1>9, <3>1
      <4> QED BY <1>3, <1>9, <1>22, <3>1, <4>1
    <3>3. cw[i] = c
      BY <1>8, <3>1 DEF IsConcat
    <3>4. /\ c \in DOMAIN m /\ c # r /\ h2[c] = h[c] /\ lo2[c] = lo[c]
          /\ hi2[c] = hi[c] /\ h[x] = h[c] + 1
          /\ lo[c] = Fence(w, lo[x], hi[x], i - 1) /\ hi[c] = Fence(w, lo[x], hi[x], i)
      BY <1>3, <1>4, <1>7, <1>18, <3>2, <3>3
    <3>5. i - 1 \in 0 .. Len(u) + 1 /\ i \in 0 .. Len(u) + 1
      BY <1>9, <3>1, <3>2
    <3>6. Fence(w, lo[x], hi[x], i - 1) = Fence(u, lo[x], s, i - 1)
      BY <1>17, <3>5 DEF JoinedFences
    <3>7. Fence(w, lo[x], hi[x], i) = Fence(u, lo[x], s, i)
      BY <1>17, <3>5 DEF JoinedFences
    <3> QED BY <1>3, <1>4, <1>16, <2>1, <2>2, <3>4, <3>6, <3>7 DEF Hangs
  <2>3. CASE z = y
    <3>1. i \in 1 .. Len(cy) /\ c = cy[i]
      BY <1>7, <2>1, <2>3
    <3>2. Len(cx) = Len(u) + 1 /\ Len(cy) = Len(v) + 1 /\ Len(cx) + i \in 1 .. Len(cw)
      <4>1. Len(cy) # 0
        BY <1>9, <3>1
      <4>2. Len(cx) = Len(u) + 1 /\ Len(cy) = Len(v) + 1
        BY <1>3, <1>22, <4>1
      <4>3. PICK e, g1, g2 : e = Len(cx) /\ g1 = Len(cy) /\ g2 = Len(cw)
        OBVIOUS
      <4>4. e \in Nat /\ g1 \in Nat /\ g2 = e + g1 /\ i \in 1 .. g1
        BY <1>9, <1>22, <3>1, <4>3
      <4>5. e + i \in 1 .. g2
        BY <4>4
      <4> QED BY <4>2, <4>3, <4>5
    <3>3. cw[Len(cx) + i] = c
      BY <1>8, <3>1 DEF IsConcat
    <3>4. /\ c \in DOMAIN m /\ c # r /\ h2[c] = h[c] /\ lo2[c] = lo[c]
          /\ hi2[c] = hi[c] /\ h[x] = h[c] + 1
          /\ lo[c] = Fence(w, lo[x], hi[x], Len(cx) + i - 1)
          /\ hi[c] = Fence(w, lo[x], hi[x], Len(cx) + i)
      <4>1. PICK j : j = Len(cx) + i
        OBVIOUS
      <4>2. j \in 1 .. Len(n[x].children) /\ c = n[x].children[j] /\ w = n[x].values
        BY <1>4, <1>7, <3>2, <3>3, <4>1
      <4>3. /\ c \in DOMAIN m /\ c # r /\ h2[c] = h[c] /\ lo2[c] = lo[c]
            /\ hi2[c] = hi[c] /\ h[x] = h[c] + 1
            /\ lo[c] = Fence(w, lo[x], hi[x], j - 1)
            /\ hi[c] = Fence(w, lo[x], hi[x], j)
        BY <1>3, <1>18, <4>2
      <4> QED BY <4>1, <4>3
    <3>5. /\ i - 1 \in 0 .. Len(v) + 1 /\ i \in 0 .. Len(v) + 1
          /\ Len(cx) + i - 1 = Len(u) + 1 + (i - 1) /\ Len(cx) + i = Len(u) + 1 + i
      BY <1>9, <3>1, <3>2
    <3>6. Fence(w, lo[x], hi[x], Len(u) + 1 + (i - 1)) = Fence(v, s, hi[x], i - 1)
      BY <1>17, <3>5 DEF JoinedFences
    <3>7. Fence(w, lo[x], hi[x], Len(u) + 1 + i) = Fence(v, s, hi[x], i)
      BY <1>17, <3>5 DEF JoinedFences
    <3>8. lo[c] = Fence(v, s, hi[x], i - 1) /\ hi[c] = Fence(v, s, hi[x], i)
      BY <3>4, <3>5, <3>6, <3>7
    <3> QED BY <1>3, <1>4, <1>16, <2>1, <2>3, <3>4, <3>8 DEF Hangs
  <2>4. CASE z = p
    <3>1. i \in 1 .. Len(cp) /\ c = cp[i]
      BY <1>7, <2>1, <2>4
    <3>2. /\ \A j \in 0 .. d - 1 : Fence(g, lo[p], hi[p], j) = Fence(f, lo[p], hi[p], j)
          /\ \A j \in d .. Len(f) : Fence(g, lo[p], hi[p], j) = Fence(f, lo[p], hi[p], j + 1)
      BY <1>17 DEF FencesWithout
    <3>3. Fence(f, lo[p], hi[p], d) = s
      BY <1>4, <1>9, <1>14 DEF Fenced
    <3>4. CASE i \in 1 .. d - 1
      <4>1. i \in 1 .. d + 1 - 1 /\ i \in 1 .. Len(cq) /\ i # d
            /\ i \in 0 .. d - 1 /\ i - 1 \in 0 .. d - 1
        <5>1. Len(cq) = Len(cp) - 1 /\ Len(cp) = Len(f) + 1 /\ d \in 1 .. Len(f) /\ Len(f) \in Nat
          BY <1>9, <1>10
        <5>2. i \in Nat /\ i >= 1 /\ i <= d - 1
          BY <1>5, <3>4
        <5>3. i \in 1 .. d + 1 - 1 /\ i # d /\ i \in 0 .. d - 1 /\ i - 1 \in 0 .. d - 1
          BY <1>5, <5>2
        <5>4. i \in 1 .. Len(cq)
          BY <1>5, <5>1, <5>2
        <5> QED BY <5>3, <5>4
      <4>2. cq[i] = cp[i]
        BY <1>5, <1>8, <4>1 DEF IsWithout
      <4>3. /\ c \in DOMAIN m /\ c # r /\ h2[c] = h[c] /\ lo2[c] = lo[c]
            /\ hi2[c] = hi[c] /\ h[p] = h[c] + 1
            /\ lo[c] = Fence(g, lo[p], hi[p], i - 1) /\ hi[c] = Fence(g, lo[p], hi[p], i)
        BY <1>3, <1>4, <1>7, <1>18, <3>1, <4>1, <4>2
      <4>4. lo[c] = Fence(f, lo[p], hi[p], i - 1) /\ hi[c] = Fence(f, lo[p], hi[p], i)
        BY <3>2, <4>1, <4>3
      <4> QED BY <1>3, <1>4, <1>16, <2>1, <2>4, <4>3, <4>4 DEF Hangs
    <3>5. CASE i = d
      <4>1. c = x /\ d - 1 \in 0 .. d - 1
        BY <1>3, <1>5, <1>7, <3>1, <3>5
      <4>2. Fence(f, lo[p], hi[p], d - 1) = lo[x]
        BY <1>11, <3>2, <4>1
      <4> QED BY <1>3, <1>4, <1>11, <1>16, <2>1, <2>4, <3>3, <3>5, <4>1, <4>2 DEF Hangs
    <3>6. CASE i = d + 1
      <4>1. c = y /\ d \in d .. Len(f) /\ i - 1 = d
        BY <1>3, <1>7, <1>9, <3>1, <3>6
      <4>2. Fence(f, lo[p], hi[p], i) = hi[x]
        BY <1>11, <3>2, <3>6, <4>1
      <4>3. lo2[y] = Fence(f, lo[p], hi[p], i - 1) /\ hi2[y] = Fence(f, lo[p], hi[p], i)
        BY <1>16, <3>3, <4>1, <4>2
      <4> QED BY <1>3, <1>4, <1>11, <1>16, <2>1, <2>4, <4>1, <4>3 DEF Hangs
    <3>7. CASE i \in d + 2 .. Len(cp)
      <4>1. PICK j : j = i - 1
        OBVIOUS
      <4>2. /\ j \in d + 1 .. Len(cp) - 1 /\ j \in 1 .. Len(cq) /\ j # d /\ j + 1 = i
            /\ j \in d .. Len(f) /\ j - 1 \in d .. Len(f) /\ j - 1 + 1 = j
        BY <1>5, <1>9, <1>10, <3>7, <4>1
      <4>3. cq[j] = cp[j + 1]
        BY <1>5, <1>8, <4>2 DEF IsWithout
      <4>4. /\ c \in DOMAIN m /\ c # r /\ h2[c] = h[c] /\ lo2[c] = lo[c]
            /\ hi2[c] = hi[c] /\ h[p] = h[c] + 1
            /\ lo[c] = Fence(g, lo[p], hi[p], j - 1) /\ hi[c] = Fence(g, lo[p], hi[p], j)
        BY <1>3, <1>4, <1>7, <1>18, <3>1, <4>2, <4>3
      <4>5. Fence(g, lo[p], hi[p], j - 1) = Fence(f, lo[p], hi[p], j - 1 + 1)
        BY <3>2, <4>2
      <4>6. Fence(g, lo[p], hi[p], j) = Fence(f, lo[p], hi[p], j + 1)
        BY <3>2, <4>2
      <4>7. lo[c] = Fence(f, lo[p], hi[p], i - 1) /\ hi[c] = Fence(f, lo[p], hi[p], i)
        BY <4>1, <4>2, <4>4, <4>5, <4>6
      <4> QED BY <1>3, <1>4, <1>16, <2>1, <2>4, <4>4, <4>7 DEF Hangs
    <3>8. i \in 1 .. d - 1 \/ i = d \/ i = d + 1 \/ i \in d + 2 .. Len(cp)
      BY <1>5, <1>9, <3>1
    <3> QED BY <3>4, <3>5, <3>6, <3>7, <3>8
  <2>5. CASE z # x /\ z # y /\ z # p
    <3>1. n[z].values = m[z].values /\ n[z].children = m[z].children /\ z \in DOMAIN n
      BY <1>3, <2>5 DEF SameBody
    <3>2. /\ c \in DOMAIN m /\ c # r /\ h2[c] = h[c] /\ lo2[c] = lo[c]
          /\ hi2[c] = hi[c] /\ h[z] = h[c] + 1
          /\ lo[c] = Fence(m[z].values, lo[z], hi[z], i - 1)
          /\ hi[c] = Fence(m[z].values, lo[z], hi[z], i)
      BY <1>18, <2>1, <2>5, <3>1
    <3> QED BY <1>16, <2>1, <2>5, <3>1, <3>2 DEF Hangs
  <2> QED BY <2>2, <2>3, <2>4, <2>5
<1>25. NoneLost(m, r)
  <2> SUFFICES ASSUME NEW c \in DOMAIN m \ {r}
               PROVE  \E z \in DOMAIN m : \E i \in 1 .. Len(m[z].children) : m[z].children[i] = c
    BY NoneLostIf
  <2>1. CASE c = y
    <3>1. d + 1 \in 1 .. Len(cp) /\ cp[d + 1] = y
      BY <1>3, <1>7, <1>9
    <3> QED BY <1>3, <1>7, <2>1, <3>1
  <2>2. CASE c # y
    <3>1. c \in DOMAIN n \ {r}
      BY <1>3, <2>2
    <3>2. PICK z, i : z = n[c].parent /\ i = n[c].position + 1
      OBVIOUS
    <3>3. z \in DOMAIN n /\ i \in 1 .. Len(n[z].children) /\ n[z].children[i] = c
      BY <3>1, <3>2 DEF Sound, NoneLost
    <3>4. CASE z = x
      <4>1. i \in 1 .. Len(cx) + Len(cy) /\ cw[i] = c
        BY <1>7, <1>22, <3>3, <3>4
      <4>2. CASE i \in 1 .. Len(cx)
        <5>1. cx[i] = c
          BY <1>8, <4>1, <4>2 DEF IsConcat
        <5> QED BY <1>3, <1>7, <4>2, <5>1
      <4>3. CASE i \notin 1 .. Len(cx)
        <5>1. PICK j : j = i - Len(cx)
          OBVIOUS
        <5>2. j \in 1 .. Len(cy) /\ i = Len(cx) + j
          BY <1>9, <4>1, <4>3, <5>1
        <5>3. cy[j] = c
          BY <1>8, <4>1, <5>2 DEF IsConcat
        <5> QED BY <1>3, <1>7, <5>2, <5>3
      <4> QED BY <4>2, <4>3
    <3>5. CASE z = p
      <4>1. i \in 1 .. Len(cq) /\ cq[i] = c
        BY <1>7, <3>3, <3>5
      <4>2. CASE i <= d
        <5>1. i \in 1 .. d + 1 - 1 /\ i \in 1 .. Len(cp)
          <6>1. Len(cq) = Len(cp) - 1 /\ Len(cp) \in Nat
            BY <1>9, <1>10
          <6>2. i \in Nat /\ i >= 1 /\ i <= Len(cq)
            BY <1>9, <4>1
          <6>3. i \in 1 .. d + 1 - 1
            BY <1>5, <4>2, <6>2
          <6>4. i \in 1 .. Len(cp)
            BY <6>1, <6>2
          <6> QED BY <6>3, <6>4
        <5>2. cp[i] = cq[i]
          BY <1>5, <1>8, <5>1 DEF IsWithout
        <5> QED BY <1>3, <1>7, <4>1, <5>1, <5>2
      <4>3. CASE ~(i <= d)
        <5>1. i \in d + 1 .. Len(cp) - 1 /\ i + 1 \in 1 .. Len(cp)
          <6>1. Len(cq) = Len(cp) - 1 /\ Len(cp) \in Nat
            BY <1>9, <1>10
          <6>2. i \in Nat /\ i >= 1 /\ i <= Len(cq)
            BY <1>9, <4>1
          <6>3. i \in d + 1 .. Len(cp) - 1
            BY <1>5, <4>3, <6>1, <6>2
          <6>4. i + 1 \in 1 .. Len(cp)
            BY <6>1, <6>2
          <6> QED BY <6>3, <6>4
        <5>2. cp[i + 1] = cq[i]
          BY <1>5, <1>8, <5>1 DEF IsWithout
        <5> QED BY <1>3, <1>7, <4>1, <5>1, <5>2
      <4> QED BY <4>2, <4>3
    <3>6. CASE z # x /\ z # p
      <4>1. z \in DOMAIN m /\ n[z].children = m[z].children
        BY <1>3, <3>3, <3>6 DEF SameBody
      <4> QED BY <3>3, <4>1
    <3> QED BY <3>4, <3>5, <3>6
  <2> QED BY <2>1, <2>2
<1>26. Sound(m, r, h2, lo2, hi2)
  BY <1>19, <1>21, <1>23, <1>24, <1>25 DEF Sound, Shape
<1> QED BY <1>1, <1>4, <1>11, <1>15, <1>16, <1>26

(***************************************************************************)
(* The helpers of btree_node.                                              *)
(***************************************************************************)
\* The fields of the map have their types; what its nodes are is said by TreeNodes.
Treelike(t) ==
  t \in [root : Nat, rightmost : Nat, size : Int, mem : {t.mem}, ok : BOOLEAN]

Distinct(cs) == \A i, j \in 1 .. Len(cs) : cs[i] = cs[j] => i = j

Occurs(cs, y) == \E i \in 1 .. Len(cs) : cs[i] = y

LEMMA ContainsIs ==
  ASSUME NEW cs \in Seq(Nat), NEW y
  PROVE  Contains(cs, y) <=> Occurs(cs, y)
<1>1. DOMAIN cs = 1 .. Len(cs)
  BY LenProperties
<1> QED BY <1>1 DEF Contains, Occurs

LEMMA ContainsAll ==
  ASSUME NEW cs \in Seq(Nat)
  PROVE  \A y : Contains(cs, y) <=> Occurs(cs, y)
BY ContainsIs

SameFields(t, u) ==
  /\ Treelike(u) /\ u.root = t.root /\ u.rightmost = t.rightmost /\ u.size = t.size
  /\ DOMAIN u.mem = DOMAIN t.mem

SameLink(b, c) == b.parent = c.parent /\ b.position = c.position

\* In n the node x has the children cs from place "from" on, and they know it.
Placed(m, n, x, from, cs) ==
  /\ TreeNodes(n) /\ DOMAIN n = DOMAIN m
  /\ \A y \in DOMAIN m : y # x => SameBody(m[y], n[y])
  /\ m[x].leaf = n[x].leaf /\ m[x].values = n[x].values /\ m[x].max_count = n[x].max_count
  /\ Len(n[x].children) = from + Len(cs)
  /\ \A i \in 1 .. from : n[x].children[i] = m[x].children[i]
  /\ \A i \in 1 .. Len(cs) : n[x].children[from + i] = cs[i]
  /\ \A i \in 1 .. Len(cs) :
       cs[i] \in DOMAIN m => n[cs[i]].parent = x /\ n[cs[i]].position = from + i - 1
  /\ \A y \in DOMAIN m : ~Occurs(cs, y) => SameLink(m[y], n[y])

\* What the children of z are, by the tree's soundness.
ChildrenOK(m, r, h, z) ==
  /\ m[z].children \in Seq(Nat) /\ Len(m[z].children) \in Nat
  /\ Distinct(m[z].children) /\ ~Occurs(m[z].children, z)
  /\ \A i \in 1 .. Len(m[z].children) :
       /\ m[z].children[i] \in DOMAIN m \ {r} /\ h[z] = h[m[z].children[i]] + 1
       /\ m[m[z].children[i]].parent = z /\ m[m[z].children[i]].position = i - 1
  /\ Len(m[z].children) = IF m[z].leaf THEN 0 ELSE Len(m[z].values) + 1

LEMMA ChildrenAre ==
  ASSUME NEW m, NEW r, NEW h, NEW lo, NEW hi, Sound(m, r, h, lo, hi), NEW z \in DOMAIN m
  PROVE  ChildrenOK(m, r, h, z)
<1>1. Typed(m, r, h, lo, hi)
  BY DEF Sound
<1>2. m[z].children \in Seq(Nat) /\ Len(m[z].children) \in Nat /\ h[z] \in Nat
  BY <1>1, NodeOf
<1>3. ASSUME NEW i \in 1 .. Len(m[z].children)
      PROVE  /\ m[z].children[i] \in DOMAIN m \ {r} /\ h[z] = h[m[z].children[i]] + 1
             /\ m[m[z].children[i]].parent = z /\ m[m[z].children[i]].position = i - 1
  <2>1. Hangs(m, r, h, lo, hi, m[z].children[i], z, i)
    BY DEF Sound, Shape, Hung
  <2>2. m[m[z].children[i]].parent = z /\ m[m[z].children[i]].position = i - 1
    BY DEF Sound, Links
  <2> QED BY <2>1, <2>2 DEF Hangs
<1>4. Distinct(m[z].children)
  <2> SUFFICES ASSUME NEW i \in 1 .. Len(m[z].children), NEW j \in 1 .. Len(m[z].children),
                      m[z].children[i] = m[z].children[j]
               PROVE  i = j
    BY DEF Distinct
  <2>1. i - 1 = j - 1
    BY <1>3
  <2> QED BY <2>1
<1>5. ~Occurs(m[z].children, z)
  <2> SUFFICES ASSUME NEW i \in 1 .. Len(m[z].children), m[z].children[i] = z PROVE FALSE
    BY DEF Occurs
  <2>1. h[z] = h[z] + 1
    BY <1>3
  <2> QED BY <1>2, <2>1
<1>6. Len(m[z].children) = IF m[z].leaf THEN 0 ELSE Len(m[z].values) + 1
  BY DEF Sound, Shape, Furnished
<1> QED BY <1>2, <1>3, <1>4, <1>5, <1>6 DEF ChildrenOK

\* x and y are the children of p beside its value at place d.
Siblings(m, p, d, x, y) ==
  /\ p \in DOMAIN m /\ ~m[p].leaf /\ d \in 1 .. Len(m[p].values)
  /\ m[p].children[d] = x /\ m[p].children[d + 1] = y

SiblingsOK(m, r, h, p, d, x, y) ==
  /\ d \in Nat /\ d >= 1 /\ d - 1 \in Nat /\ d <= Len(m[p].values)
  /\ Len(m[p].values) \in Nat /\ Len(m[p].children) = Len(m[p].values) + 1
  /\ x \in DOMAIN m /\ y \in DOMAIN m /\ p \in DOMAIN m
  /\ x # y /\ x # p /\ y # p /\ x # r /\ y # r
  /\ m[x].parent = p /\ m[x].position = d - 1 /\ m[y].parent = p /\ m[y].position = d
  /\ h[x] = h[y] /\ h[p] = h[x] + 1 /\ m[x].leaf = m[y].leaf

LEMMA SiblingsAre ==
  ASSUME NEW m, NEW r, NEW h, NEW lo, NEW hi, Sound(m, r, h, lo, hi),
         NEW p, NEW d, NEW x, NEW y, Siblings(m, p, d, x, y)
  PROVE  SiblingsOK(m, r, h, p, d, x, y)
<1>1. Typed(m, r, h, lo, hi) /\ p \in DOMAIN m /\ ~m[p].leaf
  BY DEF Sound, Siblings
<1>2. Len(m[p].values) \in Nat
  BY <1>1, NodeOf
<1>3. d \in Nat /\ d >= 1 /\ d - 1 \in Nat /\ d <= Len(m[p].values)
  BY <1>2 DEF Siblings
<1>4. ChildrenOK(m, r, h, p)
  BY <1>1, ChildrenAre
<1>5. Len(m[p].children) = Len(m[p].values) + 1
  BY <1>1, <1>4 DEF ChildrenOK
<1>6. PICK e : e = d + 1
  OBVIOUS
<1>7. d \in 1 .. Len(m[p].children) /\ e \in 1 .. Len(m[p].children)
  BY <1>2, <1>3, <1>5, <1>6
<1>8. m[p].children[d] = x /\ m[p].children[e] = y
  BY <1>6 DEF Siblings
<1>9. /\ x \in DOMAIN m \ {r} /\ h[p] = h[x] + 1 /\ m[x].parent = p /\ m[x].position = d - 1
      /\ y \in DOMAIN m \ {r} /\ h[p] = h[y] + 1 /\ m[y].parent = p /\ m[y].position = e - 1
  BY <1>4, <1>7, <1>8 DEF ChildrenOK
<1>10. e - 1 = d /\ e # d
  BY <1>3, <1>6
<1>11. x # y
  BY <1>4, <1>7, <1>8, <1>10 DEF ChildrenOK, Distinct
<1>12. x # p /\ y # p
  BY <1>4, <1>7, <1>8 DEF ChildrenOK, Occurs
<1>13. h[x] \in Nat /\ h[y] \in Nat
  BY <1>1, <1>9, NodeOf
<1>14. h[x] = h[y]
  BY <1>9, <1>13
<1>15. m[x].leaf = m[y].leaf
  <2>1. (m[x].leaf <=> h[x] = 0) /\ (m[y].leaf <=> h[y] = 0)
    BY <1>9 DEF Sound, Shape, Furnished
  <2>2. m[x].leaf \in BOOLEAN /\ m[y].leaf \in BOOLEAN
    BY <1>1, <1>9, NodeOf
  <2> QED BY <1>14, <2>1, <2>2
<1> QED BY <1>1, <1>2, <1>3, <1>5, <1>9, <1>10, <1>11, <1>12, <1>14, <1>15 DEF SiblingsOK

(***************************************************************************)
(* remove_value.                                                           *)
(***************************************************************************)
\* In n the node x has the values w; all else is as in m.
Revalued(m, n, x, w) ==
  /\ TreeNodes(n) /\ DOMAIN n = DOMAIN m
  /\ n[x] = [m[x] EXCEPT !.values = w]
  /\ \A z \in DOMAIN m \ {x} : n[z] = m[z]

LEMMA RevaluedIs ==
  ASSUME NEW m, TreeNodes(m), NEW x \in DOMAIN m, NEW w \in Seq(Int)
  PROVE  Revalued(m, [m EXCEPT ![x].values = w], x, w)
<1>1. PICK n : n = [m EXCEPT ![x].values = w]
  OBVIOUS
<1>2. m[x] \in Node /\ m \in [DOMAIN m -> Node]
  BY DEF TreeNodes
<1>3. /\ DOMAIN n = DOMAIN m /\ n[x] = [m[x] EXCEPT !.values = w]
      /\ \A z \in DOMAIN m \ {x} : n[z] = m[z]
  BY <1>1, <1>2
<1>4. n[x] \in Node
  BY <1>2, <1>3 DEF Node
<1>5. n \in [DOMAIN m -> Node]
  BY <1>1, <1>2, <1>4
<1>6. TreeNodes(n)
  BY <1>3, <1>5 DEF TreeNodes
<1> QED BY <1>1, <1>3, <1>6 DEF Revalued

\* The value at place i + 1 and the child behind it are gone.
ValueRemoved(m, n, p, i) ==
  /\ TreeNodes(n) /\ DOMAIN n = DOMAIN m
  /\ \A z \in DOMAIN m \ {p} : SameBody(m[z], n[z])
  /\ m[p].leaf = n[p].leaf /\ m[p].max_count = n[p].max_count
  /\ IsWithout(n[p].values, m[p].values, i + 1)
  /\ IsWithout(n[p].children, m[p].children, i + 2)
  /\ \A j \in i + 3 .. Len(m[p].children) :
       /\ n[m[p].children[j]].parent = p
       /\ n[m[p].children[j]].position = j - 2
  /\ \A z \in DOMAIN m :
       (\A j \in i + 3 .. Len(m[p].children) : m[p].children[j] # z) => SameLink(m[z], n[z])

\* In n the node x has the values w and the children cx and then those of y,
\* which has neither values nor children of its own.
TakenOver(m, n, x, y, w) ==
  /\ TreeNodes(n) /\ DOMAIN n = DOMAIN m
  /\ \A z \in DOMAIN m \ {x, y} : SameBody(m[z], n[z])
  /\ n[x].leaf = m[x].leaf /\ n[x].max_count = m[x].max_count /\ n[x].values = w
  /\ n[y].leaf = m[y].leaf /\ n[y].max_count = m[y].max_count /\ n[y].values = <<>>
  /\ IsConcat(n[x].children, m[x].children, m[y].children)
  /\ \A i \in 1 .. Len(m[y].children) :
       /\ n[m[y].children[i]].parent = x
       /\ n[m[y].children[i]].position = Len(m[x].children) + i - 1
  /\ \A z \in DOMAIN m : ~Occurs(m[y].children, z) => SameLink(m[z], n[z])

TakenValues(m, x, y, w) == [[m EXCEPT ![x].values = w] EXCEPT ![y].values = <<>>]

LEMMA TakeOverLeaf ==
  ASSUME NEW m, TreeNodes(m), NEW x \in DOMAIN m, NEW y \in DOMAIN m, x # y, NEW w \in Seq(Int),
         Len(m[x].children) = 0, Len(m[y].children) = 0
  PROVE  TakenOver(m, TakenValues(m, x, y, w), x, y, w)
<1>1. PICK n : n = TakenValues(m, x, y, w)
  OBVIOUS
<1>2. PICK m1 : m1 = [m EXCEPT ![x].values = w]
  OBVIOUS
<1>3. Revalued(m, m1, x, w)
  BY <1>2, RevaluedIs
<1>4. Revalued(m1, n, y, <<>>)
  <2>1. TreeNodes(m1) /\ y \in DOMAIN m1 /\ <<>> \in Seq(Int)
    BY <1>3 DEF Revalued
  <2>2. n = [m1 EXCEPT ![y].values = <<>>]
    BY <1>1, <1>2 DEF TakenValues
  <2> QED BY <2>1, <2>2, RevaluedIs
<1>5. m[x] \in Node /\ m[y] \in Node
  BY DEF TreeNodes
<1>6. /\ n[x] = [m[x] EXCEPT !.values = w] /\ n[y] = [m[y] EXCEPT !.values = <<>>]
      /\ \A z \in DOMAIN m \ {x, y} : n[z] = m[z]
  BY <1>3, <1>4 DEF Revalued
<1>7. /\ n[x].leaf = m[x].leaf /\ n[x].max_count = m[x].max_count /\ n[x].values = w
      /\ n[y].leaf = m[y].leaf /\ n[y].max_count = m[y].max_count /\ n[y].values = <<>>
      /\ n[x].children = m[x].children /\ SameLink(m[x], n[x]) /\ SameLink(m[y], n[y])
  BY <1>5, <1>6 DEF Node, SameLink
<1>8. IsConcat(n[x].children, m[x].children, m[y].children)
  BY <1>7 DEF IsConcat
<1>9. \A z \in DOMAIN m : SameLink(m[z], n[z])
  BY <1>6, <1>7 DEF SameLink
<1>10. \A z \in DOMAIN m \ {x, y} : SameBody(m[z], n[z])
  BY <1>6 DEF SameBody
<1>11. TreeNodes(n) /\ DOMAIN n = DOMAIN m
  BY <1>3, <1>4 DEF Revalued
<1> QED BY <1>1, <1>7, <1>8, <1>9, <1>10, <1>11 DEF TakenOver

\* The same of the children of y instead of its values.
LEMMA Childless ==
  ASSUME NEW m, TreeNodes(m), NEW y \in DOMAIN m, NEW n, n = [m EXCEPT ![y].children = <<>>]
  PROVE  /\ TreeNodes(n) /\ DOMAIN n = DOMAIN m /\ n[y] = [m[y] EXCEPT !.children = <<>>]
         /\ \A z \in DOMAIN m \ {y} : n[z] = m[z]
<1>1. m[y] \in Node /\ m \in [DOMAIN m -> Node]
  BY DEF TreeNodes
<1>2. /\ DOMAIN n = DOMAIN m /\ n[y] = [m[y] EXCEPT !.children = <<>>]
      /\ \A z \in DOMAIN m \ {y} : n[z] = m[z]
  BY <1>1
<1>3. n[y] \in Node
  <2>1. <<>> \in Seq(Nat)
    OBVIOUS
  <2> QED BY <1>1, <1>2, <2>1 DEF Node
<1>4. n \in [DOMAIN m -> Node]
  BY <1>1, <1>3
<1> QED BY <1>2, <1>4 DEF TreeNodes

Stripped(t, y) == [t EXCEPT !.mem[y].children = <<>>]

JoinOf(u, s, v) == u \o <<s>> \o v

LEMMA JoinOfIs ==
  ASSUME NEW u \in Seq(Int), NEW s \in Int, NEW v \in Seq(Int)
  PROVE  JoinOf(u, s, v) \in Seq(Int) /\ IsJoin(JoinOf(u, s, v), u, s, v)
<1>1. PICK e, f, w : e = <<s>> /\ f = u \o e /\ w = f \o v
  OBVIOUS
<1>2. e \in Seq(Int) /\ Len(e) = 1 /\ e[1] = s
  BY <1>1
<1>3. /\ f \in Seq(Int) /\ Len(f) = Len(u) + Len(e)
      /\ \A i \in 1 .. Len(u) : f[i] = u[i]
      /\ \A i \in 1 .. Len(e) : f[Len(u) + i] = e[i]
  BY <1>1, <1>2, ConcatAt
<1>4. /\ w \in Seq(Int) /\ Len(w) = Len(f) + Len(v)
      /\ \A i \in 1 .. Len(f) : w[i] = f[i]
      /\ \A i \in 1 .. Len(v) : w[Len(f) + i] = v[i]
  BY <1>1, <1>3, ConcatAt
<1>5. Len(u) \in Nat /\ Len(v) \in Nat /\ Len(f) = Len(u) + 1
  BY <1>2, <1>3, LenProperties
<1>6. f[Len(u) + 1] = s
  BY <1>2, <1>3
<1>7. w[Len(u) + 1] = s /\ \A i \in 1 .. Len(u) : w[i] = u[i]
  <2>1. Len(u) + 1 \in 1 .. Len(f) /\ \A i \in 1 .. Len(u) : i \in 1 .. Len(f)
    BY <1>5
  <2> QED BY <1>3, <1>4, <1>6, <2>1
<1>8. Len(w) = Len(u) + 1 + Len(v) /\ \A i \in 1 .. Len(v) : w[Len(u) + 1 + i] = v[i]
  BY <1>4, <1>5
<1>9. w \in Seq(Int) /\ IsJoin(w, u, s, v)
  BY <1>4, <1>7, <1>8 DEF IsJoin
<1> QED BY <1>1, <1>9 DEF JoinOf

\* The nodes keep the rooms they have, and the root its link.
SameFrame(m, n, r) ==
  SameLink(m[r], n[r]) /\ \A z \in DOMAIN m \cap DOMAIN n : n[z].max_count = m[z].max_count

MergeSteps(m, r, h, lo, hi, p, d, x, y, w, m2, m3, n) ==
  /\ Sound(m, r, h, lo, hi) /\ Siblings(m, p, d, x, y)
  /\ IsJoin(w, m[x].values, m[p].values[d], m[y].values)
  /\ TakenOver(m, m2, x, y, w) /\ ValueRemoved(m2, m3, p, d - 1)
  /\ TreeNodes(n) /\ DOMAIN n = DOMAIN m \ {y} /\ \A z \in DOMAIN m \ {y} : n[z] = m3[z]

\* n has m's nodes, without y: the values of y and the value d of p are in x now.
LEMMA MergedIs ==
  ASSUME NEW m, NEW r, NEW h, NEW lo, NEW hi, NEW p, NEW d, NEW x, NEW y, NEW w, NEW m2, NEW m3,
         NEW n, MergeSteps(m, r, h, lo, hi, p, d, x, y, w, m2, m3, n)
  PROVE  Joined(m, n, p, d, x, y) /\ Links(n) /\ SameFrame(m, n, r)
<1>0. /\ Sound(m, r, h, lo, hi) /\ Siblings(m, p, d, x, y)
      /\ IsJoin(w, m[x].values, m[p].values[d], m[y].values)
      /\ TakenOver(m, m2, x, y, w) /\ ValueRemoved(m2, m3, p, d - 1)
      /\ TreeNodes(n) /\ DOMAIN n = DOMAIN m \ {y} /\ \A z \in DOMAIN m \ {y} : n[z] = m3[z]
  BY DEF MergeSteps
<1> USE <1>0
<1>1. SiblingsOK(m, r, h, p, d, x, y) /\ Typed(m, r, h, lo, hi) /\ TreeNodes(m)
  BY SiblingsAre DEF Sound, Typed, TreeNodes
<1>2. /\ x \in DOMAIN m /\ y \in DOMAIN m /\ p \in DOMAIN m /\ x # y /\ x # p /\ y # p
      /\ m[x].parent = p /\ m[x].position = d - 1 /\ x # r /\ y # r
      /\ m[y].parent = p /\ m[y].position = d /\ m[x].leaf = m[y].leaf
      /\ Len(m[p].children) = Len(m[p].values) + 1 /\ Len(m[p].values) \in Nat
  BY <1>1 DEF SiblingsOK
<1>3. PICK i, cx, cy, cp : /\ i = d - 1 /\ cx = m[x].children /\ cy = m[y].children
                           /\ cp = m[p].children
  OBVIOUS
<1>4. /\ i \in Nat /\ d = i + 1 /\ i + 1 = d /\ i + 2 = d + 1 /\ i + 3 = d + 2 /\ d \in Nat
      /\ Len(cp) \in Nat /\ d + 1 <= Len(cp) /\ d >= 1
  BY <1>1, <1>3 DEF SiblingsOK
<1>5. ~m[p].leaf /\ cp[d] = x /\ cp[d + 1] = y
  BY <1>3 DEF Siblings
<1>6. TakenOver(m, m2, x, y, w) /\ ValueRemoved(m2, m3, p, i)
  BY <1>3
<1>7. \A z \in DOMAIN m : ChildrenOK(m, r, h, z)
  BY ChildrenAre, Zenon
<1>8. /\ DOMAIN m2 = DOMAIN m /\ DOMAIN m3 = DOMAIN m
      /\ m2[p].children = cp /\ m2[p].values = m[p].values /\ m2[p].leaf = m[p].leaf
      /\ m2[p].max_count = m[p].max_count
  <2>1. SameBody(m[p], m2[p]) /\ DOMAIN m2 = DOMAIN m
    BY <1>2, <1>6 DEF TakenOver
  <2> QED BY <1>3, <1>6, <2>1 DEF SameBody, ValueRemoved
\* The bodies.
<1>9. \A z \in DOMAIN m \ {x, y, p} : SameBody(m[z], n[z])
  <2> SUFFICES ASSUME NEW z \in DOMAIN m \ {x, y, p} PROVE SameBody(m[z], n[z])
    OBVIOUS
  <2>1. SameBody(m[z], m2[z])
    BY <1>6 DEF TakenOver
  <2>2. SameBody(m2[z], m3[z])
    BY <1>6, <1>8 DEF ValueRemoved
  <2> QED BY <2>1, <2>2 DEF SameBody
<1>10. n[x].leaf = m[x].leaf /\ n[x].max_count = m[x].max_count /\ n[x].values = w
       /\ IsConcat(n[x].children, cx, cy)
  <2>1. /\ m2[x].leaf = m[x].leaf /\ m2[x].max_count = m[x].max_count /\ m2[x].values = w
        /\ IsConcat(m2[x].children, cx, cy)
    BY <1>3, <1>6 DEF TakenOver
  <2>2. SameBody(m2[x], m3[x])
    BY <1>2, <1>6, <1>8 DEF ValueRemoved
  <2> QED BY <1>2, <2>1, <2>2 DEF SameBody
<1>11. /\ n[p].leaf = m[p].leaf /\ n[p].max_count = m[p].max_count
       /\ IsWithout(n[p].values, m[p].values, d) /\ IsWithout(n[p].children, cp, d + 1)
  <2>1. /\ m2[p].leaf = m3[p].leaf /\ m2[p].max_count = m3[p].max_count
        /\ IsWithout(m3[p].values, m2[p].values, i + 1)
        /\ IsWithout(m3[p].children, m2[p].children, i + 2)
    BY <1>6 DEF ValueRemoved
  <2> QED BY <1>2, <1>4, <1>8, <2>1
<1>12. Joined(m, n, p, d, x, y)
  <2>1. y \notin DOMAIN n /\ DOMAIN m = DOMAIN n \cup {y} /\ x \in DOMAIN n /\ p \in DOMAIN n
    BY <1>2
  <2> QED BY <1>2, <1>3, <1>5, <1>9, <1>10, <1>11, <2>1 DEF Joined
\* The links.
<1>13. ASSUME NEW z \in DOMAIN m, ~Occurs(cy, z), \A j \in d + 2 .. Len(cp) : cp[j] # z
       PROVE  SameLink(m[z], m3[z])
  <2>1. SameLink(m[z], m2[z])
    BY <1>3, <1>6, <1>13 DEF TakenOver
  <2>2. SameLink(m2[z], m3[z])
    BY <1>4, <1>6, <1>8, <1>13 DEF ValueRemoved
  <2> QED BY <2>1, <2>2 DEF SameLink
<1>14. ASSUME NEW z \in DOMAIN m, NEW k \in 1 .. Len(m[z].children), NEW c, c = m[z].children[k]
       PROVE  /\ c \in DOMAIN m /\ m[c].parent = z /\ m[c].position = k - 1
              /\ z # y => ~Occurs(cy, c)
              /\ z # p => (\A j \in d + 2 .. Len(cp) : cp[j] # c) /\ c # y
  <2>1. c \in DOMAIN m /\ m[c].parent = z /\ m[c].position = k - 1
    <3>1. ChildrenOK(m, r, h, z)
      BY <1>7, <1>14
    <3> QED BY <1>14, <3>1 DEF ChildrenOK
  <2>2. \A j \in 1 .. Len(cy) : m[cy[j]].parent = y
    BY <1>2, <1>3, <1>7 DEF ChildrenOK
  <2>3. \A j \in 1 .. Len(cp) : m[cp[j]].parent = p
    BY <1>2, <1>3, <1>7 DEF ChildrenOK
  <2>4. \A j \in d + 2 .. Len(cp) : j \in 1 .. Len(cp)
    BY <1>4
  <2> QED BY <1>2, <2>1, <2>2, <2>3, <2>4 DEF Occurs
<1>15. Links(n)
  <2> SUFFICES ASSUME NEW z \in DOMAIN n, NEW k \in 1 .. Len(n[z].children)
               PROVE  n[n[z].children[k]].parent = z /\ n[n[z].children[k]].position = k - 1
    BY DEF Links
  <2>1. PICK c : c = n[z].children[k]
    OBVIOUS
  <2>2. z \in DOMAIN m /\ z # y
    OBVIOUS
  <2>3. CASE z = x
    <3>1. /\ Len(n[x].children) = Len(cx) + Len(cy)
          /\ \A j \in 1 .. Len(cx) : n[x].children[j] = cx[j]
          /\ \A j \in 1 .. Len(cy) : n[x].children[Len(cx) + j] = cy[j]
      BY <1>10 DEF IsConcat
    <3>2. Len(cx) \in Nat /\ Len(cy) \in Nat
      BY <1>2, <1>3, <1>7, Zenon DEF ChildrenOK
    <3>3. CASE k <= Len(cx)
      <4>1. k \in 1 .. Len(cx) /\ c = cx[k]
        BY <2>1, <2>3, <3>1, <3>2, <3>3
      <4>2. /\ c \in DOMAIN m /\ m[c].parent = x /\ m[c].position = k - 1
            /\ ~Occurs(cy, c) /\ (\A j \in d + 2 .. Len(cp) : cp[j] # c) /\ c # y
        BY <1>2, <1>3, <1>14, <4>1
      <4>3. SameLink(m[c], m3[c]) /\ n[c] = m3[c]
        BY <1>13, <4>2
      <4> QED BY <2>1, <2>3, <4>2, <4>3, Zenon DEF SameLink
    <3>4. CASE ~(k <= Len(cx))
      <4>1. PICK j : j = k - Len(cx)
        OBVIOUS
      <4>2. j \in 1 .. Len(cy) /\ k = Len(cx) + j
        <5>1. k \in 1 .. Len(cx) + Len(cy)
          BY <2>3, <3>1
        <5> QED BY <3>2, <3>4, <4>1, <5>1
      <4>3. c = cy[j]
        BY <2>1, <2>3, <3>1, <4>2
      <4>4. m2[cy[j]].parent = x /\ m2[cy[j]].position = Len(cx) + j - 1
        BY <1>3, <1>6, <4>2 DEF TakenOver
      <4>5. c \in DOMAIN m /\ (\A e \in d + 2 .. Len(cp) : cp[e] # c) /\ c # y
        <5>1. j \in 1 .. Len(m[y].children) /\ c = m[y].children[j] /\ y \in DOMAIN m /\ y # p
          BY <1>2, <1>3, <4>2, <4>3
        <5> QED BY <1>14, <5>1
      <4>6. SameLink(m2[c], m3[c]) /\ n[c] = m3[c]
        BY <1>4, <1>6, <1>8, <4>5 DEF ValueRemoved
      <4> QED BY <2>1, <2>3, <4>2, <4>3, <4>4, <4>6 DEF SameLink
    <3> QED BY <3>3, <3>4
  <2>4. CASE z = p
    <3>1. PICK e : e = d + 1
      OBVIOUS
    <3>2. IsWithout(n[p].children, cp, e) /\ e \in Nat /\ e - 1 = d /\ e <= Len(cp)
      BY <1>4, <1>11, <3>1
    <3>3. /\ Len(n[p].children) = Len(cp) - 1
          /\ \A j \in 1 .. e - 1 : n[p].children[j] = cp[j]
          /\ \A j \in e .. Len(cp) - 1 : n[p].children[j] = cp[j + 1]
      BY <3>2 DEF IsWithout
    <3>4. Distinct(cp)
      BY <1>2, <1>3, <1>7 DEF ChildrenOK
    <3>5. k \in Nat /\ k >= 1 /\ k <= Len(cp) - 1
      <4>1. k \in 1 .. Len(cp) - 1
        BY <2>4, <3>3, Zenon
      <4> QED BY <1>4, <4>1
    <3>6. CASE k <= d
      <4>1. k \in 1 .. e - 1 /\ k \in 1 .. Len(cp) /\ k # e /\ e \in 1 .. Len(cp)
        BY <1>4, <3>1, <3>2, <3>5, <3>6
      <4>2. c = cp[k]
        BY <2>1, <2>4, <3>3, <4>1
      <4>3. /\ c \in DOMAIN m /\ m[c].parent = p /\ m[c].position = k - 1 /\ ~Occurs(cy, c)
        BY <1>2, <1>3, <1>14, <4>1, <4>2
      <4>4. c # y
        BY <1>5, <3>1, <3>4, <4>1, <4>2 DEF Distinct
      <4>5. \A j \in d + 2 .. Len(cp) : cp[j] # c
        <5>1. \A j \in d + 2 .. Len(cp) : j \in 1 .. Len(cp) /\ j # k
          BY <1>4, <3>5, <3>6
        <5> QED BY <3>4, <4>1, <4>2, <5>1 DEF Distinct
      <4>6. SameLink(m[c], m3[c]) /\ n[c] = m3[c]
        BY <1>13, <4>3, <4>4, <4>5
      <4> QED BY <2>1, <2>4, <4>3, <4>6, Zenon DEF SameLink
    <3>7. CASE ~(k <= d)
      <4>1. PICK j : j = k + 1
        OBVIOUS
      <4>2. /\ k \in e .. Len(cp) - 1 /\ j \in d + 2 .. Len(cp) /\ j \in i + 3 .. Len(cp)
            /\ j - 2 = k - 1 /\ j \in 1 .. Len(cp) /\ j # e /\ e \in 1 .. Len(cp)
        BY <1>4, <3>1, <3>2, <3>5, <3>7, <4>1
      <4>3. c = cp[j]
        BY <2>1, <2>4, <3>3, <4>1, <4>2
      <4>4. m3[cp[j]].parent = p /\ m3[cp[j]].position = j - 2
        BY <1>6, <1>8, <4>2 DEF ValueRemoved
      <4>5. c \in DOMAIN m
        BY <1>2, <1>3, <1>14, <4>2, <4>3
      <4>6. c # y
        BY <1>5, <3>1, <3>4, <4>2, <4>3, Zenon DEF Distinct
      <4> QED BY <2>1, <2>4, <4>2, <4>3, <4>4, <4>5, <4>6
    <3> QED BY <3>6, <3>7
  <2>5. CASE z # x /\ z # p
    <3>1. n[z].children = m[z].children
      BY <1>9, <2>2, <2>5 DEF SameBody
    <3>2. /\ c \in DOMAIN m /\ m[c].parent = z /\ m[c].position = k - 1
          /\ ~Occurs(cy, c) /\ (\A j \in d + 2 .. Len(cp) : cp[j] # c) /\ c # y
      BY <1>14, <2>1, <2>2, <2>5, <3>1
    <3>3. SameLink(m[c], m3[c]) /\ n[c] = m3[c]
      BY <1>13, <3>2
    <3> QED BY <2>1, <3>2, <3>3, Zenon DEF SameLink
  <2> QED BY <2>3, <2>4, <2>5
<1>16. SameFrame(m, n, r)
  <2>1. r \in DOMAIN m
    BY <1>1 DEF Typed
  <2>2. ~Occurs(cy, r)
    <3>1. ChildrenOK(m, r, h, y)
      BY <1>2, <1>7
    <3> QED BY <1>3, <3>1 DEF ChildrenOK, Occurs
  <2>3. \A j \in d + 2 .. Len(cp) : cp[j] # r
    <3>1. \A j \in d + 2 .. Len(cp) : j \in 1 .. Len(cp)
      BY <1>4
    <3>2. ChildrenOK(m, r, h, p)
      BY <1>2, <1>7
    <3> QED BY <1>3, <3>1, <3>2 DEF ChildrenOK
  <2>4. SameLink(m[r], n[r])
    BY <1>2, <1>13, <2>1, <2>2, <2>3
  <2>5. \A z \in DOMAIN m \cap DOMAIN n : n[z].max_count = m[z].max_count
    BY <1>9, <1>10, <1>11 DEF SameBody
  <2> QED BY <2>4, <2>5 DEF SameFrame
<1> QED BY <1>12, <1>15, <1>16

Kept(t, u) ==
  /\ Treelike(u) /\ u.root = t.root /\ u.size = t.size /\ u.ok = t.ok
  /\ SameFrame(t.mem, u.mem, t.root)

KeyAt(m, k) == \E z \in DOMAIN m : \E i \in 1 .. Len(m[z].values) : m[z].values[i] = k

LEMMA KeysAt ==
  ASSUME NEW m, TreeNodes(m), NEW k
  PROVE  k \in TreeKeys(m) <=> KeyAt(m, k)
<1>1. ASSUME NEW z \in DOMAIN m PROVE DOMAIN m[z].values = 1 .. Len(m[z].values)
  <2>1. m[z] \in Node
    BY DEF TreeNodes
  <2>2. m[z].values \in Seq(Int)
    BY <2>1 DEF Node
  <2> QED BY <2>2, LenProperties
<1>3. \A z \in DOMAIN m : k \in ToSet(m[z].values) <=> \E i \in 1 .. Len(m[z].values) : m[z].values[i] = k
  BY <1>1 DEF ToSet
<1>4. k \in TreeKeys(m) <=> \E z \in DOMAIN m : k \in ToSet(m[z].values)
  BY DEF TreeKeys
<1> QED BY <1>3, <1>4 DEF KeyAt

\* Two siblings hold together with the value between them what their join holds.
LEMMA KeysJoined ==
  ASSUME NEW m, TreeNodes(m), NEW n, TreeNodes(n), NEW p, NEW d, NEW x, NEW y, Joined(m, n, p, d, x, y)
  PROVE  TreeKeys(n) = TreeKeys(m)
<1>1. /\ y \notin DOMAIN n /\ DOMAIN m = DOMAIN n \cup {y} /\ x \in DOMAIN n /\ p \in DOMAIN n
      /\ x # p /\ \A z \in DOMAIN n \ {x, p} : SameBody(m[z], n[z])
  BY DEF Joined
<1>2. PICK u, v, w, f, g, s : /\ u = m[x].values /\ v = m[y].values /\ w = n[x].values
                              /\ f = m[p].values /\ g = n[p].values /\ s = f[d]
  OBVIOUS
<1>3. IsJoin(w, u, s, v) /\ IsWithout(g, f, d)
  BY <1>2 DEF Joined
<1>4. u \in Seq(Int) /\ v \in Seq(Int) /\ w \in Seq(Int) /\ f \in Seq(Int) /\ g \in Seq(Int) /\ d \in Nat
  BY <1>2, JoinedSeqs
<1>5. Len(u) \in Nat /\ Len(v) \in Nat /\ Len(w) \in Nat /\ Len(f) \in Nat /\ Len(g) \in Nat
  BY <1>4, LenProperties
<1>6. /\ Len(w) = Len(u) + 1 + Len(v) /\ w[Len(u) + 1] = s
      /\ \A j \in 1 .. Len(u) : w[j] = u[j]
      /\ \A j \in 1 .. Len(v) : w[Len(u) + 1 + j] = v[j]
  BY <1>3 DEF IsJoin
<1>7. /\ d \in 1 .. Len(f) /\ Len(g) = Len(f) - 1
      /\ \A j \in 1 .. d - 1 : g[j] = f[j]
      /\ \A j \in d .. Len(f) - 1 : g[j] = f[j + 1]
  BY <1>3 DEF IsWithout
<1>8. ASSUME NEW k, KeyAt(n, k) PROVE KeyAt(m, k)
  <2>1. PICK z \in DOMAIN n : \E i \in 1 .. Len(n[z].values) : n[z].values[i] = k
    BY <1>8 DEF KeyAt
  <2>2. PICK i \in 1 .. Len(n[z].values) : n[z].values[i] = k
    BY <2>1
  <2>3. CASE z = x
    <3>1. i \in 1 .. Len(u) + 1 + Len(v) /\ w[i] = k
      BY <1>2, <1>6, <2>2, <2>3
    <3>2. CASE i \in 1 .. Len(u)
      BY <1>1, <1>2, <1>6, <3>1, <3>2 DEF KeyAt
    <3>3. CASE i = Len(u) + 1
      BY <1>1, <1>2, <1>6, <1>7, <3>1, <3>3 DEF KeyAt
    <3>4. CASE ~(i <= Len(u) + 1)
      <4>1. PICK j : j = i - Len(u) - 1
        OBVIOUS
      <4>2. j \in 1 .. Len(v) /\ i = Len(u) + 1 + j
        BY <1>5, <3>1, <3>4, <4>1
      <4>3. v[j] = k
        BY <1>6, <3>1, <4>2
      <4> QED BY <1>1, <1>2, <4>2, <4>3 DEF KeyAt
    <3>5. i \in 1 .. Len(u) \/ i = Len(u) + 1 \/ ~(i <= Len(u) + 1)
      BY <1>5, <3>1
    <3> QED BY <3>2, <3>3, <3>4, <3>5
  <2>4. CASE z = p
    <3>1. i \in 1 .. Len(f) - 1 /\ g[i] = k
      BY <1>2, <1>7, <2>2, <2>4
    <3>2. CASE i < d
      <4>1. i \in 1 .. d - 1 /\ i \in 1 .. Len(f)
        BY <1>4, <1>5, <3>1, <3>2
      <4>2. f[i] = k
        BY <1>7, <3>1, <4>1
      <4> QED BY <1>1, <1>2, <4>1, <4>2 DEF KeyAt
    <3>3. CASE ~(i < d)
      <4>1. i \in d .. Len(f) - 1 /\ i + 1 \in 1 .. Len(f)
        BY <1>4, <1>5, <3>1, <3>3
      <4>2. f[i + 1] = k
        BY <1>7, <3>1, <4>1
      <4> QED BY <1>1, <1>2, <4>1, <4>2 DEF KeyAt
    <3> QED BY <3>2, <3>3
  <2>5. CASE z # x /\ z # p
    <3>1. m[z].values = n[z].values
      BY <1>1, <2>5 DEF SameBody
    <3> QED BY <1>1, <2>2, <3>1 DEF KeyAt
  <2> QED BY <2>3, <2>4, <2>5
<1>9. ASSUME NEW k, KeyAt(m, k) PROVE KeyAt(n, k)
  <2>1. PICK z \in DOMAIN m : \E i \in 1 .. Len(m[z].values) : m[z].values[i] = k
    BY <1>9 DEF KeyAt
  <2>2. PICK i \in 1 .. Len(m[z].values) : m[z].values[i] = k
    BY <2>1
  <2>3. CASE z = x
    <3>1. i \in 1 .. Len(u) /\ u[i] = k /\ i \in 1 .. Len(w)
      <4>1. i \in 1 .. Len(u) /\ u[i] = k
        BY <1>2, <2>2, <2>3
      <4>2. i \in 1 .. Len(w)
        BY <1>5, <1>6, <4>1
      <4> QED BY <4>1, <4>2
    <3>2. w[i] = k
      BY <1>6, <3>1
    <3> QED BY <1>1, <1>2, <3>1, <3>2 DEF KeyAt
  <2>4. CASE z = y
    <3>1. i \in 1 .. Len(v) /\ v[i] = k
      BY <1>2, <2>2, <2>4
    <3>2. PICK j : j = Len(u) + 1 + i
      OBVIOUS
    <3>3. j \in 1 .. Len(w)
      BY <1>5, <1>6, <3>1, <3>2
    <3>4. w[j] = k
      BY <1>6, <3>1, <3>2
    <3> QED BY <1>1, <1>2, <3>3, <3>4 DEF KeyAt
  <2>5. CASE z = p
    <3>1. i \in 1 .. Len(f) /\ f[i] = k
      BY <1>2, <2>2, <2>5
    <3>2. CASE i < d
      <4>1. i \in 1 .. d - 1 /\ i \in 1 .. Len(g)
        BY <1>4, <1>5, <1>7, <3>1, <3>2
      <4>2. g[i] = k
        BY <1>7, <3>1, <4>1
      <4> QED BY <1>1, <1>2, <4>1, <4>2 DEF KeyAt
    <3>3. CASE i = d
      <4>1. Len(u) + 1 \in 1 .. Len(w)
        BY <1>5, <1>6
      <4>2. w[Len(u) + 1] = k
        BY <1>2, <1>6, <3>1, <3>3
      <4> QED BY <1>1, <1>2, <4>1, <4>2 DEF KeyAt
    <3>4. CASE d < i
      <4>1. PICK j : j = i - 1
        OBVIOUS
      <4>2. j \in d .. Len(f) - 1 /\ j + 1 = i /\ j \in 1 .. Len(g)
        BY <1>4, <1>5, <1>7, <3>1, <3>4, <4>1
      <4>3. g[j] = k
        BY <1>7, <3>1, <4>2
      <4> QED BY <1>1, <1>2, <4>2, <4>3 DEF KeyAt
    <3>5. i < d \/ i = d \/ d < i
      BY <1>4, <1>5, <3>1
    <3> QED BY <3>2, <3>3, <3>4, <3>5
  <2>6. CASE z # x /\ z # p /\ z # y
    <3>1. m[z].values = n[z].values /\ z \in DOMAIN n
      BY <1>1, <2>6 DEF SameBody
    <3> QED BY <2>2, <3>1 DEF KeyAt
  <2> QED BY <2>3, <2>4, <2>5, <2>6
<1>10. \A k : k \in TreeKeys(n) <=> k \in TreeKeys(m)
  BY <1>8, <1>9, KeysAt
<1> QED BY <1>10

\* If f = a \o <<s>> \o b and v = b \o <<e>> \o c, then a \o <<s>> \o v = f \o <<e>> \o c.
LEMMA JoinAssoc ==
  ASSUME NEW a1 \in Seq(Int), NEW b \in Seq(Int), NEW c \in Seq(Int), NEW s, NEW e,
         NEW f \in Seq(Int), NEW v \in Seq(Int), NEW w \in Seq(Int),
         IsJoin(f, a1, s, b), IsJoin(v, b, e, c)
  PROVE  IsJoin(w, a1, s, v) <=> IsJoin(w, f, e, c)
<1>1. PICK la, lb, lc : la = Len(a1) /\ lb = Len(b) /\ lc = Len(c)
  OBVIOUS
<1>2. la \in Nat /\ lb \in Nat /\ lc \in Nat
  BY <1>1, LenProperties
<1>3. /\ Len(f) = la + 1 + lb /\ f[la + 1] = s
      /\ \A j \in 1 .. la : f[j] = a1[j]
      /\ \A j \in 1 .. lb : f[la + 1 + j] = b[j]
  BY <1>1 DEF IsJoin
<1>4. /\ Len(v) = lb + 1 + lc /\ v[lb + 1] = e
      /\ \A j \in 1 .. lb : v[j] = b[j]
      /\ \A j \in 1 .. lc : v[lb + 1 + j] = c[j]
  BY <1>1 DEF IsJoin
<1>5. ASSUME IsJoin(w, a1, s, v) PROVE IsJoin(w, f, e, c)
  <2>1. /\ Len(w) = la + 1 + Len(v) /\ w[la + 1] = s
        /\ \A j \in 1 .. la : w[j] = a1[j]
        /\ \A j \in 1 .. Len(v) : w[la + 1 + j] = v[j]
    BY <1>1, <1>5 DEF IsJoin
  <2>2. Len(w) = Len(f) + 1 + Len(c)
    BY <1>1, <1>2, <1>3, <1>4, <2>1
  <2>3. ASSUME NEW j \in 1 .. Len(f) PROVE w[j] = f[j]
    <3>1. j \in 1 .. la + 1 + lb
      BY <1>3
    <3>2. CASE j \in 1 .. la
      BY <1>3, <2>1, <3>2
    <3>3. CASE j = la + 1
      BY <1>3, <2>1, <3>3
    <3>4. CASE ~(j <= la + 1)
      <4>1. PICK q : q = j - la - 1
        OBVIOUS
      <4>2. q \in 1 .. lb /\ j = la + 1 + q /\ q \in 1 .. Len(v)
        BY <1>2, <1>4, <3>1, <3>4, <4>1
      <4>3. w[j] = v[q] /\ v[q] = b[q] /\ f[j] = b[q]
        BY <1>3, <1>4, <2>1, <4>2
      <4> QED BY <4>3
    <3>5. j \in 1 .. la \/ j = la + 1 \/ ~(j <= la + 1)
      BY <1>2, <3>1
    <3> QED BY <3>2, <3>3, <3>4, <3>5
  <2>4. w[Len(f) + 1] = e
    <3>1. lb + 1 \in 1 .. Len(v) /\ Len(f) + 1 = la + 1 + (lb + 1)
      BY <1>2, <1>3, <1>4
    <3>2. w[la + 1 + (lb + 1)] = v[lb + 1]
      BY <2>1, <3>1
    <3> QED BY <1>4, <3>1, <3>2
  <2>5. ASSUME NEW j \in 1 .. Len(c) PROVE w[Len(f) + 1 + j] = c[j]
    <3>1. PICK q : q = lb + 1 + j
      OBVIOUS
    <3>2. q \in 1 .. Len(v) /\ Len(f) + 1 + j = la + 1 + q /\ j \in 1 .. lc
      BY <1>1, <1>2, <1>3, <1>4, <3>1
    <3>3. w[la + 1 + q] = v[q] /\ v[q] = c[j]
      BY <1>4, <2>1, <3>1, <3>2
    <3> QED BY <3>2, <3>3
  <2> QED BY <2>2, <2>3, <2>4, <2>5 DEF IsJoin
<1>6. ASSUME IsJoin(w, f, e, c) PROVE IsJoin(w, a1, s, v)
  <2>1. /\ Len(w) = Len(f) + 1 + lc /\ w[Len(f) + 1] = e
        /\ \A j \in 1 .. Len(f) : w[j] = f[j]
        /\ \A j \in 1 .. lc : w[Len(f) + 1 + j] = c[j]
    BY <1>1, <1>6 DEF IsJoin
  <2>2. Len(w) = Len(a1) + 1 + Len(v)
    BY <1>1, <1>2, <1>3, <1>4, <2>1
  <2>3. ASSUME NEW j \in 1 .. la PROVE w[j] = a1[j]
    <3>1. j \in 1 .. Len(f)
      BY <1>2, <1>3
    <3> QED BY <1>3, <2>1, <3>1
  <2>4. w[la + 1] = s
    <3>1. la + 1 \in 1 .. Len(f)
      BY <1>2, <1>3
    <3> QED BY <1>3, <2>1, <3>1
  <2>5. ASSUME NEW j \in 1 .. Len(v) PROVE w[la + 1 + j] = v[j]
    <3>1. j \in 1 .. lb + 1 + lc
      BY <1>4
    <3>2. CASE j \in 1 .. lb
      <4>1. la + 1 + j \in 1 .. Len(f)
        BY <1>2, <1>3, <3>2
      <4>2. w[la + 1 + j] = f[la + 1 + j] /\ f[la + 1 + j] = b[j] /\ v[j] = b[j]
        BY <1>3, <1>4, <2>1, <3>2, <4>1
      <4> QED BY <4>2
    <3>3. CASE j = lb + 1
      <4>1. la + 1 + j = Len(f) + 1
        BY <1>2, <1>3, <3>3
      <4> QED BY <1>4, <2>1, <3>3, <4>1
    <3>4. CASE ~(j <= lb + 1)
      <4>1. PICK q : q = j - lb - 1
        OBVIOUS
      <4>2. q \in 1 .. lc /\ la + 1 + j = Len(f) + 1 + q /\ j = lb + 1 + q
        BY <1>2, <1>3, <3>1, <3>4, <4>1
      <4>3. w[Len(f) + 1 + q] = c[q] /\ v[j] = c[q]
        BY <1>4, <2>1, <4>2
      <4> QED BY <4>2, <4>3
    <3>5. j \in 1 .. lb \/ j = lb + 1 \/ ~(j <= lb + 1)
      BY <1>2, <3>1
    <3> QED BY <3>2, <3>3, <3>4, <3>5
  <2> QED BY <1>1, <2>2, <2>3, <2>4, <2>5 DEF IsJoin
<1> QED BY <1>5, <1>6

LinksOf(n, x) ==
  \A i \in 1 .. Len(n[x].children) :
    n[n[x].children[i]].parent = x /\ n[n[x].children[i]].position = i - 1

\* n is m with the values and children of the siblings x and y shared out anew:
\* e is the value between them in n.
Shared(m, n, p, d, x, y, e) ==
  /\ TreeNodes(n) /\ DOMAIN n = DOMAIN m
  /\ \A z \in DOMAIN m \ {x, y, p} : SameBody(m[z], n[z])
  /\ n[x].leaf = m[x].leaf /\ n[x].max_count = m[x].max_count
  /\ n[y].leaf = m[y].leaf /\ n[y].max_count = m[y].max_count
  /\ n[p].leaf = m[p].leaf /\ n[p].max_count = m[p].max_count /\ n[p].children = m[p].children
  /\ Len(n[p].values) = Len(m[p].values) /\ n[p].values[d] = e
  /\ \A j \in 1 .. Len(m[p].values) : j # d => n[p].values[j] = m[p].values[j]
  /\ \A w \in Seq(Int) : IsJoin(w, m[x].values, m[p].values[d], m[y].values)
                           => IsJoin(w, n[x].values, e, n[y].values)
  /\ \A c \in Seq(Nat) : IsConcat(c, m[x].children, m[y].children)
                           => IsConcat(c, n[x].children, n[y].children)
  /\ ~m[x].leaf => Len(n[x].children) = Len(n[x].values) + 1
  /\ LinksOf(n, x) /\ LinksOf(n, y)
  /\ \A z \in DOMAIN m : ~Occurs(m[x].children, z) /\ ~Occurs(m[y].children, z)
                           => SameLink(m[z], n[z])

LEMMA SharedLinks ==
  ASSUME NEW m, NEW r, NEW h, NEW lo, NEW hi, Sound(m, r, h, lo, hi),
         NEW p, NEW d, NEW x, NEW y, Siblings(m, p, d, x, y),
         NEW n, NEW e, Shared(m, n, p, d, x, y, e)
  PROVE  Links(n) /\ SameFrame(m, n, r)
<1>1. SiblingsOK(m, r, h, p, d, x, y) /\ Typed(m, r, h, lo, hi) /\ DOMAIN n = DOMAIN m
  BY SiblingsAre DEF Sound, Shared
<1>2. x \in DOMAIN m /\ y \in DOMAIN m /\ p \in DOMAIN m /\ x # y /\ x # p /\ y # p /\ r \in DOMAIN m
  BY <1>1 DEF SiblingsOK, Typed
<1>3. \A z \in DOMAIN m : ChildrenOK(m, r, h, z)
  BY ChildrenAre
<1>4. ASSUME NEW z \in DOMAIN m \ {x, y}, NEW k \in 1 .. Len(m[z].children), NEW c,
             c = m[z].children[k]
      PROVE  n[c].parent = z /\ n[c].position = k - 1
  <2>1. c \in DOMAIN m /\ m[c].parent = z /\ m[c].position = k - 1
    BY <1>3, <1>4 DEF ChildrenOK
  <2>2. ~Occurs(m[x].children, c)
    <3> SUFFICES ASSUME NEW j \in 1 .. Len(m[x].children), m[x].children[j] = c PROVE FALSE
      BY DEF Occurs
    <3>1. m[c].parent = x
      BY <1>2, <1>3 DEF ChildrenOK
    <3> QED BY <2>1, <3>1
  <2>3. ~Occurs(m[y].children, c)
    <3> SUFFICES ASSUME NEW j \in 1 .. Len(m[y].children), m[y].children[j] = c PROVE FALSE
      BY DEF Occurs
    <3>1. m[c].parent = y
      BY <1>2, <1>3 DEF ChildrenOK
    <3> QED BY <2>1, <3>1
  <2>4. SameLink(m[c], n[c])
    BY <2>1, <2>2, <2>3 DEF Shared
  <2> QED BY <2>1, <2>4 DEF SameLink
<1>5. Links(n)
  <2> SUFFICES ASSUME NEW z \in DOMAIN n, NEW k \in 1 .. Len(n[z].children)
               PROVE  n[n[z].children[k]].parent = z /\ n[n[z].children[k]].position = k - 1
    BY DEF Links
  <2>1. CASE z = x \/ z = y
    BY <2>1 DEF Shared, LinksOf
  <2>2. CASE z # x /\ z # y
    <3>1. n[z].children = m[z].children /\ z \in DOMAIN m \ {x, y}
      BY <1>1, <2>2 DEF Shared, SameBody
    <3> QED BY <1>4, <3>1
  <2> QED BY <2>1, <2>2
<1>6. SameLink(m[r], n[r])
  <2>1. ~Occurs(m[x].children, r) /\ ~Occurs(m[y].children, r)
    BY <1>2, <1>3 DEF ChildrenOK, Occurs
  <2> QED BY <1>2, <2>1 DEF Shared
<1>7. \A z \in DOMAIN m \cap DOMAIN n : n[z].max_count = m[z].max_count
  BY DEF Shared, SameBody
<1> QED BY <1>5, <1>6, <1>7 DEF SameFrame

LEMMA SharedJoined ==
  ASSUME NEW m, NEW n, NEW w, NEW p, NEW d, NEW x, NEW y, NEW e, TreeNodes(m), TreeNodes(w),
         Joined(m, w, p, d, x, y), Shared(m, n, p, d, x, y, e), Len(m[p].values) \in Nat
  PROVE  Joined(n, w, p, d, x, y)
<1>1. /\ y \notin DOMAIN w /\ DOMAIN m = DOMAIN w \cup {y} /\ DOMAIN n = DOMAIN m
      /\ x \in DOMAIN w /\ p \in DOMAIN w /\ x # p
      /\ m[x].leaf = w[x].leaf /\ m[y].leaf = w[x].leaf /\ ~m[p].leaf /\ ~w[p].leaf
      /\ m[p].children[d] = x /\ m[p].children[d + 1] = y
      /\ n[x].leaf = m[x].leaf /\ n[y].leaf = m[y].leaf /\ n[p].leaf = m[p].leaf
      /\ n[p].children = m[p].children /\ n[p].values[d] = e
  BY DEF Joined, Shared
<1>2. \A z \in DOMAIN w \ {x, p} : SameBody(n[z], w[z])
  <2> SUFFICES ASSUME NEW z \in DOMAIN w \ {x, p} PROVE SameBody(n[z], w[z])
    OBVIOUS
  <2>1. SameBody(m[z], w[z])
    BY DEF Joined
  <2>2. SameBody(m[z], n[z])
    BY <1>1 DEF Shared
  <2> QED BY <2>1, <2>2 DEF SameBody
<1>3. w[x].values \in Seq(Int) /\ w[x].children \in Seq(Nat)
  BY <1>1 DEF TreeNodes, Node
<1>4. IsJoin(w[x].values, n[x].values, n[p].values[d], n[y].values)
  <2>1. IsJoin(w[x].values, m[x].values, m[p].values[d], m[y].values)
    BY DEF Joined
  <2> QED BY <1>1, <1>3, <2>1 DEF Shared
<1>5. IsConcat(w[x].children, n[x].children, n[y].children)
  <2>1. IsConcat(w[x].children, m[x].children, m[y].children)
    BY DEF Joined
  <2> QED BY <1>3, <2>1 DEF Shared
<1>6. IsWithout(w[p].values, n[p].values, d)
  <2>1. PICK f, g, v : f = m[p].values /\ g = n[p].values /\ v = w[p].values
    OBVIOUS
  <2>2. /\ d \in 1 .. Len(f) /\ Len(v) = Len(f) - 1 /\ Len(f) \in Nat
        /\ \A j \in 1 .. d - 1 : v[j] = f[j]
        /\ \A j \in d .. Len(f) - 1 : v[j] = f[j + 1]
    BY <2>1 DEF Joined, IsWithout
  <2>3. Len(g) = Len(f) /\ \A j \in 1 .. Len(f) : j # d => g[j] = f[j]
    BY <2>1 DEF Shared
  <2>4. ASSUME NEW j \in 1 .. d - 1 PROVE v[j] = g[j]
    <3>1. j \in 1 .. Len(f) /\ j # d
      BY <2>2
    <3> QED BY <2>2, <2>3, <3>1
  <2>5. ASSUME NEW j \in d .. Len(f) - 1 PROVE v[j] = g[j + 1]
    <3>1. j + 1 \in 1 .. Len(f) /\ j + 1 # d
      BY <2>2
    <3> QED BY <2>2, <2>3, <3>1
  <2> QED BY <2>1, <2>2, <2>3, <2>4, <2>5 DEF IsWithout
<1>7. IsWithout(w[p].children, n[p].children, d + 1)
  BY <1>1 DEF Joined
<1> QED BY <1>1, <1>2, <1>4, <1>5, <1>6, <1>7 DEF Joined

At2(f, z, e) == [f EXCEPT ![z] = e]

Sharing(t, m, r, h, lo, hi, p, d, x, y, n, e) ==
  /\ Treelike(t) /\ m = t.mem /\ r = t.root /\ Sound(m, r, h, lo, hi)
  /\ Siblings(m, p, d, x, y) /\ Shared(m, n, p, d, x, y, e)

SharedOK(m, r, h, lo, hi, p, d, x, y, n, e) ==
  /\ Sound(n, r, h, At2(lo, y, e), At2(hi, x, e))
  /\ TreeKeys(n) = TreeKeys(m) /\ SameFrame(m, n, r)

LEMMA JoinMovesLeft ==
  ASSUME NEW a1 \in Seq(Int), NEW b \in Seq(Int), NEW c \in Seq(Int), NEW s, NEW e,
         NEW f \in Seq(Int), NEW v \in Seq(Int), IsJoin(f, a1, s, b), IsJoin(v, b, e, c)
  PROVE  /\ \A w \in Seq(Int) : IsJoin(w, a1, s, v) => IsJoin(w, f, e, c)
         /\ \A w \in Seq(Int) : IsJoin(w, f, e, c) => IsJoin(w, a1, s, v)
BY JoinAssoc

LEMMA ConcatAssoc ==
  ASSUME NEW a1 \in Seq(Nat), NEW b \in Seq(Nat), NEW c \in Seq(Nat),
         NEW f \in Seq(Nat), NEW v \in Seq(Nat), IsConcat(f, a1, b), IsConcat(v, b, c)
  PROVE  /\ \A w \in Seq(Nat) : IsConcat(w, a1, v) => IsConcat(w, f, c)
         /\ \A w \in Seq(Nat) : IsConcat(w, f, c) => IsConcat(w, a1, v)
<1>1. PICK la, lb, lc : la = Len(a1) /\ lb = Len(b) /\ lc = Len(c)
  OBVIOUS
<1>2. la \in Nat /\ lb \in Nat /\ lc \in Nat
  BY <1>1, LenProperties
<1>3. /\ Len(f) = la + lb
      /\ \A j \in 1 .. la : f[j] = a1[j]
      /\ \A j \in 1 .. lb : f[la + j] = b[j]
  BY <1>1 DEF IsConcat
<1>4. /\ Len(v) = lb + lc
      /\ \A j \in 1 .. lb : v[j] = b[j]
      /\ \A j \in 1 .. lc : v[lb + j] = c[j]
  BY <1>1 DEF IsConcat
<1>5. ASSUME NEW w \in Seq(Nat), IsConcat(w, a1, v) PROVE IsConcat(w, f, c)
  <2>1. /\ Len(w) = la + Len(v)
        /\ \A j \in 1 .. la : w[j] = a1[j]
        /\ \A j \in 1 .. Len(v) : w[la + j] = v[j]
    BY <1>1, <1>5 DEF IsConcat
  <2>2. Len(w) = Len(f) + Len(c)
    BY <1>1, <1>2, <1>3, <1>4, <2>1
  <2>3. ASSUME NEW j \in 1 .. Len(f) PROVE w[j] = f[j]
    <3>1. j \in 1 .. la + lb
      BY <1>3
    <3>2. CASE j \in 1 .. la
      BY <1>3, <2>1, <3>2
    <3>3. CASE ~(j <= la)
      <4>1. PICK q : q = j - la
        OBVIOUS
      <4>2. q \in 1 .. lb /\ j = la + q /\ q \in 1 .. Len(v)
        BY <1>2, <1>4, <3>1, <3>3, <4>1
      <4>3. w[j] = v[q] /\ v[q] = b[q] /\ f[j] = b[q]
        BY <1>3, <1>4, <2>1, <4>2
      <4> QED BY <4>3
    <3>4. j \in 1 .. la \/ ~(j <= la)
      BY <1>2, <3>1
    <3> QED BY <3>2, <3>3, <3>4
  <2>4. ASSUME NEW j \in 1 .. Len(c) PROVE w[Len(f) + j] = c[j]
    <3>1. PICK q : q = lb + j
      OBVIOUS
    <3>2. q \in 1 .. Len(v) /\ Len(f) + j = la + q /\ j \in 1 .. lc
      BY <1>1, <1>2, <1>3, <1>4, <3>1
    <3>3. w[la + q] = v[q] /\ v[q] = c[j]
      BY <1>4, <2>1, <3>1, <3>2
    <3> QED BY <3>2, <3>3
  <2> QED BY <2>2, <2>3, <2>4 DEF IsConcat
<1>6. ASSUME NEW w \in Seq(Nat), IsConcat(w, f, c) PROVE IsConcat(w, a1, v)
  <2>1. /\ Len(w) = Len(f) + lc
        /\ \A j \in 1 .. Len(f) : w[j] = f[j]
        /\ \A j \in 1 .. lc : w[Len(f) + j] = c[j]
    BY <1>1, <1>6 DEF IsConcat
  <2>2. Len(w) = Len(a1) + Len(v)
    BY <1>1, <1>2, <1>3, <1>4, <2>1
  <2>3. ASSUME NEW j \in 1 .. la PROVE w[j] = a1[j]
    <3>1. j \in 1 .. Len(f)
      BY <1>2, <1>3
    <3> QED BY <1>3, <2>1, <3>1
  <2>4. ASSUME NEW j \in 1 .. Len(v) PROVE w[la + j] = v[j]
    <3>1. j \in 1 .. lb + lc
      BY <1>4
    <3>2. CASE j \in 1 .. lb
      <4>1. la + j \in 1 .. Len(f)
        BY <1>2, <1>3, <3>2
      <4>2. w[la + j] = f[la + j] /\ f[la + j] = b[j] /\ v[j] = b[j]
        BY <1>3, <1>4, <2>1, <3>2, <4>1
      <4> QED BY <4>2
    <3>3. CASE ~(j <= lb)
      <4>1. PICK q : q = j - lb
        OBVIOUS
      <4>2. q \in 1 .. lc /\ la + j = Len(f) + q /\ j = lb + q
        BY <1>2, <1>3, <3>1, <3>3, <4>1
      <4>3. w[Len(f) + q] = c[q] /\ v[j] = c[q]
        BY <1>4, <2>1, <4>2
      <4> QED BY <4>2, <4>3
    <3>4. j \in 1 .. lb \/ ~(j <= lb)
      BY <1>2, <3>1
    <3> QED BY <3>2, <3>3, <3>4
  <2> QED BY <1>1, <2>2, <2>3, <2>4 DEF IsConcat
<1> QED BY <1>5, <1>6

Fore(s, k) == SubSeq(s, 1, k)

Rest(s, k) == SubSeq(s, k, Len(s))

LEMMA PartsOf ==
  ASSUME NEW S, NEW s \in Seq(S), NEW k \in Nat, k <= Len(s)
  PROVE  /\ Fore(s, k) \in Seq(S) /\ Len(Fore(s, k)) = k
         /\ \A j \in 1 .. k : Fore(s, k)[j] = s[j]
         /\ Rest(s, k + 1) \in Seq(S) /\ Len(Rest(s, k + 1)) = Len(s) - k
         /\ \A j \in 1 .. Len(s) - k : Rest(s, k + 1)[j] = s[k + j]
<1>1. Len(s) \in Nat
  BY LenProperties
<1>2. /\ Fore(s, k) \in Seq(S) /\ Len(Fore(s, k)) = k
      /\ \A j \in 1 .. k : Fore(s, k)[j] = s[j]
  <2>1. /\ SubSeq(s, 1, k) \in Seq(S) /\ Len(SubSeq(s, 1, k)) = k - 1 + 1
        /\ \A j \in 1 .. k - 1 + 1 : SubSeq(s, 1, k)[j] = s[1 + j - 1]
    BY SubSeqAt
  <2>2. k - 1 + 1 = k /\ \A j \in 1 .. k : 1 + j - 1 = j
    OBVIOUS
  <2>3. ASSUME NEW j \in 1 .. k PROVE SubSeq(s, 1, k)[j] = s[j]
    <3>1. j \in 1 .. k - 1 + 1 /\ 1 + j - 1 = j
      BY <2>2
    <3>2. SubSeq(s, 1, k)[j] = s[1 + j - 1]
      BY <2>1, <3>1
    <3> QED BY <3>1, <3>2
  <2> QED BY <2>1, <2>2, <2>3 DEF Fore
<1>3. PICK b, g : b = k + 1 /\ g = Len(s)
  OBVIOUS
<1>4. b \in Nat \ {0} /\ g \in Nat /\ g <= Len(s) /\ b <= g + 1
  BY <1>1, <1>3
<1>5. /\ SubSeq(s, b, g) \in Seq(S) /\ Len(SubSeq(s, b, g)) = g - b + 1
      /\ \A j \in 1 .. g - b + 1 : SubSeq(s, b, g)[j] = s[b + j - 1]
  BY <1>4, SubSeqAt
<1>6. Rest(s, k + 1) = SubSeq(s, b, g) /\ g - b + 1 = Len(s) - k
  BY <1>1, <1>3 DEF Rest
<1>7. ASSUME NEW j \in 1 .. Len(s) - k PROVE Rest(s, k + 1)[j] = s[k + j]
  <2>1. j \in 1 .. g - b + 1 /\ b + j - 1 = k + j
    BY <1>1, <1>3, <1>6
  <2>2. SubSeq(s, b, g)[j] = s[b + j - 1]
    BY <1>5, <2>1
  <2> QED BY <1>6, <2>1, <2>2
<1> QED BY <1>2, <1>5, <1>6, <1>7

PartsIn(S, s, k) ==
  /\ Fore(s, k) \in Seq(S) /\ Len(Fore(s, k)) = k
  /\ \A j \in 1 .. k : Fore(s, k)[j] = s[j]
  /\ Rest(s, k + 1) \in Seq(S) /\ Len(Rest(s, k + 1)) = Len(s) - k
  /\ \A j \in 1 .. Len(s) - k : Rest(s, k + 1)[j] = s[k + j]

LEMMA PartsNat ==
  ASSUME NEW s \in Seq(Nat), NEW k \in Nat, k <= Len(s)
  PROVE  PartsIn(Nat, s, k)
BY PartsOf DEF PartsIn

LEMMA JoinParts ==
  ASSUME NEW v \in Seq(Int), NEW k \in Nat, k < Len(v)
  PROVE  /\ IsJoin(v, Fore(v, k), v[k + 1], Rest(v, k + 2)) /\ v[k + 1] \in Int
         /\ Fore(v, k) \in Seq(Int) /\ Rest(v, k + 2) \in Seq(Int)
         /\ Len(Fore(v, k)) = k /\ Len(Rest(v, k + 2)) = Len(v) - k - 1
<1>1. Len(v) \in Nat
  BY LenProperties
<1>2. PICK q : q = k + 1
  OBVIOUS
<1>3. q \in Nat /\ q <= Len(v) /\ k + 2 = q + 1 /\ k <= Len(v)
  BY <1>1, <1>2
<1>4. /\ Fore(v, k) \in Seq(Int) /\ Len(Fore(v, k)) = k
      /\ \A j \in 1 .. k : Fore(v, k)[j] = v[j]
  BY <1>3, PartsOf
<1>5. /\ Rest(v, q + 1) \in Seq(Int) /\ Len(Rest(v, q + 1)) = Len(v) - q
      /\ \A j \in 1 .. Len(v) - q : Rest(v, q + 1)[j] = v[q + j]
  BY <1>3, PartsOf
<1>6. Len(v) - q = Len(v) - k - 1 /\ Len(v) = k + 1 + (Len(v) - q) /\ q \in 1 .. Len(v)
  BY <1>1, <1>2, <1>3
<1>7. v[k + 1] \in Int
  BY <1>2, <1>6, ElementOfSeq
<1>8. IsJoin(v, Fore(v, k), v[k + 1], Rest(v, k + 2))
  BY <1>2, <1>3, <1>4, <1>5, <1>6 DEF IsJoin
<1> QED BY <1>3, <1>4, <1>5, <1>6, <1>7, <1>8

LEMMA ConcatParts ==
  ASSUME NEW v \in Seq(Nat), NEW k \in Nat, k <= Len(v)
  PROVE  /\ IsConcat(v, Fore(v, k), Rest(v, k + 1))
         /\ Fore(v, k) \in Seq(Nat) /\ Rest(v, k + 1) \in Seq(Nat)
         /\ Len(Fore(v, k)) = k /\ Len(Rest(v, k + 1)) = Len(v) - k
<1>1. Len(v) \in Nat
  BY LenProperties
<1>2. /\ Fore(v, k) \in Seq(Nat) /\ Len(Fore(v, k)) = k
      /\ \A j \in 1 .. k : Fore(v, k)[j] = v[j]
      /\ Rest(v, k + 1) \in Seq(Nat) /\ Len(Rest(v, k + 1)) = Len(v) - k
      /\ \A j \in 1 .. Len(v) - k : Rest(v, k + 1)[j] = v[k + j]
  BY PartsOf
<1>3. Len(v) = k + (Len(v) - k)
  BY <1>1
<1>4. IsConcat(v, Fore(v, k), Rest(v, k + 1))
  BY <1>2, <1>3 DEF IsConcat
<1> QED BY <1>2, <1>4

LEMMA ConcatIs ==
  ASSUME NEW u \in Seq(Nat), NEW v \in Seq(Nat)
  PROVE  u \o v \in Seq(Nat) /\ IsConcat(u \o v, u, v)
BY ConcatAt DEF IsConcat

\* The parts of sequences without repetition have no element in common.
LEMMA PartsApart ==
  ASSUME NEW w \in Seq(Nat), NEW u \in Seq(Nat), NEW v \in Seq(Nat), IsConcat(w, u, v), Distinct(w)
  PROVE  /\ Distinct(u) /\ Distinct(v)
         /\ \A i \in 1 .. Len(u) : ~Occurs(v, u[i])
         /\ \A i \in 1 .. Len(v) : ~Occurs(u, v[i])
         /\ \A z : Occurs(w, z) <=> Occurs(u, z) \/ Occurs(v, z)
<1>1. Len(u) \in Nat /\ Len(v) \in Nat
  BY LenProperties
<1>2. /\ Len(w) = Len(u) + Len(v)
      /\ \A j \in 1 .. Len(u) : w[j] = u[j]
      /\ \A j \in 1 .. Len(v) : w[Len(u) + j] = v[j]
  BY DEF IsConcat
<1>3. \A i \in 1 .. Len(u) : i \in 1 .. Len(w)
  BY <1>1, <1>2
<1>4. \A i \in 1 .. Len(v) : Len(u) + i \in 1 .. Len(w)
  BY <1>1, <1>2
<1>5. Distinct(u)
  BY <1>2, <1>3 DEF Distinct
<1>6. Distinct(v)
  <2> SUFFICES ASSUME NEW i \in 1 .. Len(v), NEW j \in 1 .. Len(v), v[i] = v[j] PROVE i = j
    BY DEF Distinct
  <2>1. w[Len(u) + i] = w[Len(u) + j]
    BY <1>2
  <2>2. Len(u) + i = Len(u) + j
    BY <1>4, <2>1 DEF Distinct
  <2> QED BY <1>1, <2>2
<1>7. \A i \in 1 .. Len(u), j \in 1 .. Len(v) : u[i] # v[j]
  <2> SUFFICES ASSUME NEW i \in 1 .. Len(u), NEW j \in 1 .. Len(v), u[i] = v[j] PROVE FALSE
    OBVIOUS
  <2>1. w[i] = w[Len(u) + j]
    BY <1>2
  <2>2. i = Len(u) + j
    BY <1>3, <1>4, <2>1 DEF Distinct
  <2> QED BY <1>1, <2>2
<1>8. ASSUME NEW z, Occurs(w, z) PROVE Occurs(u, z) \/ Occurs(v, z)
  <2>1. PICK i \in 1 .. Len(w) : w[i] = z
    BY <1>8 DEF Occurs
  <2>2. CASE i \in 1 .. Len(u)
    BY <1>2, <2>1, <2>2 DEF Occurs
  <2>3. CASE ~(i <= Len(u))
    <3>1. PICK j : j = i - Len(u)
      OBVIOUS
    <3>2. j \in 1 .. Len(v) /\ Len(u) + j = i
      BY <1>1, <1>2, <2>3, <3>1
    <3> QED BY <1>2, <2>1, <3>2 DEF Occurs
  <2> QED BY <1>1, <2>2, <2>3
<1>9. ASSUME NEW z, Occurs(u, z) \/ Occurs(v, z) PROVE Occurs(w, z)
  BY <1>2, <1>3, <1>4, <1>9 DEF Occurs
<1> QED BY <1>5, <1>6, <1>7, <1>8, <1>9 DEF Occurs

(***************************************************************************)
(* Three nodes with new values.                                            *)
(***************************************************************************)
Valued(m, x, y, p, d, a1, b, e) ==
  [[[m EXCEPT ![x].values = a1] EXCEPT ![p].values[d] = e] EXCEPT ![y].values = b]

ValuedOK(m, n, x, y, p, d, a1, b, e) ==
  /\ TreeNodes(n) /\ DOMAIN n = DOMAIN m
  /\ \A z \in DOMAIN m : /\ SameLink(m[z], n[z]) /\ n[z].leaf = m[z].leaf
                         /\ n[z].max_count = m[z].max_count /\ n[z].children = m[z].children
  /\ \A z \in DOMAIN m \ {x, y, p} : SameBody(m[z], n[z])
  /\ n[x].values = a1 /\ n[y].values = b
  /\ Len(n[p].values) = Len(m[p].values) /\ n[p].values[d] = e
  /\ \A j \in 1 .. Len(m[p].values) : j # d => n[p].values[j] = m[p].values[j]

LEMMA ValuedIs ==
  ASSUME NEW m, TreeNodes(m), NEW x \in DOMAIN m, NEW y \in DOMAIN m, NEW p \in DOMAIN m,
         x # y, x # p, y # p, NEW d \in 1 .. Len(m[p].values),
         NEW a1 \in Seq(Int), NEW b \in Seq(Int), NEW e \in Int
  PROVE  ValuedOK(m, Valued(m, x, y, p, d, a1, b, e), x, y, p, d, a1, b, e)
<1>1. PICK n, g : /\ n = Valued(m, x, y, p, d, a1, b, e)
                  /\ g = [m[p].values EXCEPT ![d] = e]
  OBVIOUS
<1>2. /\ m \in [DOMAIN m -> Node] /\ m[x] \in Node /\ m[y] \in Node /\ m[p] \in Node
      /\ m[p].values \in Seq(Int)
  BY DEF TreeNodes, Node
<1>3. g \in Seq(Int) /\ Len(g) = Len(m[p].values) /\ g[d] = e
      /\ \A j \in 1 .. Len(m[p].values) : j # d => g[j] = m[p].values[j]
  BY <1>1, <1>2, ExceptSeq
<1>4. /\ DOMAIN n = DOMAIN m
      /\ n[x] = [m[x] EXCEPT !.values = a1] /\ n[y] = [m[y] EXCEPT !.values = b]
      /\ n[p] = [m[p] EXCEPT !.values = g] /\ \A z \in DOMAIN m \ {x, y, p} : n[z] = m[z]
  BY <1>1, <1>2 DEF Valued, Node
<1>5. n[x] \in Node /\ n[y] \in Node /\ n[p] \in Node
  BY <1>2, <1>3, <1>4 DEF Node
<1>6. TreeNodes(n)
  <2>1. n = [z \in DOMAIN m |-> n[z]]
    BY <1>1 DEF Valued
  <2>2. \A z \in DOMAIN m : n[z] \in Node
    BY <1>2, <1>4, <1>5
  <2> QED BY <1>4, <2>1, <2>2 DEF TreeNodes
<1>7. /\ n[x].values = a1 /\ n[y].values = b /\ n[p].values = g
  BY <1>2, <1>4 DEF Node
<1>8. ASSUME NEW z \in DOMAIN m
      PROVE  /\ SameLink(m[z], n[z]) /\ n[z].leaf = m[z].leaf
             /\ n[z].max_count = m[z].max_count /\ n[z].children = m[z].children
             /\ z \notin {x, y, p} => SameBody(m[z], n[z])
  <2>1. CASE z = x
    BY <1>2, <1>4, <2>1 DEF Node, SameLink
  <2>2. CASE z = y
    BY <1>2, <1>4, <2>2 DEF Node, SameLink
  <2>3. CASE z = p
    BY <1>2, <1>4, <2>3 DEF Node, SameLink
  <2>4. CASE z \notin {x, y, p}
    BY <1>4, <2>4 DEF SameLink, SameBody
  <2> QED BY <2>1, <2>2, <2>3, <2>4
<1> QED BY <1>1, <1>3, <1>4, <1>6, <1>7, <1>8 DEF ValuedOK

\* The values are shared out anew; the children of the siblings, if they have any, too.
SharedFrom(m, n, m1, p, d, x, y, e, a1, b) ==
  /\ ValuedOK(m, m1, x, y, p, d, a1, b, e) /\ TreeNodes(n) /\ DOMAIN n = DOMAIN m
  /\ \A z \in DOMAIN m \ {x, y} : SameBody(m1[z], n[z])
  /\ n[x].leaf = m[x].leaf /\ n[x].max_count = m[x].max_count /\ n[x].values = a1
  /\ n[y].leaf = m[y].leaf /\ n[y].max_count = m[y].max_count /\ n[y].values = b
  /\ \A w \in Seq(Int) : IsJoin(w, m[x].values, m[p].values[d], m[y].values) => IsJoin(w, a1, e, b)
  /\ \A c \in Seq(Nat) : IsConcat(c, m[x].children, m[y].children)
                           => IsConcat(c, n[x].children, n[y].children)
  /\ ~m[x].leaf => Len(n[x].children) = Len(a1) + 1
  /\ LinksOf(n, x) /\ LinksOf(n, y)
  /\ \A z \in DOMAIN m : ~Occurs(m[x].children, z) /\ ~Occurs(m[y].children, z)
                           => SameLink(m1[z], n[z])

LEMMA SharedIf ==
  ASSUME NEW m, NEW n, NEW m1, NEW p, NEW d, NEW x, NEW y, NEW e, NEW a1, NEW b,
         x # p, y # p, p \in DOMAIN m, SharedFrom(m, n, m1, p, d, x, y, e, a1, b)
  PROVE  Shared(m, n, p, d, x, y, e)
<1>1. ValuedOK(m, m1, x, y, p, d, a1, b, e)
  BY DEF SharedFrom
<1>2. \A z \in DOMAIN m \ {x, y, p} : SameBody(m[z], n[z])
  BY DEF SharedFrom, ValuedOK, SameBody
<1>3. /\ n[p].leaf = m[p].leaf /\ n[p].max_count = m[p].max_count /\ n[p].children = m[p].children
      /\ Len(n[p].values) = Len(m[p].values) /\ n[p].values[d] = e
      /\ \A j \in 1 .. Len(m[p].values) : j # d => n[p].values[j] = m[p].values[j]
  <2>1. SameBody(m1[p], n[p])
    BY DEF SharedFrom
  <2> QED BY <1>1, <2>1 DEF ValuedOK, SameBody
<1>4. \A z \in DOMAIN m : ~Occurs(m[x].children, z) /\ ~Occurs(m[y].children, z)
                            => SameLink(m[z], n[z])
  BY <1>1 DEF SharedFrom, ValuedOK, SameLink
<1> QED BY <1>2, <1>3, <1>4 DEF SharedFrom, Shared

\* Among leaves nothing else is to be done.
LEMMA SharedLeaves ==
  ASSUME NEW m, NEW m1, NEW p, NEW d, NEW x, NEW y, NEW e, NEW a1, NEW b, x # y, x # p, y # p,
         x \in DOMAIN m, y \in DOMAIN m, p \in DOMAIN m,
         ValuedOK(m, m1, x, y, p, d, a1, b, e),
         \A w \in Seq(Int) : IsJoin(w, m[x].values, m[p].values[d], m[y].values)
                               => IsJoin(w, a1, e, b),
         m[x].leaf, Len(m[x].children) = 0, Len(m[y].children) = 0
  PROVE  Shared(m, m1, p, d, x, y, e)
<1>1. LinksOf(m1, x) /\ LinksOf(m1, y)
  BY DEF ValuedOK, LinksOf
<1>2. /\ m1[x].leaf = m[x].leaf /\ m1[x].max_count = m[x].max_count /\ m1[x].values = a1
      /\ m1[y].leaf = m[y].leaf /\ m1[y].max_count = m[y].max_count /\ m1[y].values = b
      /\ m1[x].children = m[x].children /\ m1[y].children = m[y].children
      /\ TreeNodes(m1) /\ DOMAIN m1 = DOMAIN m
  BY DEF ValuedOK
<1>3. SharedFrom(m, m1, m1, p, d, x, y, e, a1, b)
  BY <1>1, <1>2 DEF SharedFrom, SameLink, SameBody
<1> QED BY <1>3, SharedIf

ForestOK(m, r, h, p, d, x, y) ==
  SiblingsOK(m, r, h, p, d, x, y) /\ \A z \in DOMAIN m : ChildrenOK(m, r, h, z)

\* Children of different nodes are different.
LEMMA ChildrenApart ==
  ASSUME NEW m, NEW r, NEW h, NEW p, NEW d, NEW x, NEW y, ForestOK(m, r, h, p, d, x, y)
  PROVE  /\ \A i \in 1 .. Len(m[x].children) : ~Occurs(m[y].children, m[x].children[i])
         /\ \A i \in 1 .. Len(m[y].children) : ~Occurs(m[x].children, m[y].children[i])
         /\ ~Occurs(m[x].children, y) /\ ~Occurs(m[y].children, x)
         /\ ~Occurs(m[x].children, x) /\ ~Occurs(m[y].children, y)
<1>1. x \in DOMAIN m /\ y \in DOMAIN m /\ x # y /\ x # p /\ y # p /\ m[x].parent = p /\ m[y].parent = p
  BY DEF ForestOK, SiblingsOK
<1>2. ChildrenOK(m, r, h, x) /\ ChildrenOK(m, r, h, y)
  BY <1>1 DEF ForestOK
<1>3. /\ \A i \in 1 .. Len(m[x].children) : m[m[x].children[i]].parent = x
      /\ \A i \in 1 .. Len(m[y].children) : m[m[y].children[i]].parent = y
      /\ ~Occurs(m[x].children, x) /\ ~Occurs(m[y].children, y)
  BY <1>2 DEF ChildrenOK
<1>4. \A i \in 1 .. Len(m[x].children) : ~Occurs(m[y].children, m[x].children[i])
  BY <1>1, <1>3 DEF Occurs
<1>5. \A i \in 1 .. Len(m[y].children) : ~Occurs(m[x].children, m[y].children[i])
  BY <1>1, <1>3 DEF Occurs
<1>6. ~Occurs(m[x].children, y) /\ ~Occurs(m[y].children, x)
  BY <1>1, <1>3 DEF Occurs
<1> QED BY <1>3, <1>4, <1>5, <1>6

\* The first children of y, ca, go behind those of x, and the others, cb, stay.
MovesLeft(m, m1, m2, n, x, y, ca, cb) ==
  /\ Placed(m1, m2, x, Len(m[x].children), ca) /\ Placed(m2, n, y, 0, cb)
  /\ ca \in Seq(Nat) /\ cb \in Seq(Nat) /\ IsConcat(m[y].children, ca, cb)

LEMMA MovedLeft ==
  ASSUME NEW m, TreeNodes(m), NEW r, NEW h, NEW p, NEW d, NEW x, NEW y, ForestOK(m, r, h, p, d, x, y),
         NEW m1, NEW e, NEW a1, NEW b, ValuedOK(m, m1, x, y, p, d, a1, b, e),
         NEW m2, NEW n, NEW ca, NEW cb, MovesLeft(m, m1, m2, n, x, y, ca, cb),
         \A w \in Seq(Int) : IsJoin(w, m[x].values, m[p].values[d], m[y].values) => IsJoin(w, a1, e, b),
         Len(m[x].children) + Len(ca) = Len(a1) + 1
  PROVE  Shared(m, n, p, d, x, y, e)
<1>1. PICK cx, cy, k : cx = m[x].children /\ cy = m[y].children /\ k = Len(cx)
  OBVIOUS
<1>2. /\ x \in DOMAIN m /\ y \in DOMAIN m /\ p \in DOMAIN m /\ x # y /\ x # p /\ y # p
      /\ ChildrenOK(m, r, h, x) /\ ChildrenOK(m, r, h, y)
  BY DEF ForestOK, SiblingsOK
<1>3. /\ cx \in Seq(Nat) /\ cy \in Seq(Nat) /\ k \in Nat /\ Distinct(cx) /\ Distinct(cy)
      /\ \A i \in 1 .. Len(cx) : cx[i] \in DOMAIN m /\ m[cx[i]].parent = x /\ m[cx[i]].position = i - 1
      /\ \A i \in 1 .. Len(cy) : cy[i] \in DOMAIN m
  BY <1>1, <1>2 DEF ChildrenOK
<1>4. /\ \A i \in 1 .. Len(cx) : ~Occurs(cy, cx[i])
      /\ \A i \in 1 .. Len(cy) : ~Occurs(cx, cy[i])
  BY <1>1, ChildrenApart
<1>5. /\ Placed(m1, m2, x, k, ca) /\ Placed(m2, n, y, 0, cb)
      /\ ca \in Seq(Nat) /\ cb \in Seq(Nat) /\ IsConcat(cy, ca, cb)
  BY <1>1 DEF MovesLeft
<1>6. /\ Distinct(ca) /\ Distinct(cb) /\ \A i \in 1 .. Len(ca) : ~Occurs(cb, ca[i])
      /\ \A z : Occurs(cy, z) <=> Occurs(ca, z) \/ Occurs(cb, z)
  BY <1>3, <1>5, PartsApart
<1>7. /\ DOMAIN m1 = DOMAIN m /\ DOMAIN m2 = DOMAIN m /\ DOMAIN n = DOMAIN m /\ TreeNodes(n)
  BY <1>5 DEF ValuedOK, Placed
<1>8. \A z \in DOMAIN m \ {x, y} : SameBody(m1[z], n[z])
  BY <1>5, <1>7 DEF Placed, SameBody
<1>9. /\ Len(m2[x].children) = k + Len(ca)
      /\ \A i \in 1 .. k : m2[x].children[i] = cx[i]
      /\ \A i \in 1 .. Len(ca) : m2[x].children[k + i] = ca[i]
  <2>1. m1[x].children = cx
    BY <1>1, <1>2 DEF ValuedOK
  <2> QED BY <1>5, <2>1 DEF Placed
<1>10. n[x].children = m2[x].children /\ n[x].leaf = m[x].leaf /\ n[x].max_count = m[x].max_count
       /\ n[x].values = a1
  <2>1. SameBody(m2[x], n[x])
    BY <1>2, <1>5, <1>7 DEF Placed
  <2>2. m2[x].leaf = m1[x].leaf /\ m2[x].max_count = m1[x].max_count /\ m2[x].values = m1[x].values
    BY <1>5 DEF Placed
  <2>3. m1[x].leaf = m[x].leaf /\ m1[x].max_count = m[x].max_count /\ m1[x].values = a1
    BY <1>2 DEF ValuedOK
  <2> QED BY <2>1, <2>2, <2>3 DEF SameBody
<1>11. n[y].leaf = m[y].leaf /\ n[y].max_count = m[y].max_count /\ n[y].values = b
  <2>1. SameBody(m1[y], m2[y])
    BY <1>2, <1>5, <1>7 DEF Placed
  <2>2. m2[y].leaf = n[y].leaf /\ m2[y].max_count = n[y].max_count /\ m2[y].values = n[y].values
    BY <1>5 DEF Placed
  <2>3. m1[y].leaf = m[y].leaf /\ m1[y].max_count = m[y].max_count /\ m1[y].values = b
    BY <1>2 DEF ValuedOK
  <2> QED BY <2>1, <2>2, <2>3 DEF SameBody
<1>12. /\ Len(n[y].children) = Len(cb) /\ \A i \in 1 .. Len(cb) : n[y].children[i] = cb[i]
  <2>1. /\ Len(n[y].children) = 0 + Len(cb)
        /\ \A i \in 1 .. Len(cb) : n[y].children[0 + i] = cb[i]
    BY <1>5 DEF Placed
  <2>2. Len(cb) \in Nat
    BY <1>5, LenProperties
  <2> QED BY <2>1, <2>2
<1>13. ASSUME NEW c \in Seq(Nat), IsConcat(c, cx, cy)
       PROVE  IsConcat(c, n[x].children, n[y].children)
  <2>1. IsConcat(n[x].children, cx, ca)
    BY <1>1, <1>9, <1>10 DEF IsConcat
  <2>2. n[x].children \in Seq(Nat) /\ n[y].children \in Seq(Nat)
    BY <1>2, <1>7 DEF TreeNodes, Node
  <2>3. IsConcat(c, n[x].children, cb)
    BY <1>3, <1>5, <1>13, <2>1, <2>2, ConcatAssoc
  <2> QED BY <1>12, <2>3 DEF IsConcat
\* Every child of the two knows its place.
<1>14. LinksOf(n, x)
  <2> SUFFICES ASSUME NEW i \in 1 .. Len(n[x].children)
               PROVE  n[n[x].children[i]].parent = x /\ n[n[x].children[i]].position = i - 1
    BY DEF LinksOf
  <2>1. i \in 1 .. k + Len(ca) /\ Len(ca) \in Nat
    BY <1>5, <1>9, <1>10, LenProperties
  <2>2. PICK c : c = n[x].children[i]
    OBVIOUS
  <2>3. CASE i \in 1 .. k
    <3>1. c = cx[i] /\ i \in 1 .. Len(cx)
      BY <1>1, <1>9, <1>10, <2>2, <2>3
    <3>2. ~Occurs(ca, c) /\ ~Occurs(cb, c) /\ c \in DOMAIN m
      BY <1>3, <1>4, <1>6, <3>1
    <3>3. SameLink(m[c], m1[c]) /\ SameLink(m1[c], m2[c]) /\ SameLink(m2[c], n[c])
      BY <1>5, <1>7, <3>2 DEF ValuedOK, Placed
    <3> QED BY <1>3, <2>2, <3>1, <3>3 DEF SameLink
  <2>4. CASE ~(i <= k)
    <3>1. PICK j : j = i - k
      OBVIOUS
    <3>2. j \in 1 .. Len(ca) /\ i = k + j
      BY <1>3, <2>1, <2>4, <3>1
    <3>3. c = ca[j]
      BY <1>9, <1>10, <2>2, <3>2
    <3>4. c \in DOMAIN m
      <4>1. Occurs(cy, c)
        BY <1>6, <3>2, <3>3 DEF Occurs
      <4> QED BY <1>3, <4>1 DEF Occurs
    <3>5. m2[c].parent = x /\ m2[c].position = k + j - 1
      BY <1>5, <1>7, <3>2, <3>3, <3>4 DEF Placed
    <3>6. SameLink(m2[c], n[c])
      BY <1>5, <1>6, <1>7, <3>2, <3>3, <3>4 DEF Placed
    <3>7. n[c].parent = x /\ n[c].position = k + j - 1
      BY <3>5, <3>6 DEF SameLink
    <3>8. k + j - 1 = i - 1
      BY <1>3, <3>2
    <3> QED BY <2>2, <3>7, <3>8
  <2> QED BY <1>3, <2>1, <2>3, <2>4
<1>15. LinksOf(n, y)
  <2> SUFFICES ASSUME NEW i \in 1 .. Len(n[y].children)
               PROVE  n[n[y].children[i]].parent = y /\ n[n[y].children[i]].position = i - 1
    BY DEF LinksOf
  <2>1. i \in 1 .. Len(cb) /\ n[y].children[i] = cb[i]
    BY <1>12
  <2>2. cb[i] \in DOMAIN m2
    <3>1. Occurs(cy, cb[i])
      BY <1>6, <2>1 DEF Occurs
    <3> QED BY <1>3, <1>7, <3>1 DEF Occurs
  <2>3. n[cb[i]].parent = y /\ n[cb[i]].position = 0 + i - 1
    BY <1>5, <2>1, <2>2 DEF Placed
  <2> QED BY <2>1, <2>3
<1>16. ASSUME NEW z \in DOMAIN m, ~Occurs(cx, z), ~Occurs(cy, z) PROVE SameLink(m1[z], n[z])
  <2>1. ~Occurs(ca, z) /\ ~Occurs(cb, z)
    BY <1>6, <1>16
  <2>2. SameLink(m1[z], m2[z]) /\ SameLink(m2[z], n[z])
    BY <1>5, <1>7, <2>1 DEF Placed
  <2> QED BY <2>2 DEF SameLink
<1>17. Len(n[x].children) = Len(a1) + 1
  BY <1>1, <1>9, <1>10
<1>18. SharedFrom(m, n, m1, p, d, x, y, e, a1, b)
  BY <1>1, <1>7, <1>8, <1>10, <1>11, <1>13, <1>14, <1>15, <1>16, <1>17 DEF SharedFrom
<1> QED BY <1>2, <1>18, SharedIf

\* The first k values of y go to x, the last of them by way of the parent.
Given(t, x, y, p, d, a1, b, e) == [t EXCEPT !.mem = Valued(t.mem, x, y, p, d, a1, b, e)]

GivenOK(t, u, x, y, p, d, a1, b, e) ==
  SameFields(t, u) /\ u.ok = t.ok /\ ValuedOK(t.mem, u.mem, x, y, p, d, a1, b, e)

LEMMA GivenIs ==
  ASSUME NEW t, Treelike(t), TreeNodes(t.mem), NEW x \in DOMAIN t.mem, NEW y \in DOMAIN t.mem,
         NEW p \in DOMAIN t.mem, x # y, x # p, y # p, NEW d \in 1 .. Len(t.mem[p].values),
         NEW a1 \in Seq(Int), NEW b \in Seq(Int), NEW e \in Int
  PROVE  GivenOK(t, Given(t, x, y, p, d, a1, b, e), x, y, p, d, a1, b, e)
<1>1. PICK m, u : m = Valued(t.mem, x, y, p, d, a1, b, e) /\ u = Given(t, x, y, p, d, a1, b, e)
  OBVIOUS
<1>2. ValuedOK(t.mem, Valued(t.mem, x, y, p, d, a1, b, e), x, y, p, d, a1, b, e)
  BY ValuedIs
<1>3. DOMAIN m = DOMAIN t.mem
  BY <1>1, <1>2 DEF ValuedOK
<1>4. u = [t EXCEPT !.mem = m]
  BY <1>1 DEF Given
<1>5. SameFields(t, u) /\ u.ok = t.ok /\ u.mem = m
  BY <1>3, <1>4 DEF SameFields, Treelike
<1> QED BY <1>1, <1>2, <1>5 DEF GivenOK

(***************************************************************************)
(* Assignments to fields of nodes, one by one and together.                *)
(***************************************************************************)
With(t, m) == [t EXCEPT !.mem = m]

Written(m, x, w) == [m EXCEPT ![x].values = w]
WrittenAt(m, p, d, e) == [m EXCEPT ![p].values[d] = e]

WriteAll(t, x, w) == [t EXCEPT !.mem[x].values = w]
WriteAt(t, p, d, e) == [t EXCEPT !.mem[p].values[d] = e]

TwoWrites(t, x, y, w, v) == [t EXCEPT !.mem[x].values = w, !.mem[y].values = v]
ThreeWrites(t, x, y, p, d, a1, b, e) ==
  [t EXCEPT !.mem[x].values = a1, !.mem[p].values[d] = e, !.mem[y].values = b]

LEMMA WithIs ==
  ASSUME NEW t, Treelike(t), NEW m
  PROVE  Treelike(With(t, m)) /\ With(t, m).mem = m /\ \A n : With(With(t, m), n) = With(t, n)
<1>1. With(t, m).mem = m /\ \A n : With(With(t, m), n) = With(t, n)
  BY DEF With, Treelike
<1>2. Treelike(With(t, m))
  BY DEF With, Treelike
<1> QED BY <1>1, <1>2

LEMMA WriteIs ==
  ASSUME NEW t, Treelike(t), NEW x, NEW w
  PROVE  WriteAll(t, x, w) = With(t, Written(t.mem, x, w))
  BY DEF With, WriteAll, Written, Treelike

LEMMA WriteAtIs ==
  ASSUME NEW t, Treelike(t), NEW p, NEW d, NEW e
  PROVE  WriteAt(t, p, d, e) = With(t, WrittenAt(t.mem, p, d, e))
  BY DEF With, WriteAt, WrittenAt, Treelike

LEMMA TwoWritesAre ==
  ASSUME NEW t, Treelike(t), NEW x, NEW y, NEW w, NEW v
  PROVE  TwoWrites(t, x, y, w, v) = With(t, Written(Written(t.mem, x, w), y, v))
<1>1. TwoWrites(t, x, y, w, v) = WriteAll(WriteAll(t, x, w), y, v)
  BY DEF TwoWrites, WriteAll, Treelike
<1>2. WriteAll(t, x, w) = With(t, Written(t.mem, x, w))
  BY WriteIs
<1>3. PICK m : m = Written(t.mem, x, w)
  OBVIOUS
<1>4. Treelike(With(t, m)) /\ With(t, m).mem = m /\ \A n : With(With(t, m), n) = With(t, n)
  BY WithIs
<1>5. WriteAll(With(t, m), y, v) = With(With(t, m), Written(With(t, m).mem, y, v))
  BY <1>4, WriteIs
<1> QED BY <1>1, <1>2, <1>3, <1>4, <1>5

LEMMA ThreeWritesAre ==
  ASSUME NEW t, Treelike(t), NEW x, NEW y, NEW p, NEW d, NEW a1, NEW b, NEW e
  PROVE  ThreeWrites(t, x, y, p, d, a1, b, e) = Given(t, x, y, p, d, a1, b, e)
<1>1. ThreeWrites(t, x, y, p, d, a1, b, e) = WriteAll(WriteAt(WriteAll(t, x, a1), p, d, e), y, b)
  BY DEF ThreeWrites, WriteAll, WriteAt, Treelike
<1>2. PICK m : m = Written(t.mem, x, a1)
  OBVIOUS
<1>3. WriteAll(t, x, a1) = With(t, m)
  BY <1>2, WriteIs
<1>4. Treelike(With(t, m)) /\ With(t, m).mem = m /\ \A n : With(With(t, m), n) = With(t, n)
  BY WithIs
<1>5. WriteAt(With(t, m), p, d, e) = With(With(t, m), WrittenAt(With(t, m).mem, p, d, e))
  BY <1>4, WriteAtIs
<1>6. PICK g : g = WrittenAt(m, p, d, e)
  OBVIOUS
<1>7. WriteAt(With(t, m), p, d, e) = With(t, g)
  BY <1>4, <1>5, <1>6
<1>8. Treelike(With(t, g)) /\ With(t, g).mem = g /\ \A n : With(With(t, g), n) = With(t, n)
  BY WithIs
<1>9. WriteAll(With(t, g), y, b) = With(With(t, g), Written(With(t, g).mem, y, b))
  BY <1>8, WriteIs
<1>10. ThreeWrites(t, x, y, p, d, a1, b, e) = With(t, Written(g, y, b))
  BY <1>1, <1>3, <1>7, <1>8, <1>9
<1>11. Written(g, y, b) = Valued(t.mem, x, y, p, d, a1, b, e)
  BY <1>2, <1>6 DEF Written, WrittenAt, Valued
<1> QED BY <1>10, <1>11 DEF With, Given

TakenLeft(t0, t, x, y, p, d, k) ==
  [t0 EXCEPT !.mem[x].values = @ \o <<t.mem[p].values[d]>> \o SubSeq(t.mem[y].values, 1, k - 1),
             !.mem[p].values[d] = t.mem[y].values[k],
             !.mem[y].values = SubSeq(@, k + 1, Len(@))]

LEMMA TakenLeftIs ==
  ASSUME NEW t, Treelike(t), TreeNodes(t.mem), NEW x \in DOMAIN t.mem, NEW y \in DOMAIN t.mem,
         NEW p \in DOMAIN t.mem, x # y, x # p, y # p, NEW d, NEW k
  PROVE  TakenLeft(t, t, x, y, p, d, k)
           = Given(t, x, y, p, d, JoinOf(t.mem[x].values, t.mem[p].values[d],
                                         Fore(t.mem[y].values, k - 1)),
                   Rest(t.mem[y].values, k + 1), t.mem[y].values[k])
<1>1. TakenLeft(t, t, x, y, p, d, k)
        = ThreeWrites(t, x, y, p, d, JoinOf(t.mem[x].values, t.mem[p].values[d],
                                            Fore(t.mem[y].values, k - 1)),
                      Rest(t.mem[y].values, k + 1), t.mem[y].values[k])
  BY DEF TakenLeft, ThreeWrites, JoinOf, Fore, Rest, Treelike
<1> QED BY <1>1, ThreeWritesAre

\* What a rebalancing leaves: the siblings shared out anew around the value e.
Rebalanced(t, u, p, d, x, y, e, i, j) ==
  /\ SameFields(t, u) /\ u.ok = t.ok /\ Shared(t.mem, u.mem, p, d, x, y, e)
  /\ Len(u.mem[x].values) = i /\ Len(u.mem[y].values) = j

LEMMA ConcatLists ==
  ASSUME NEW w \in Seq(Nat), NEW u \in Seq(Nat), NEW v \in Seq(Nat), IsConcat(w, u, v),
         Distinct(u), Distinct(v), \A i \in 1 .. Len(u) : ~Occurs(v, u[i])
  PROVE  /\ Distinct(w) /\ \A z : Occurs(w, z) <=> Occurs(u, z) \/ Occurs(v, z)
<1>1. PICK nu, nv : nu = Len(u) /\ nv = Len(v)
  OBVIOUS
<1>2. /\ nu \in Nat /\ nv \in Nat /\ Len(w) = nu + nv
      /\ \A i \in 1 .. nu : w[i] = u[i]
      /\ \A i \in 1 .. nv : w[nu + i] = v[i]
  BY <1>1, LenProperties DEF IsConcat
<1>3. \A i \in 1 .. Len(w) : i \in 1 .. nu \/ (i - nu \in 1 .. nv /\ nu + (i - nu) = i)
  BY <1>2
<1>4. \A i \in 1 .. nv : w[nu + i] = v[i] /\ nu + i \in 1 .. Len(w)
  BY <1>2
<1>5. \A i \in 1 .. nu : w[i] = u[i] /\ i \in 1 .. Len(w)
  BY <1>2
<1>6. ASSUME NEW i \in 1 .. Len(w)
      PROVE  \/ i \in 1 .. nu /\ w[i] = u[i]
             \/ i - nu \in 1 .. nv /\ w[i] = v[i - nu]
  <2>1. CASE i \in 1 .. nu
    BY <1>2, <2>1
  <2>2. CASE i - nu \in 1 .. nv /\ nu + (i - nu) = i
    <3>1. PICK j : j = i - nu
      OBVIOUS
    <3>2. w[nu + j] = v[j] /\ nu + j = i
      BY <1>2, <2>2, <3>1
    <3> QED BY <2>2, <3>1, <3>2
  <2> QED BY <1>3, <2>1, <2>2
<1>7. ASSUME NEW z PROVE Occurs(w, z) <=> Occurs(u, z) \/ Occurs(v, z)
  <2>1. Occurs(w, z) => Occurs(u, z) \/ Occurs(v, z)
    BY <1>1, <1>6 DEF Occurs
  <2>2. Occurs(u, z) => Occurs(w, z)
    BY <1>1, <1>5 DEF Occurs
  <2>3. Occurs(v, z) => Occurs(w, z)
    BY <1>1, <1>4 DEF Occurs
  <2> QED BY <2>1, <2>2, <2>3
<1>8. Distinct(w)
  <2> SUFFICES ASSUME NEW i \in 1 .. Len(w), NEW j \in 1 .. Len(w), w[i] = w[j] PROVE i = j
    BY DEF Distinct
  <2>1. \/ i \in 1 .. nu /\ w[i] = u[i]
        \/ i - nu \in 1 .. nv /\ w[i] = v[i - nu]
    BY <1>6
  <2>2. \/ j \in 1 .. nu /\ w[j] = u[j]
        \/ j - nu \in 1 .. nv /\ w[j] = v[j - nu]
    BY <1>6
  <2>3. CASE i \in 1 .. nu /\ w[i] = u[i] /\ j \in 1 .. nu /\ w[j] = u[j]
    BY <1>1, <2>3 DEF Distinct
  <2>4. CASE i \in 1 .. nu /\ w[i] = u[i] /\ j - nu \in 1 .. nv /\ w[j] = v[j - nu]
    BY <1>1, <2>4 DEF Occurs
  <2>5. CASE i - nu \in 1 .. nv /\ w[i] = v[i - nu] /\ j \in 1 .. nu /\ w[j] = u[j]
    BY <1>1, <2>5 DEF Occurs
  <2>6. CASE i - nu \in 1 .. nv /\ w[i] = v[i - nu] /\ j - nu \in 1 .. nv /\ w[j] = v[j - nu]
    <3>1. i - nu = j - nu
      BY <1>1, <2>6 DEF Distinct
    <3>2. i \in Int /\ j \in Int
      OBVIOUS
    <3> QED BY <1>2, <3>1, <3>2
  <2> QED BY <2>1, <2>2, <2>3, <2>4, <2>5, <2>6
<1> QED BY <1>7, <1>8

\* In m2 the children of x are ca, and all else is as in m1.
Recut(m1, m2, x, ca) ==
  /\ TreeNodes(m2) /\ DOMAIN m2 = DOMAIN m1
  /\ m2[x] = [m1[x] EXCEPT !.children = ca]
  /\ \A z \in DOMAIN m1 \ {x} : m2[z] = m1[z]

\* The last children of x, cb, go before those of y, and the others, ca, stay.
MovesRight(m, m1, m2, n, x, y, ca, cb, cc) ==
  /\ Recut(m1, m2, x, ca) /\ Placed(m2, n, y, 0, cc)
  /\ ca \in Seq(Nat) /\ cb \in Seq(Nat) /\ cc \in Seq(Nat)
  /\ IsConcat(m[x].children, ca, cb) /\ IsConcat(cc, cb, m[y].children)

LEMMA MovedRight ==
  ASSUME NEW m, TreeNodes(m), NEW r, NEW h, NEW p, NEW d, NEW x, NEW y, ForestOK(m, r, h, p, d, x, y),
         NEW m1, NEW e, NEW a1, NEW b, ValuedOK(m, m1, x, y, p, d, a1, b, e),
         NEW m2, NEW n, NEW ca, NEW cb, NEW cc, MovesRight(m, m1, m2, n, x, y, ca, cb, cc),
         \A w \in Seq(Int) : IsJoin(w, m[x].values, m[p].values[d], m[y].values) => IsJoin(w, a1, e, b),
         Len(ca) = Len(a1) + 1
  PROVE  Shared(m, n, p, d, x, y, e)
<1>1. PICK cx, cy : cx = m[x].children /\ cy = m[y].children
  OBVIOUS
<1>2. /\ x \in DOMAIN m /\ y \in DOMAIN m /\ p \in DOMAIN m /\ x # y /\ x # p /\ y # p
      /\ ChildrenOK(m, r, h, x) /\ ChildrenOK(m, r, h, y)
  BY DEF ForestOK, SiblingsOK
<1>3. /\ cx \in Seq(Nat) /\ cy \in Seq(Nat) /\ Distinct(cx) /\ Distinct(cy)
      /\ \A i \in 1 .. Len(cx) : cx[i] \in DOMAIN m /\ m[cx[i]].parent = x /\ m[cx[i]].position = i - 1
      /\ \A i \in 1 .. Len(cy) : cy[i] \in DOMAIN m
  BY <1>1, <1>2 DEF ChildrenOK
<1>4. /\ \A i \in 1 .. Len(cx) : ~Occurs(cy, cx[i])
      /\ \A i \in 1 .. Len(cy) : ~Occurs(cx, cy[i])
  BY <1>1, ChildrenApart
<1>5. /\ Recut(m1, m2, x, ca) /\ Placed(m2, n, y, 0, cc)
      /\ ca \in Seq(Nat) /\ cb \in Seq(Nat) /\ cc \in Seq(Nat)
      /\ IsConcat(cx, ca, cb) /\ IsConcat(cc, cb, cy)
  BY <1>1 DEF MovesRight
<1>6. /\ Distinct(ca) /\ Distinct(cb) /\ \A i \in 1 .. Len(ca) : ~Occurs(cb, ca[i])
      /\ \A z : Occurs(cx, z) <=> Occurs(ca, z) \/ Occurs(cb, z)
  BY <1>3, <1>5, PartsApart
<1>7. \A i \in 1 .. Len(cb) : ~Occurs(cy, cb[i])
  <2> SUFFICES ASSUME NEW i \in 1 .. Len(cb) PROVE ~Occurs(cy, cb[i])
    OBVIOUS
  <2>1. Occurs(cx, cb[i])
    <3>1. Occurs(cb, cb[i])
      BY DEF Occurs
    <3> QED BY <1>6, <3>1
  <2> QED BY <1>4, <2>1 DEF Occurs
<1>8. /\ Distinct(cc) /\ \A z : Occurs(cc, z) <=> Occurs(cb, z) \/ Occurs(cy, z)
  BY <1>3, <1>5, <1>6, <1>7, ConcatLists
<1>9. \A i \in 1 .. Len(ca) : ~Occurs(cc, ca[i])
  <2> SUFFICES ASSUME NEW i \in 1 .. Len(ca) PROVE ~Occurs(cc, ca[i])
    OBVIOUS
  <2>1. Occurs(cx, ca[i])
    <3>1. Occurs(ca, ca[i])
      BY DEF Occurs
    <3> QED BY <1>6, <3>1
  <2>2. ~Occurs(cy, ca[i])
    BY <1>4, <2>1 DEF Occurs
  <2> QED BY <1>6, <1>8, <2>2
<1>10. /\ DOMAIN m1 = DOMAIN m /\ DOMAIN m2 = DOMAIN m /\ DOMAIN n = DOMAIN m /\ TreeNodes(n)
  BY <1>5 DEF ValuedOK, Placed, Recut
<1>11. \A z \in DOMAIN m \ {x, y} : SameBody(m1[z], n[z])
  BY <1>5, <1>10 DEF Placed, Recut
<1>12. m1[x] \in Node
  BY <1>2, <1>10 DEF ValuedOK, TreeNodes
<1>13. \A z \in DOMAIN m : SameLink(m1[z], m2[z])
  <2>1. SameLink(m1[x], m2[x])
    BY <1>5, <1>12 DEF Recut, SameLink, Node
  <2> QED BY <1>5, <1>10, <2>1 DEF Recut, SameLink
<1>14. n[x].children = ca /\ n[x].leaf = m[x].leaf /\ n[x].max_count = m[x].max_count
       /\ n[x].values = a1
  <2>1. SameBody(m2[x], n[x])
    BY <1>2, <1>5, <1>10 DEF Placed
  <2>2. m2[x].leaf = m1[x].leaf /\ m2[x].max_count = m1[x].max_count /\ m2[x].values = m1[x].values
        /\ m2[x].children = ca
    BY <1>5, <1>12 DEF Recut, Node
  <2>3. m1[x].leaf = m[x].leaf /\ m1[x].max_count = m[x].max_count /\ m1[x].values = a1
    BY <1>2 DEF ValuedOK
  <2> QED BY <2>1, <2>2, <2>3 DEF SameBody
<1>15. n[y].leaf = m[y].leaf /\ n[y].max_count = m[y].max_count /\ n[y].values = b
  <2>1. m2[y] = m1[y]
    BY <1>2, <1>5, <1>10 DEF Recut
  <2>2. m2[y].leaf = n[y].leaf /\ m2[y].max_count = n[y].max_count /\ m2[y].values = n[y].values
    BY <1>5 DEF Placed
  <2>3. m1[y].leaf = m[y].leaf /\ m1[y].max_count = m[y].max_count /\ m1[y].values = b
    BY <1>2 DEF ValuedOK
  <2> QED BY <2>1, <2>2, <2>3
<1>16. /\ Len(n[y].children) = Len(cc) /\ \A i \in 1 .. Len(cc) : n[y].children[i] = cc[i]
  <2>1. /\ Len(n[y].children) = 0 + Len(cc)
        /\ \A i \in 1 .. Len(cc) : n[y].children[0 + i] = cc[i]
    BY <1>5 DEF Placed
  <2>2. Len(cc) \in Nat
    BY <1>5, LenProperties
  <2> QED BY <2>1, <2>2
<1>17. ASSUME NEW c \in Seq(Nat), IsConcat(c, cx, cy)
       PROVE  IsConcat(c, n[x].children, n[y].children)
  <2>1. IsConcat(c, ca, cc)
    BY <1>3, <1>5, <1>17, ConcatAssoc
  <2> QED BY <1>14, <1>16, <2>1 DEF IsConcat
<1>18. LinksOf(n, x)
  <2> SUFFICES ASSUME NEW i \in 1 .. Len(ca)
               PROVE  n[ca[i]].parent = x /\ n[ca[i]].position = i - 1
    BY <1>14 DEF LinksOf
  <2>1. i \in 1 .. Len(cx) /\ ca[i] = cx[i]
    <3>1. Len(ca) \in Nat /\ Len(cb) \in Nat /\ Len(cx) = Len(ca) + Len(cb)
          /\ \A j \in 1 .. Len(ca) : cx[j] = ca[j]
      BY <1>5, LenProperties DEF IsConcat
    <3> QED BY <3>1
  <2>2. ca[i] \in DOMAIN m /\ ~Occurs(cc, ca[i])
    BY <1>3, <1>9, <2>1
  <2>3. SameLink(m[ca[i]], m1[ca[i]]) /\ SameLink(m1[ca[i]], m2[ca[i]])
        /\ SameLink(m2[ca[i]], n[ca[i]])
    BY <1>5, <1>10, <1>13, <2>2 DEF ValuedOK, Placed
  <2> QED BY <1>3, <2>1, <2>3 DEF SameLink
<1>19. LinksOf(n, y)
  <2> SUFFICES ASSUME NEW i \in 1 .. Len(n[y].children)
               PROVE  n[n[y].children[i]].parent = y /\ n[n[y].children[i]].position = i - 1
    BY DEF LinksOf
  <2>1. i \in 1 .. Len(cc) /\ n[y].children[i] = cc[i]
    BY <1>16
  <2>2. cc[i] \in DOMAIN m2
    <3>1. Occurs(cc, cc[i])
      BY <2>1 DEF Occurs
    <3>2. Occurs(cx, cc[i]) \/ Occurs(cy, cc[i])
      BY <1>6, <1>8, <3>1
    <3> QED BY <1>3, <1>10, <3>2 DEF Occurs
  <2>3. n[cc[i]].parent = y /\ n[cc[i]].position = 0 + i - 1
    BY <1>5, <2>1, <2>2 DEF Placed
  <2> QED BY <2>1, <2>3
<1>20. ASSUME NEW z \in DOMAIN m, ~Occurs(cx, z), ~Occurs(cy, z) PROVE SameLink(m1[z], n[z])
  <2>1. ~Occurs(cc, z)
    BY <1>6, <1>8, <1>20
  <2>2. SameLink(m1[z], m2[z]) /\ SameLink(m2[z], n[z])
    BY <1>5, <1>10, <1>13, <2>1 DEF Placed
  <2> QED BY <2>2 DEF SameLink
<1>21. Len(n[x].children) = Len(a1) + 1
  BY <1>14
<1>22. SharedFrom(m, n, m1, p, d, x, y, e, a1, b)
  BY <1>1, <1>10, <1>11, <1>14, <1>15, <1>17, <1>18, <1>19, <1>20, <1>21 DEF SharedFrom
<1> QED BY <1>2, <1>22, SharedIf

CutChildren(t, x, j) == [t EXCEPT !.mem[x].children = SubSeq(@, 1, j)]

CutOK(t, u, x, cs) == SameFields(t, u) /\ u.ok = t.ok /\ Recut(t.mem, u.mem, x, cs)

LEMMA CutIs ==
  ASSUME NEW t, Treelike(t), TreeNodes(t.mem), NEW x \in DOMAIN t.mem,
         NEW j \in Nat, j <= Len(t.mem[x].children)
  PROVE  CutOK(t, CutChildren(t, x, j), x, Fore(t.mem[x].children, j))
<1>1. PICK m, n, cs : /\ m = t.mem /\ cs = Fore(m[x].children, j)
                      /\ n = [m EXCEPT ![x].children = cs]
  OBVIOUS
<1>2. m \in [DOMAIN m -> Node] /\ m[x] \in Node /\ m[x].children \in Seq(Nat)
  BY <1>1 DEF TreeNodes, Node
<1>3. cs \in Seq(Nat)
  BY <1>1, <1>2, PartsOf
<1>4. CutChildren(t, x, j) = [t EXCEPT !.mem = n]
  BY <1>1 DEF CutChildren, Fore
<1>5. DOMAIN n = DOMAIN m /\ n[x] = [m[x] EXCEPT !.children = cs] /\ \A z \in DOMAIN m \ {x} : n[z] = m[z]
  BY <1>1, <1>2
<1>6. TreeNodes(n)
  <2>1. n[x] \in Node
    BY <1>2, <1>3, <1>5 DEF Node
  <2>2. n \in [DOMAIN m -> Node]
    BY <1>1, <1>2, <1>5, <2>1
  <2> QED BY <1>1, <1>5, <2>2 DEF TreeNodes
<1>7. SameFields(t, CutChildren(t, x, j)) /\ CutChildren(t, x, j).ok = t.ok
      /\ CutChildren(t, x, j).mem = n
  BY <1>1, <1>4, <1>5 DEF SameFields, Treelike
<1> QED BY <1>1, <1>5, <1>6, <1>7 DEF CutOK, Recut

TakenRight(t0, t, x, y, p, d, k) ==
  [t0 EXCEPT !.mem[y].values = SubSeq(t.mem[x].values, k + 2, Len(t.mem[x].values))
                                 \o <<t.mem[p].values[d]>> \o @,
             !.mem[p].values[d] = t.mem[x].values[k + 1],
             !.mem[x].values = SubSeq(@, 1, k)]

LEMMA TakenRightIs ==
  ASSUME NEW t, Treelike(t), TreeNodes(t.mem), NEW x \in DOMAIN t.mem, NEW y \in DOMAIN t.mem,
         NEW p \in DOMAIN t.mem, x # y, x # p, y # p, NEW d, NEW k
  PROVE  TakenRight(t, t, x, y, p, d, k)
           = Given(t, y, x, p, d, JoinOf(Rest(t.mem[x].values, k + 2), t.mem[p].values[d],
                                         t.mem[y].values),
                   Fore(t.mem[x].values, k), t.mem[x].values[k + 1])
<1>1. TakenRight(t, t, x, y, p, d, k)
        = ThreeWrites(t, y, x, p, d, JoinOf(Rest(t.mem[x].values, k + 2), t.mem[p].values[d],
                                            t.mem[y].values),
                      Fore(t.mem[x].values, k), t.mem[x].values[k + 1])
  BY DEF TakenRight, ThreeWrites, JoinOf, Fore, Rest, Treelike
<1> QED BY <1>1, ThreeWritesAre

Blank(leaf, parent, max) ==
  [leaf |-> leaf, position |-> 0, parent |-> parent, max_count |-> max,
   values |-> <<>>, children |-> <<>>]

\* n is m with one more node, y.
Grown(m, n, y, b) ==
  /\ TreeNodes(n) /\ y \notin DOMAIN m /\ DOMAIN n = DOMAIN m \cup {y}
  /\ n[y] = b /\ \A z \in DOMAIN m : n[z] = m[z]

AllocateOK(t, u, y, b) ==
  /\ Treelike(u) /\ u.root = t.root /\ u.rightmost = t.rightmost /\ u.size = t.size
  /\ u.ok = t.ok /\ Grown(t.mem, u.mem, y, b)

\* The values of x are shared between x and y.
Halved(m, x, y, a1, b) == [[m EXCEPT ![y].values = b] EXCEPT ![x].values = a1]

HalvedOK(m, n, x, y, a1, b) ==
  /\ TreeNodes(n) /\ DOMAIN n = DOMAIN m
  /\ \A z \in DOMAIN m : /\ SameLink(m[z], n[z]) /\ n[z].leaf = m[z].leaf
                         /\ n[z].max_count = m[z].max_count /\ n[z].children = m[z].children
  /\ \A z \in DOMAIN m \ {x, y} : n[z] = m[z]
  /\ n[x].values = a1 /\ n[y].values = b

LEMMA HalvedIs ==
  ASSUME NEW m, TreeNodes(m), NEW x \in DOMAIN m, NEW y \in DOMAIN m, x # y,
         NEW a1 \in Seq(Int), NEW b \in Seq(Int)
  PROVE  HalvedOK(m, Halved(m, x, y, a1, b), x, y, a1, b)
<1>1. PICK m1, n : m1 = [m EXCEPT ![y].values = b] /\ n = [m1 EXCEPT ![x].values = a1]
  OBVIOUS
<1>2. Revalued(m, m1, y, b)
  BY <1>1, RevaluedIs
<1>3. TreeNodes(m1) /\ DOMAIN m1 = DOMAIN m /\ m1[y] = [m[y] EXCEPT !.values = b]
      /\ \A z \in DOMAIN m \ {y} : m1[z] = m[z]
  BY <1>2 DEF Revalued
<1>4. Revalued(m1, n, x, a1)
  BY <1>1, <1>3, RevaluedIs
<1>5. /\ TreeNodes(n) /\ DOMAIN n = DOMAIN m /\ n[x] = [m[x] EXCEPT !.values = a1]
      /\ n[y] = [m[y] EXCEPT !.values = b] /\ \A z \in DOMAIN m \ {x, y} : n[z] = m[z]
  BY <1>3, <1>4 DEF Revalued
<1>6. m[x] \in Node /\ m[y] \in Node
  BY DEF TreeNodes
<1>7. /\ SameLink(m[x], n[x]) /\ n[x].leaf = m[x].leaf
      /\ n[x].max_count = m[x].max_count /\ n[x].children = m[x].children /\ n[x].values = a1
  BY <1>5, <1>6 DEF Node, SameLink
<1>8. /\ SameLink(m[y], n[y]) /\ n[y].leaf = m[y].leaf
      /\ n[y].max_count = m[y].max_count /\ n[y].children = m[y].children /\ n[y].values = b
  BY <1>5, <1>6 DEF Node, SameLink
<1>9. \A z \in DOMAIN m : /\ SameLink(m[z], n[z]) /\ n[z].leaf = m[z].leaf
                         /\ n[z].max_count = m[z].max_count /\ n[z].children = m[z].children
  BY <1>5, <1>7, <1>8 DEF SameLink
<1>10. HalvedOK(m, n, x, y, a1, b)
  BY <1>5, <1>7, <1>8, <1>9 DEF HalvedOK
<1> QED BY <1>1, <1>10 DEF Halved

(***************************************************************************)
(* insert_value on an inner node, and the child that is put in the place   *)
(* behind the new value.                                                   *)
(***************************************************************************)
\* The places of an inner node p of which none is taken by y.
HasPlaces(m, p, y) ==
  /\ TreeNodes(m) /\ p \in DOMAIN m /\ ~m[p].leaf /\ y \in DOMAIN m /\ y # p
  /\ Len(m[p].children) = Len(m[p].values) + 1
  /\ Distinct(m[p].children) /\ ~Occurs(m[p].children, p) /\ ~Occurs(m[p].children, y)
  /\ \A j \in 1 .. Len(m[p].children) : m[p].children[j] \in DOMAIN m

\* The value s is at place i + 1 of p; the place behind it is NULL.
PlaceMade(m, n, p, i, s) ==
  /\ TreeNodes(n) /\ DOMAIN n = DOMAIN m
  /\ \A z \in DOMAIN m \ {p} : SameBody(m[z], n[z])
  /\ m[p].leaf = n[p].leaf /\ m[p].max_count = n[p].max_count
  /\ IsWithout(m[p].values, n[p].values, i + 1) /\ n[p].values[i + 1] = s
  /\ IsWithout(m[p].children, n[p].children, i + 2)
  /\ \A j \in i + 2 .. Len(m[p].children) :
       /\ n[m[p].children[j]].parent = p
       /\ n[m[p].children[j]].position = j
  /\ \A z \in DOMAIN m :
       (\A j \in i + 2 .. Len(m[p].children) : m[p].children[j] # z) => SameLink(m[z], n[z])

PlaceMadeOK(t, u, p, i, s) == SameFields(t, u) /\ u.ok = t.ok /\ PlaceMade(t.mem, u.mem, p, i, s)

WithValue(t, p, i, s) == [t EXCEPT !.mem[p].values = InsertAt(@, i + 1, s)]

InsertedIn(S, f, w, e, s) ==
  /\ w \in Seq(S) /\ Len(w) = Len(f) + 1 /\ w[e] = s
  /\ \A j \in 1 .. e - 1 : w[j] = f[j]
  /\ \A j \in e .. Len(f) : w[j + 1] = f[j]

LEMMA InsertedOf ==
  ASSUME NEW S, NEW f \in Seq(S), NEW s \in S, NEW e \in 1 .. Len(f) + 1
  PROVE  InsertedIn(S, f, InsertAt(f, e, s), e, s)
BY InsertedAt DEF InsertedIn

GrownBy(f, g, e, s) == g \in Seq(Int) /\ IsWithout(f, g, e) /\ g[e] = s

LEMMA InsertedInt ==
  ASSUME NEW f \in Seq(Int), NEW s \in Int, NEW e \in 1 .. Len(f) + 1
  PROVE  GrownBy(f, InsertAt(f, e, s), e, s)
<1>1. PICK g : g = InsertAt(f, e, s)
  OBVIOUS
<1>2. /\ g \in Seq(Int) /\ Len(g) = Len(f) + 1 /\ g[e] = s
      /\ \A j \in 1 .. e - 1 : g[j] = f[j]
      /\ \A j \in e .. Len(f) : g[j + 1] = f[j]
  <2>1. InsertedIn(Int, f, InsertAt(f, e, s), e, s)
    BY InsertedOf
  <2> QED BY <1>1, <2>1, Zenon DEF InsertedIn
<1>3. Len(f) \in Nat /\ e \in 1 .. Len(g) /\ Len(f) = Len(g) - 1 /\ Len(g) - 1 = Len(f)
  BY <1>2, LenProperties
<1> QED BY <1>1, <1>2, <1>3 DEF GrownBy, IsWithout

(***************************************************************************)
(* split.                                                                  *)
(***************************************************************************)
\* The number of values that go to the new node.
Moving(t, x, i) ==
  CASE i = 0 -> Len(t.mem[x].values) - 1
    [] i = t.mem[x].max_count /\ i # 0 -> 0
    [] OTHER -> Len(t.mem[x].values) \div 2

SplitAt(t, x, y, k) ==
  [t EXCEPT !.mem[y].values = SubSeq(t.mem[x].values, k + 2, Len(t.mem[x].values)),
            !.mem[x].values = SubSeq(@, 1, k)]

Hook(t, p, y, e) ==
  [t EXCEPT !.mem[p].children[e + 2] = y, !.mem[y].parent = p, !.mem[y].position = e + 1]

SplitAtOK(t, u, x, y, a1, b) == SameFields(t, u) /\ u.ok = t.ok /\ HalvedOK(t.mem, u.mem, x, y, a1, b)

LEMMA SplitAtIs ==
  ASSUME NEW t, Treelike(t), TreeNodes(t.mem), NEW x \in DOMAIN t.mem, NEW y \in DOMAIN t.mem, x # y,
         NEW k \in Nat, k < Len(t.mem[x].values)
  PROVE  SplitAtOK(t, SplitAt(t, x, y, k), x, y, Fore(t.mem[x].values, k), Rest(t.mem[x].values, k + 2))
<1>1. PICK m, v, a1, b, m1, n :
        /\ m = t.mem /\ v = m[x].values /\ a1 = Fore(v, k) /\ b = Rest(v, k + 2)
        /\ m1 = [m EXCEPT ![y].values = b] /\ n = [m1 EXCEPT ![x].values = a1]
  OBVIOUS
<1>2. m[x] \in Node /\ v \in Seq(Int) /\ m \in [DOMAIN m -> Node]
  BY <1>1 DEF TreeNodes, Node
<1>3. a1 \in Seq(Int) /\ b \in Seq(Int)
  BY <1>1, <1>2, JoinParts
<1>4. HalvedOK(m, Halved(m, x, y, a1, b), x, y, a1, b)
  BY <1>1, <1>3, HalvedIs
<1>5. n = Halved(m, x, y, a1, b)
  BY <1>1 DEF Halved
<1>6. m1[x].values = v
  BY <1>1
<1>7. SplitAt(t, x, y, k) = [t EXCEPT !.mem = n]
  <2>1. DOMAIN m1 = DOMAIN m
    BY <1>1
  <2> QED BY <1>1, <1>2, <1>6, <2>1 DEF SplitAt, Treelike, Fore, Rest
<1>8. DOMAIN n = DOMAIN m
  BY <1>4, <1>5 DEF HalvedOK
<1>9. PICK u : u = [t EXCEPT !.mem = n]
  OBVIOUS
<1>10. SameFields(t, u) /\ u.ok = t.ok /\ u.mem = n
  BY <1>1, <1>8, <1>9 DEF SameFields, Treelike
<1> QED BY <1>1, <1>4, <1>5, <1>7, <1>9, <1>10 DEF SplitAtOK

\* In n the place behind place e of p is that of y, and y knows it.
Hooked(m, n, p, y, e) ==
  /\ TreeNodes(n) /\ DOMAIN n = DOMAIN m
  /\ \A z \in DOMAIN m \ {p} : SameBody(m[z], n[z])
  /\ n[p].leaf = m[p].leaf /\ n[p].values = m[p].values /\ n[p].max_count = m[p].max_count
  /\ Len(n[p].children) = Len(m[p].children) /\ n[p].children[e + 2] = y
  /\ \A j \in 1 .. Len(m[p].children) : j # e + 2 => n[p].children[j] = m[p].children[j]
  /\ n[y].parent = p /\ n[y].position = e + 1
  /\ \A z \in DOMAIN m \ {y} : SameLink(m[z], n[z])

HookOK(t, u, p, y, e) == SameFields(t, u) /\ u.ok = t.ok /\ Hooked(t.mem, u.mem, p, y, e)

LEMMA HookIs ==
  ASSUME NEW t, Treelike(t), TreeNodes(t.mem), NEW p \in DOMAIN t.mem, NEW y \in DOMAIN t.mem, p # y,
         NEW e \in Nat, e + 2 \in 1 .. Len(t.mem[p].children)
  PROVE  HookOK(t, Hook(t, p, y, e), p, y, e)
<1>1. PICK m, g, n : /\ m = t.mem /\ g = [m[p].children EXCEPT ![e + 2] = y]
                     /\ n = [z \in DOMAIN m |->
                               CASE z = p -> [m[p] EXCEPT !.children = g]
                                 [] z = y /\ z # p -> [m[y] EXCEPT !.parent = p, !.position = e + 1]
                                 [] OTHER -> m[z]]
  OBVIOUS
<1>2. /\ m \in [DOMAIN m -> Node] /\ m[p] \in Node /\ m[y] \in Node
      /\ m[p].children \in Seq(Nat) /\ y \in Nat /\ p \in Nat
  BY <1>1 DEF TreeNodes, Node
<1>3. g \in Seq(Nat) /\ Len(g) = Len(m[p].children) /\ g[e + 2] = y
      /\ \A j \in 1 .. Len(m[p].children) : j # e + 2 => g[j] = m[p].children[j]
  BY <1>1, <1>2, ExceptSeq
<1>4. /\ n[p] = [m[p] EXCEPT !.children = g]
      /\ n[y] = [m[y] EXCEPT !.parent = p, !.position = e + 1]
      /\ \A z \in DOMAIN m \ {p, y} : n[z] = m[z]
      /\ DOMAIN n = DOMAIN m
  BY <1>1
<1>5. Hook(t, p, y, e) = [t EXCEPT !.mem = n]
  <2>1. [[[m EXCEPT ![p].children[e + 2] = y] EXCEPT ![y].parent = p] EXCEPT ![y].position = e + 1] = n
    BY <1>1, <1>2 DEF Node
  <2> QED BY <1>1, <1>2, <2>1 DEF Hook, Treelike
<1>6. n[p] \in Node /\ n[y] \in Node
  <2>1. n[p] \in Node
    BY <1>2, <1>3, <1>4 DEF Node
  <2>2. e + 1 \in Nat
    OBVIOUS
  <2>3. n[y] \in Node
    BY <1>2, <1>4, <2>2 DEF Node
  <2> QED BY <2>1, <2>3
<1>7. TreeNodes(n)
  <2>1. n = [z \in DOMAIN m |-> n[z]]
    BY <1>1
  <2>2. \A z \in DOMAIN m : n[z] \in Node
    BY <1>2, <1>4, <1>6
  <2> QED BY <1>1, <1>4, <2>1, <2>2 DEF TreeNodes
<1>8. /\ n[p].leaf = m[p].leaf /\ n[p].values = m[p].values /\ n[p].max_count = m[p].max_count
      /\ n[p].children = g /\ SameLink(m[p], n[p])
  BY <1>2, <1>4 DEF Node, SameLink
<1>9. SameBody(m[y], n[y]) /\ n[y].parent = p /\ n[y].position = e + 1
  BY <1>2, <1>4 DEF Node, SameBody
<1>10. \A z \in DOMAIN m \ {p, y} : SameBody(m[z], n[z]) /\ SameLink(m[z], n[z])
  BY <1>4 DEF SameBody, SameLink
<1>11. Hooked(m, n, p, y, e)
  BY <1>3, <1>4, <1>7, <1>8, <1>9, <1>10 DEF Hooked
<1>12. PICK u : u = [t EXCEPT !.mem = n]
  OBVIOUS
<1>13. SameFields(t, u) /\ u.ok = t.ok /\ u.mem = n
  BY <1>1, <1>4, <1>12 DEF SameFields, Treelike
<1> QED BY <1>1, <1>5, <1>11, <1>12, <1>13 DEF HookOK

\* The steps of a split: m is the tree, m1 the tree with the new node y, m2 has
\* the values of x shared with y, m3 the value s between them in p, and in n the
\* node y hangs behind x.
SplitSteps(m, m1, m2, m3, n, p, d, x, y, a1, s, b) ==
  /\ \E c : Grown(m, m1, y, c) /\ c.leaf = m[x].leaf /\ c.values = <<>> /\ c.children = <<>>
  /\ HalvedOK(m1, m2, x, y, a1, b) /\ PlaceMade(m2, m3, p, d - 1, s) /\ Hooked(m3, n, p, y, d - 1)

\* x is the child of p at place d.
Child1(m, r, h, p, d, x) ==
  /\ x \in DOMAIN m /\ p \in DOMAIN m /\ x # p /\ ~m[p].leaf
  /\ d \in 1 .. Len(m[p].children) /\ m[p].children[d] = x
  /\ \A z \in DOMAIN m : ChildrenOK(m, r, h, z)

\* In n the node y hangs behind x in p, and they share the values of x.
Spliced(m, n, p, d, x, y, a1, s, b) ==
  /\ TreeNodes(n) /\ y \notin DOMAIN m /\ DOMAIN n = DOMAIN m \cup {y}
  /\ \A z \in DOMAIN m \ {x, p} : SameBody(n[z], m[z])
  /\ n[x].leaf = m[x].leaf /\ n[x].values = a1 /\ n[x].children = m[x].children
  /\ n[y].leaf = m[x].leaf /\ n[y].values = b /\ n[y].children = <<>>
  /\ ~n[p].leaf /\ n[p].children[d] = x /\ n[p].children[d + 1] = y
  /\ IsWithout(m[p].values, n[p].values, d) /\ n[p].values[d] = s
  /\ IsWithout(m[p].children, n[p].children, d + 1)
  /\ LinksOf(n, p)
  /\ \A z \in DOMAIN m : ~Occurs(m[p].children, z) => SameLink(m[z], n[z])
  /\ \A z \in DOMAIN m : n[z].max_count = m[z].max_count

LEMMA SplicedIs ==
  ASSUME NEW m, TreeNodes(m), NEW r, NEW h, NEW p, NEW d, NEW x, Child1(m, r, h, p, d, x),
         NEW m1, NEW m2, NEW m3, NEW n, NEW y, NEW a1, NEW s, NEW b,
         SplitSteps(m, m1, m2, m3, n, p, d, x, y, a1, s, b)
  PROVE  Spliced(m, n, p, d, x, y, a1, s, b)
<1>1. PICK c0 : Grown(m, m1, y, c0) /\ c0.leaf = m[x].leaf /\ c0.values = <<>> /\ c0.children = <<>>
  BY DEF SplitSteps
<1>2. HalvedOK(m1, m2, x, y, a1, b) /\ PlaceMade(m2, m3, p, d - 1, s) /\ Hooked(m3, n, p, y, d - 1)
  BY DEF SplitSteps
<1>3. /\ x \in DOMAIN m /\ p \in DOMAIN m /\ x # p /\ ~m[p].leaf
      /\ d \in 1 .. Len(m[p].children) /\ m[p].children[d] = x
  BY DEF Child1
<1>4. /\ y \notin DOMAIN m /\ DOMAIN m1 = DOMAIN m \cup {y} /\ DOMAIN m2 = DOMAIN m1
      /\ DOMAIN m3 = DOMAIN m1 /\ DOMAIN n = DOMAIN m1 /\ TreeNodes(n) /\ y # x /\ y # p
  BY <1>1, <1>2, <1>3 DEF Grown, HalvedOK, PlaceMade, Hooked
<1>5. \A z \in DOMAIN m : m1[z] = m[z]
  BY <1>1 DEF Grown
<1>6. /\ m1[y].leaf = m[x].leaf /\ m1[y].values = <<>> /\ m1[y].children = <<>>
  BY <1>1 DEF Grown
<1>7. PICK cp, cq, f, g, q :
        /\ cp = m[p].children /\ cq = n[p].children /\ f = m[p].values /\ g = n[p].values /\ q = Len(cp)
  OBVIOUS
<1>8. /\ cp \in Seq(Nat) /\ q \in Nat /\ q = Len(f) + 1 /\ f \in Seq(Int) /\ Len(f) \in Nat
      /\ \A j \in 1 .. q : cp[j] \in DOMAIN m /\ m[cp[j]].parent = p /\ m[cp[j]].position = j - 1
      /\ d \in Nat /\ d >= 1 /\ d <= q /\ d - 1 + 1 = d /\ d - 1 + 2 = d + 1
  <2>1. ChildrenOK(m, r, h, p)
    BY <1>3 DEF Child1
  <2>2. /\ cp \in Seq(Nat) /\ q \in Nat /\ q = Len(f) + 1
        /\ \A j \in 1 .. q : cp[j] \in DOMAIN m /\ m[cp[j]].parent = p /\ m[cp[j]].position = j - 1
    BY <1>3, <1>7, <2>1 DEF ChildrenOK
  <2>3. m[p] \in Node
    BY <1>3 DEF TreeNodes
  <2>4. f \in Seq(Int) /\ Len(f) \in Nat
    BY <1>7, <2>3, LenProperties DEF Node
  <2>5. d \in 1 .. q
    BY <1>3, <1>7
  <2> QED BY <2>2, <2>4, <2>5
\* What is in p, and in the nodes.
<1>9. m2[p].values = f /\ m2[p].children = cp /\ ~m2[p].leaf /\ m2[p].max_count = m[p].max_count
  <2>1. p \in DOMAIN m1 \ {x, y}
    BY <1>3, <1>4
  <2>2. m2[p] = m1[p] /\ m1[p] = m[p]
    BY <1>2, <1>3, <1>5, <2>1 DEF HalvedOK
  <2> QED BY <1>3, <1>7, <2>2
<1>10. /\ IsWithout(f, m3[p].values, d) /\ m3[p].values[d] = s
       /\ IsWithout(cp, m3[p].children, d + 1) /\ ~m3[p].leaf
       /\ m3[p].max_count = m[p].max_count
  BY <1>2, <1>8, <1>9 DEF PlaceMade
<1>11. g = m3[p].values /\ ~n[p].leaf /\ n[p].max_count = m[p].max_count
  BY <1>2, <1>7, <1>10 DEF Hooked
<1>12. /\ Len(cq) = Len(m3[p].children) /\ cq[d + 1] = y
       /\ \A j \in 1 .. Len(m3[p].children) : j # d + 1 => cq[j] = m3[p].children[j]
  BY <1>2, <1>7, <1>8 DEF Hooked
<1>13. PICK e : e = d + 1 /\ e \in Nat /\ e - 1 = d
  BY <1>8
<1>14. /\ e \in 1 .. Len(cq) /\ Len(cp) = Len(cq) - 1
       /\ \A j \in 1 .. e - 1 : cp[j] = cq[j]
       /\ \A j \in e .. Len(cq) - 1 : cp[j] = cq[j + 1]
  <2>1. PICK c : c = m3[p].children
    OBVIOUS
  <2>2. IsWithout(cp, c, e)
    BY <1>10, <1>13, <2>1
  <2>3. /\ e \in 1 .. Len(c) /\ Len(cp) = Len(c) - 1
        /\ \A j \in 1 .. e - 1 : cp[j] = c[j]
        /\ \A j \in e .. Len(c) - 1 : cp[j] = c[j + 1]
    BY <2>2 DEF IsWithout
  <2>4. Len(cq) = Len(c) /\ \A j \in 1 .. Len(c) : j # e => cq[j] = c[j]
    BY <1>12, <1>13, <2>1
  <2>5. Len(c) \in Nat
    <3>1. m3[p] \in Node
      BY <1>2, <1>3, <1>4 DEF PlaceMade, TreeNodes
    <3> QED BY <2>1, <3>1, LenProperties DEF Node
  <2>6. ASSUME NEW j \in 1 .. e - 1 PROVE cp[j] = cq[j]
    <3>1. j \in 1 .. Len(c) /\ j # e
      BY <1>13, <2>3, <2>5
    <3> QED BY <2>3, <2>4, <3>1
  <2>7. ASSUME NEW j \in e .. Len(cq) - 1 PROVE cp[j] = cq[j + 1]
    <3>1. j + 1 \in 1 .. Len(c) /\ j + 1 # e /\ j \in e .. Len(c) - 1
      BY <1>13, <2>4, <2>5
    <3> QED BY <2>3, <2>4, <3>1
  <2> QED BY <2>3, <2>4, <2>6, <2>7
<1>26. IsWithout(cp, cq, d + 1)
  <2>1. IsWithout(cp, cq, e)
    BY <1>14 DEF IsWithout
  <2> QED BY <1>13, <2>1
<1>15. cq[d] = x
  <2>1. d \in 1 .. e - 1
    BY <1>8, <1>13
  <2> QED BY <1>3, <1>7, <1>14, <2>1
<1>16. ASSUME NEW z \in DOMAIN m1 \ {p} PROVE SameBody(m2[z], n[z])
  BY <1>2, <1>4, <1>16 DEF PlaceMade, Hooked, SameBody
<1>17. \A z \in DOMAIN m \ {x, p} : SameBody(n[z], m[z])
  <2> SUFFICES ASSUME NEW z \in DOMAIN m \ {x, p} PROVE SameBody(n[z], m[z])
    OBVIOUS
  <2>1. z \in DOMAIN m1 \ {x, y} /\ z # p
    BY <1>4
  <2>2. m2[z] = m1[z] /\ m1[z] = m[z]
    BY <1>2, <1>5, <2>1 DEF HalvedOK
  <2>3. SameBody(m2[z], n[z])
    BY <1>16, <2>1
  <2> QED BY <2>2, <2>3 DEF SameBody
<1>18. /\ n[x].leaf = m[x].leaf /\ n[x].values = a1 /\ n[x].children = m[x].children
       /\ n[x].max_count = m[x].max_count
  <2>1. SameBody(m2[x], n[x])
    BY <1>3, <1>4, <1>16
  <2>2. /\ m2[x].leaf = m1[x].leaf /\ m2[x].values = a1 /\ m2[x].children = m1[x].children
        /\ m2[x].max_count = m1[x].max_count
    BY <1>2, <1>3, <1>4 DEF HalvedOK
  <2> QED BY <1>3, <1>5, <2>1, <2>2 DEF SameBody
<1>19. n[y].leaf = m[x].leaf /\ n[y].values = b /\ n[y].children = <<>>
  <2>1. SameBody(m2[y], n[y])
    BY <1>3, <1>4, <1>16
  <2>2. m2[y].leaf = m1[y].leaf /\ m2[y].values = b /\ m2[y].children = m1[y].children
    BY <1>2, <1>3, <1>4 DEF HalvedOK
  <2> QED BY <1>6, <2>1, <2>2 DEF SameBody
\* Who knows its place.
<1>20. ASSUME NEW z \in DOMAIN m PROVE SameLink(m[z], m2[z])
  <2>1. SameLink(m1[z], m2[z])
    BY <1>2, <1>4 DEF HalvedOK
  <2> QED BY <1>5, <2>1
<1>21. ASSUME NEW z \in DOMAIN m, \A j \in d + 1 .. q : cp[j] # z PROVE SameLink(m[z], n[z])
  <2>1. \A j \in d - 1 + 2 .. Len(m2[p].children) : m2[p].children[j] # z
    BY <1>7, <1>8, <1>9, <1>21
  <2>2. SameLink(m2[z], m3[z])
    BY <1>2, <1>4, <2>1 DEF PlaceMade
  <2>3. SameLink(m3[z], n[z])
    BY <1>2, <1>4, Zenon DEF Hooked
  <2> QED BY <1>20, <2>2, <2>3 DEF SameLink
<1>22. ASSUME NEW j \in d + 1 .. q PROVE n[cp[j]].parent = p /\ n[cp[j]].position = j
  <2>1. j \in 1 .. q /\ j \in d - 1 + 2 .. Len(m2[p].children)
    <3>1. j \in 1 .. q
      BY <1>8
    <3>2. Len(m2[p].children) = q
      BY <1>7, <1>9
    <3> QED BY <1>8, <3>1, <3>2
  <2>2. m3[cp[j]].parent = p /\ m3[cp[j]].position = j
    BY <1>2, <1>9, <2>1 DEF PlaceMade
  <2>3. cp[j] \in DOMAIN m3 \ {y}
    BY <1>4, <1>8, <2>1
  <2>4. SameLink(m3[cp[j]], n[cp[j]])
    BY <1>2, <2>3 DEF Hooked
  <2> QED BY <2>2, <2>4, Zenon DEF SameLink
<1>23. LinksOf(n, p)
  <2> SUFFICES ASSUME NEW i \in 1 .. Len(cq) PROVE n[cq[i]].parent = p /\ n[cq[i]].position = i - 1
    BY <1>7 DEF LinksOf
  <2>1. i \in Nat /\ i >= 1 /\ i <= q + 1
    <3>1. Len(cq) = q + 1
      <4>1. PICK l : l = Len(cq)
        OBVIOUS
      <4>2. q = l - 1
        BY <1>7, <1>14, <4>1
      <4>3. l \in Nat
        <5>1. n[p] \in Node
          BY <1>3, <1>4 DEF TreeNodes
        <5> QED BY <1>7, <4>1, <5>1, LenProperties DEF Node
      <4> QED BY <4>1, <4>2, <4>3
    <3> QED BY <1>8, <3>1
  <2>2. CASE i <= d
    <3>1. i \in 1 .. e - 1 /\ i \in 1 .. q
      BY <1>8, <1>13, <2>1, <2>2
    <3>2. cq[i] = cp[i] /\ cp[i] \in DOMAIN m /\ m[cp[i]].parent = p /\ m[cp[i]].position = i - 1
      BY <1>8, <1>14, <3>1
    <3>3. \A j \in d + 1 .. q : cp[j] # cp[i]
      <4> SUFFICES ASSUME NEW j \in d + 1 .. q, cp[j] = cp[i] PROVE FALSE
        OBVIOUS
      <4>1. j \in 1 .. q /\ j # i
        BY <1>8, <2>2
      <4>2. m[cp[j]].position = j - 1
        BY <1>8, <4>1
      <4>3. i - 1 = j - 1
        BY <3>2, <4>2
      <4> QED BY <2>1, <4>1, <4>3
    <3>4. SameLink(m[cp[i]], n[cp[i]])
      BY <1>21, <3>2, <3>3
    <3> QED BY <3>2, <3>4 DEF SameLink
  <2>3. CASE i = d + 1
    <3>1. n[y].parent = p /\ n[y].position = d - 1 + 1
      BY <1>2 DEF Hooked
    <3> QED BY <1>8, <1>12, <2>3, <3>1
  <2>4. CASE i > d + 1
    <3>1. PICK j : j = i - 1
      OBVIOUS
    <3>2. j \in d + 1 .. q /\ j + 1 = i
      BY <1>8, <2>1, <2>4, <3>1
    <3>3. j \in e .. Len(cq) - 1
      BY <1>7, <1>13, <1>14, <3>2
    <3>4. cq[i] = cp[j]
      BY <1>14, <3>2, <3>3
    <3> QED BY <1>22, <3>1, <3>2, <3>4
  <2> QED BY <1>8, <2>1, <2>2, <2>3, <2>4
<1>24. \A z \in DOMAIN m : ~Occurs(cp, z) => SameLink(m[z], n[z])
  <2> SUFFICES ASSUME NEW z \in DOMAIN m, ~Occurs(cp, z) PROVE SameLink(m[z], n[z])
    OBVIOUS
  <2>1. \A j \in d + 1 .. q : j \in 1 .. Len(cp)
    BY <1>7, <1>8
  <2> QED BY <1>21, <2>1 DEF Occurs
<1>25. \A z \in DOMAIN m : n[z].max_count = m[z].max_count
  BY <1>11, <1>17, <1>18, Zenon DEF SameBody
<1> QED BY <1>3, <1>4, <1>7, <1>10, <1>11, <1>12, <1>26, <1>15, <1>17, <1>18, <1>19, <1>23, <1>24,
           <1>25 DEF Spliced

SplicedAt(m, r, h, n, p, d, x, y, a1, s, b) ==
  /\ TreeNodes(m) /\ Child1(m, r, h, p, d, x) /\ Spliced(m, n, p, d, x, y, a1, s, b)
  /\ IsJoin(m[x].values, a1, s, b)

\* A child of a node other than p knows its place in n as in m.
LEMMA SplicedLinks ==
  ASSUME NEW m, NEW r, NEW h, NEW n, NEW p, NEW d, NEW x, NEW y, NEW a1, NEW s, NEW b,
         SplicedAt(m, r, h, n, p, d, x, y, a1, s, b),
         NEW z \in DOMAIN m, z # p, NEW k \in 1 .. Len(m[z].children)
  PROVE  /\ n[m[z].children[k]].parent = z /\ n[m[z].children[k]].position = k - 1
         /\ m[z].children[k] \in DOMAIN m /\ m[m[z].children[k]].parent = z
<1>1. PICK c : c = m[z].children[k]
  OBVIOUS
<1>2. ChildrenOK(m, r, h, z) /\ ChildrenOK(m, r, h, p)
  BY DEF SplicedAt, Child1
<1>3. c \in DOMAIN m /\ m[c].parent = z /\ m[c].position = k - 1
  BY <1>1, <1>2 DEF ChildrenOK
<1>4. ~Occurs(m[p].children, c)
  BY <1>2, <1>3 DEF ChildrenOK, Occurs
<1>5. SameLink(m[c], n[c])
  BY <1>3, <1>4 DEF SplicedAt, Spliced
<1> QED BY <1>1, <1>3, <1>5, Zenon DEF SameLink

LEMMA SplitLeaf ==
  ASSUME NEW m, NEW r, NEW h, NEW n, NEW p, NEW d, NEW x, NEW y, NEW a1, NEW s, NEW b,
         SplicedAt(m, r, h, n, p, d, x, y, a1, s, b), m[x].leaf
  PROVE  Joined(n, m, p, d, x, y) /\ Links(n)
<1>1. /\ Spliced(m, n, p, d, x, y, a1, s, b) /\ Child1(m, r, h, p, d, x)
      /\ IsJoin(m[x].values, a1, s, b)
  BY DEF SplicedAt
<1>2. /\ x \in DOMAIN m /\ p \in DOMAIN m /\ x # p /\ ~m[p].leaf /\ ChildrenOK(m, r, h, x)
      /\ m[p].children[d] = x
  BY <1>1 DEF Child1
<1>3. /\ y \notin DOMAIN m /\ DOMAIN n = DOMAIN m \cup {y} /\ ~n[p].leaf
      /\ n[x].children = m[x].children /\ n[y].children = <<>>
      /\ n[x].values = a1 /\ n[y].values = b /\ n[p].values[d] = s
  BY <1>1 DEF Spliced
<1>4. m[x].children \in Seq(Nat) /\ Len(m[x].children) = 0 /\ Len(n[y].children) = 0
  BY <1>2, <1>3 DEF ChildrenOK
<1>5. IsConcat(m[x].children, n[x].children, n[y].children)
  BY <1>3, <1>4 DEF IsConcat
<1>6. IsJoin(m[x].values, n[x].values, n[p].values[d], n[y].values)
  BY <1>1, <1>3
<1>7. Joined(n, m, p, d, x, y)
  <2>1. /\ \A z \in DOMAIN m \ {x, p} : SameBody(n[z], m[z])
        /\ n[x].leaf = m[x].leaf /\ n[y].leaf = m[x].leaf
        /\ n[p].children[d] = x /\ n[p].children[d + 1] = y
        /\ IsWithout(m[p].values, n[p].values, d)
        /\ IsWithout(m[p].children, n[p].children, d + 1)
    BY <1>1 DEF Spliced
  <2> QED BY <1>2, <1>3, <1>5, <1>6, <2>1 DEF Joined
<1>8. Links(n)
  <2> SUFFICES ASSUME NEW z \in DOMAIN n, NEW k \in 1 .. Len(n[z].children)
               PROVE  n[n[z].children[k]].parent = z /\ n[n[z].children[k]].position = k - 1
    BY DEF Links
  <2>1. CASE z = p
    BY <1>1, <2>1 DEF Spliced, LinksOf
  <2>2. CASE z = y
    BY <1>4, <2>2
  <2>3. CASE z \in DOMAIN m /\ z # p
    <3>1. n[z].children = m[z].children
      BY <1>1, <1>3, <2>3 DEF Spliced, SameBody
    <3> QED BY <2>3, <3>1, SplicedLinks
  <2> QED BY <1>3, <2>1, <2>2, <2>3
<1> QED BY <1>7, <1>8

\* The children of x are shared between x and y too.
SharedOut(m, n, n2, n3, x, y, ca, cb) ==
  /\ Recut(n, n2, x, ca) /\ Placed(n2, n3, y, 0, cb)
  /\ ca \in Seq(Nat) /\ cb \in Seq(Nat) /\ IsConcat(m[x].children, ca, cb)

LEMMA SplitInner ==
  ASSUME NEW m, NEW r, NEW h, NEW n, NEW p, NEW d, NEW x, NEW y, NEW a1, NEW s, NEW b,
         SplicedAt(m, r, h, n, p, d, x, y, a1, s, b),
         NEW n2, NEW n3, NEW ca, NEW cb, SharedOut(m, n, n2, n3, x, y, ca, cb)
  PROVE  /\ Joined(n3, m, p, d, x, y) /\ Links(n3) /\ TreeNodes(n3)
         /\ n3[x].values = a1 /\ n3[y].values = b
         /\ Len(n3[x].children) = Len(ca)
         /\ \A z \in DOMAIN m : n3[z].max_count = m[z].max_count
         /\ \A z \in DOMAIN m : ~Occurs(m[p].children, z) /\ ~Occurs(m[x].children, z)
                                  => SameLink(m[z], n3[z])
<1>1. /\ Spliced(m, n, p, d, x, y, a1, s, b) /\ Child1(m, r, h, p, d, x)
      /\ IsJoin(m[x].values, a1, s, b)
  BY DEF SplicedAt
<1>2. /\ x \in DOMAIN m /\ p \in DOMAIN m /\ x # p /\ ~m[p].leaf /\ ChildrenOK(m, r, h, x)
      /\ m[p].children[d] = x
  BY <1>1 DEF Child1
<1>3. /\ y \notin DOMAIN m /\ DOMAIN n = DOMAIN m \cup {y} /\ ~n[p].leaf /\ TreeNodes(n)
      /\ n[x].children = m[x].children /\ n[y].children = <<>>
      /\ n[x].values = a1 /\ n[y].values = b /\ n[p].values[d] = s
      /\ n[x].leaf = m[x].leaf /\ n[y].leaf = m[x].leaf
      /\ x # y /\ p # y
  BY <1>1, <1>2 DEF Spliced
<1>4. PICK cx : cx = m[x].children
  OBVIOUS
<1>5. /\ Recut(n, n2, x, ca) /\ Placed(n2, n3, y, 0, cb)
      /\ ca \in Seq(Nat) /\ cb \in Seq(Nat) /\ IsConcat(cx, ca, cb)
  BY <1>4 DEF SharedOut
<1>6. /\ cx \in Seq(Nat) /\ Distinct(cx)
      /\ \A i \in 1 .. Len(cx) : cx[i] \in DOMAIN m /\ m[cx[i]].parent = x
  BY <1>2, <1>4 DEF ChildrenOK
<1>7. /\ Distinct(ca) /\ Distinct(cb) /\ \A i \in 1 .. Len(ca) : ~Occurs(cb, ca[i])
      /\ \A z : Occurs(cx, z) <=> Occurs(ca, z) \/ Occurs(cb, z)
  BY <1>5, <1>6, PartsApart
<1>8. /\ DOMAIN n2 = DOMAIN n /\ DOMAIN n3 = DOMAIN n /\ TreeNodes(n3)
      /\ n2[x] = [n[x] EXCEPT !.children = ca] /\ \A z \in DOMAIN n \ {x} : n2[z] = n[z]
  BY <1>5 DEF Recut, Placed
<1>9. n[x] \in Node
  BY <1>2, <1>3 DEF TreeNodes
<1>10. /\ n2[x].children = ca /\ n2[x].values = a1 /\ n2[x].leaf = m[x].leaf
       /\ n2[x].max_count = n[x].max_count /\ SameLink(n[x], n2[x])
  BY <1>3, <1>8, <1>9 DEF Node, SameLink
<1>11. /\ n3[x].children = ca /\ n3[x].values = a1 /\ n3[x].leaf = m[x].leaf
       /\ n3[x].max_count = n[x].max_count
  <2>1. SameBody(n2[x], n3[x])
    BY <1>2, <1>3, <1>5, <1>8 DEF Placed
  <2> QED BY <1>10, <2>1 DEF SameBody
<1>12. /\ n3[y].values = b /\ n3[y].leaf = m[x].leaf
       /\ Len(n3[y].children) = Len(cb) /\ \A i \in 1 .. Len(cb) : n3[y].children[i] = cb[i]
  <2>1. n2[y] = n[y]
    BY <1>3, <1>8
  <2>2. n2[y].leaf = n3[y].leaf /\ n2[y].values = n3[y].values
    BY <1>5 DEF Placed
  <2>3. /\ Len(n3[y].children) = 0 + Len(cb)
        /\ \A i \in 1 .. Len(cb) : n3[y].children[0 + i] = cb[i]
    BY <1>5 DEF Placed
  <2>4. Len(cb) \in Nat
    BY <1>5, LenProperties
  <2>5. Len(n3[y].children) = Len(cb) /\ \A i \in 1 .. Len(cb) : n3[y].children[i] = cb[i]
    BY <2>3, <2>4
  <2> QED BY <1>3, <2>1, <2>2, <2>5
<1>13. \A z \in DOMAIN m \ {x} : SameBody(n[z], n3[z])
  <2> SUFFICES ASSUME NEW z \in DOMAIN m \ {x} PROVE SameBody(n[z], n3[z])
    OBVIOUS
  <2>1. z \in DOMAIN n2 /\ z # y
    BY <1>3, <1>8
  <2>2. SameBody(n2[z], n3[z])
    BY <1>5, <2>1 DEF Placed
  <2>3. n2[z] = n[z]
    BY <1>3, <1>8
  <2> QED BY <2>2, <2>3
<1>14. n3[p].leaf = n[p].leaf /\ n3[p].values = n[p].values /\ n3[p].children = n[p].children
  BY <1>2, <1>13 DEF SameBody
<1>15. ASSUME NEW z \in DOMAIN n, ~Occurs(cb, z) PROVE SameLink(n[z], n3[z])
  <2>1. SameLink(n2[z], n3[z])
    BY <1>5, <1>8, <1>15 DEF Placed
  <2>2. SameLink(n[z], n2[z])
    BY <1>8, <1>10, <1>15 DEF SameLink
  <2> QED BY <2>1, <2>2 DEF SameLink
<1>16. IsConcat(m[x].children, n3[x].children, n3[y].children)
  BY <1>4, <1>5, <1>11, <1>12 DEF IsConcat
<1>17. IsJoin(m[x].values, n3[x].values, n3[p].values[d], n3[y].values)
  BY <1>1, <1>3, <1>11, <1>12, <1>14
<1>18. Joined(n3, m, p, d, x, y)
  <2>1. /\ n3[p].children[d] = x /\ n3[p].children[d + 1] = y
        /\ IsWithout(m[p].values, n3[p].values, d)
        /\ IsWithout(m[p].children, n3[p].children, d + 1)
    BY <1>1, <1>14 DEF Spliced
  <2>2. \A z \in DOMAIN m \ {x, p} : SameBody(n3[z], m[z])
    <3>1. \A z \in DOMAIN m \ {x, p} : SameBody(n[z], m[z])
      BY <1>1 DEF Spliced
    <3> QED BY <1>13, <3>1 DEF SameBody
  <2> QED BY <1>2, <1>3, <1>8, <1>11, <1>12, <1>14, <1>16, <1>17, <2>1, <2>2 DEF Joined
<1>19. ASSUME NEW z \in DOMAIN m, z # p, NEW k \in 1 .. Len(m[z].children), NEW c,
              c = m[z].children[k], ~Occurs(cb, c)
       PROVE  n3[c].parent = z /\ n3[c].position = k - 1
  <2>1. n[c].parent = z /\ n[c].position = k - 1 /\ c \in DOMAIN m
    BY <1>19, SplicedLinks
  <2>2. SameLink(n[c], n3[c])
    BY <1>3, <1>15, <1>19, <2>1
  <2> QED BY <2>1, <2>2 DEF SameLink
<1>20. Links(n3)
  <2> SUFFICES ASSUME NEW z \in DOMAIN n3, NEW k \in 1 .. Len(n3[z].children)
               PROVE  n3[n3[z].children[k]].parent = z /\ n3[n3[z].children[k]].position = k - 1
    BY DEF Links
  <2>1. CASE z = y
    <3>1. k \in 1 .. Len(cb) /\ n3[y].children[k] = cb[k]
      BY <1>12, <2>1
    <3>2. cb[k] \in DOMAIN n2
      <4>1. Occurs(cb, cb[k])
        BY <3>1 DEF Occurs
      <4>2. Occurs(cx, cb[k])
        BY <1>7, <4>1
      <4>3. cb[k] \in DOMAIN m
        BY <1>6, <4>2 DEF Occurs
      <4> QED BY <1>3, <1>8, <4>3
    <3>3. n3[cb[k]].parent = y /\ n3[cb[k]].position = 0 + k - 1
      BY <1>5, <3>1, <3>2 DEF Placed
    <3> QED BY <2>1, <3>1, <3>3
  <2>2. CASE z = x
    <3>1. k \in 1 .. Len(ca) /\ n3[x].children[k] = ca[k]
      BY <1>11, <2>2
    <3>2. ca[k] = cx[k] /\ k \in 1 .. Len(cx)
      <4>1. Len(ca) \in Nat /\ Len(cb) \in Nat
        BY <1>5, LenProperties
      <4>2. Len(cx) = Len(ca) + Len(cb) /\ \A j \in 1 .. Len(ca) : cx[j] = ca[j]
        BY <1>5 DEF IsConcat
      <4> QED BY <3>1, <4>1, <4>2
    <3>3. ~Occurs(cb, ca[k])
      BY <1>7, <3>1, Zenon
    <3> QED BY <1>2, <1>4, <1>19, <2>2, <3>1, <3>2, <3>3
  <2>3. CASE z = p
    <3>1. n3[z].children = n[p].children
      BY <1>14, <2>3
    <3>2. PICK c : c = n[p].children[k]
      OBVIOUS
    <3>3. n[c].parent = p /\ n[c].position = k - 1
      BY <1>1, <3>1, <3>2 DEF Spliced, LinksOf
    <3>4. ASSUME Occurs(cb, c) PROVE FALSE
      <4>1. Occurs(cx, c)
        BY <1>7, <3>4
      <4>2. PICK i \in 1 .. Len(cx) : cx[i] = c
        BY <4>1 DEF Occurs
      <4>3. n[c].parent = x
        BY <1>2, <1>4, <4>2, SplicedLinks
      <4> QED BY <1>2, <3>3, <4>3
    <3>5. c \in DOMAIN n
      <4>1. n[p].children[k] \in DOMAIN n
        <5>1. IsWithout(m[p].children, n[p].children, d + 1) /\ n[p].children[d + 1] = y
          BY <1>1 DEF Spliced
        <5>2. PICK cp, cq, e, q : cp = m[p].children /\ cq = n[p].children /\ e = d + 1 /\ q = Len(cp)
          OBVIOUS
        <5>3. /\ e \in 1 .. Len(cq) /\ q = Len(cq) - 1
              /\ \A j \in 1 .. e - 1 : cp[j] = cq[j]
              /\ \A j \in e .. Len(cq) - 1 : cp[j] = cq[j + 1]
          BY <5>1, <5>2 DEF IsWithout
        <5>4. \A j \in 1 .. q : cp[j] \in DOMAIN m
          BY <1>1, <1>2, <5>2 DEF Child1, ChildrenOK
        <5>5. Len(cq) \in Nat
          <6>1. n[p] \in Node
            BY <1>2, <1>3 DEF TreeNodes
          <6> QED BY <5>2, <6>1, LenProperties DEF Node
        <5>6. k \in 1 .. Len(cq)
          BY <3>1, <5>2
        <5>7. CASE k < e
          <6>1. k \in 1 .. e - 1 /\ k \in 1 .. q
            BY <5>3, <5>5, <5>6, <5>7
          <6> QED BY <1>3, <5>2, <5>3, <5>4, <6>1
        <5>8. CASE k = e
          BY <1>3, <5>1, <5>2, <5>8
        <5>9. CASE k > e
          <6>1. PICK j : j = k - 1
            OBVIOUS
          <6>2. j \in e .. Len(cq) - 1 /\ j + 1 = k /\ j \in 1 .. q
            BY <5>3, <5>5, <5>6, <5>9, <6>1
          <6> QED BY <1>3, <5>2, <5>3, <5>4, <6>2
        <5> QED BY <5>3, <5>5, <5>6, <5>7, <5>8, <5>9
      <4> QED BY <3>2, <4>1
    <3>6. SameLink(n[c], n3[c])
      BY <1>15, <3>4, <3>5
    <3> QED BY <2>3, <3>1, <3>2, <3>3, <3>6, Zenon DEF SameLink
  <2>4. CASE z \in DOMAIN m \ {x, p}
    <3>1. n3[z].children = m[z].children
      <4>1. SameBody(n[z], m[z])
        BY <1>1, <2>4 DEF Spliced
      <4> QED BY <1>13, <2>4, <4>1 DEF SameBody
    <3>2. PICK c : c = m[z].children[k]
      OBVIOUS
    <3>3. m[c].parent = z
      BY <2>4, <3>1, <3>2, SplicedLinks
    <3>4. ~Occurs(cb, c)
      <4> SUFFICES ASSUME Occurs(cb, c) PROVE FALSE
        OBVIOUS
      <4>1. Occurs(cx, c)
        BY <1>7
      <4> QED BY <1>6, <2>4, <3>3, <4>1 DEF Occurs
    <3> QED BY <1>19, <2>4, <3>1, <3>2, <3>4
  <2> QED BY <1>3, <1>8, <2>1, <2>2, <2>3, <2>4
<1>21. \A z \in DOMAIN m : n3[z].max_count = m[z].max_count
  BY <1>1, <1>11, <1>13 DEF Spliced, SameBody
<1>22. ASSUME NEW z \in DOMAIN m, ~Occurs(m[p].children, z), ~Occurs(cx, z)
       PROVE  SameLink(m[z], n3[z])
  <2>1. SameLink(m[z], n[z])
    BY <1>1, <1>22 DEF Spliced
  <2>2. SameLink(n[z], n3[z])
    BY <1>3, <1>7, <1>15, <1>22
  <2> QED BY <2>1, <2>2 DEF SameLink
<1> QED BY <1>4, <1>8, <1>11, <1>12, <1>18, <1>20, <1>21, <1>22

\* u is t in which the node x is split into x, with k values, and y.
SplitDone(t, u, p, d, x, y, k, max) ==
  /\ Treelike(u) /\ u.root = t.root /\ u.rightmost = t.rightmost /\ u.size = t.size
  /\ u.ok = t.ok
  /\ TreeNodes(u.mem) /\ Joined(u.mem, t.mem, p, d, x, y) /\ Links(u.mem)
  /\ ~u.mem[x].leaf => Len(u.mem[x].children) = Len(u.mem[x].values) + 1
  /\ Len(u.mem[x].values) = k /\ Len(u.mem[y].values) = Len(t.mem[x].values) - k - 1
  /\ \A z \in DOMAIN t.mem : u.mem[z].max_count = t.mem[z].max_count
  /\ u.mem[y].max_count = max
  /\ SameLink(t.mem[t.root], u.mem[t.root])

LEMMA MovingIs ==
  ASSUME NEW t, NEW x, Len(t.mem[x].values) \in Nat, Len(t.mem[x].values) >= 1, NEW i
  PROVE  Moving(t, x, i) \in 0 .. Len(t.mem[x].values) - 1
<1>1. PICK q : q = Len(t.mem[x].values)
  OBVIOUS
<1>2. q - 1 \in 0 .. q - 1 /\ 0 \in 0 .. q - 1 /\ q \div 2 \in 0 .. q - 1
  <2>1. q \in Nat /\ q >= 1
    BY <1>1
  <2>2. q \div 2 \in Int /\ q \div 2 >= 0 /\ q \div 2 <= q - 1
    BY <2>1
  <2> QED BY <2>1, <2>2
<1>3. /\ i = 0 => Moving(t, x, i) = q - 1
      /\ i # 0 /\ i = t.mem[x].max_count => Moving(t, x, i) = 0
      /\ i # 0 /\ i # t.mem[x].max_count => Moving(t, x, i) = q \div 2
  BY <1>1 DEF Moving
<1> QED BY <1>1, <1>2, <1>3

Child1At(m, r, h, p, d, x) ==
  Child1(m, r, h, p, d, x) /\ x # r /\ m[x].parent = p /\ m[x].position = d - 1

LEMMA Child1Is ==
  ASSUME NEW m, NEW r, NEW h, NEW lo, NEW hi, Sound(m, r, h, lo, hi),
         NEW p \in DOMAIN m, NEW d \in 1 .. Len(m[p].children), NEW x, m[p].children[d] = x
  PROVE  Child1At(m, r, h, p, d, x)
<1>1. \A z \in DOMAIN m : ChildrenOK(m, r, h, z)
  BY ChildrenAre
<1>2. /\ x \in DOMAIN m \ {r} /\ m[x].parent = p /\ m[x].position = d - 1 /\ h[p] = h[x] + 1
      /\ Len(m[p].children) = IF m[p].leaf THEN 0 ELSE Len(m[p].values) + 1
  BY <1>1 DEF ChildrenOK
<1>3. h[x] \in Nat
  BY <1>2 DEF Sound, Typed
<1>4. x # p /\ ~m[p].leaf
  BY <1>2, <1>3
<1> QED BY <1>1, <1>2, <1>4 DEF Child1, Child1At

\* Only a child has its place changed, so not the root.
LEMMA RootApart ==
  ASSUME NEW m, NEW r, NEW h, NEW p, NEW d, NEW x, Child1(m, r, h, p, d, x), NEW z \in DOMAIN m
  PROVE  ~Occurs(m[z].children, r)
<1>1. ChildrenOK(m, r, h, z)
  BY DEF Child1
<1> QED BY <1>1 DEF ChildrenOK, Occurs

(***************************************************************************)
(* What the four operations that move values between nodes keep: the tree  *)
(* is a search tree, over the keys it was over, no node holds more than    *)
(* there is room for in it, and no assert of the code fails.               *)
(***************************************************************************)
Fits(m) == \A z \in DOMAIN m : Len(m[z].values) <= m[z].max_count

SearchTree(t) == Treelike(t) /\ Fits(t.mem) /\ \E h, lo, hi : Sound(t.mem, t.root, h, lo, hi)

\* No node of both has more or less room in n.
SameRoom(m, n) == \A z \in DOMAIN m \cap DOMAIN n : n[z].max_count = m[z].max_count

KeepsTree(t, u) ==
  /\ SearchTree(u) /\ u.root = t.root /\ u.size = t.size /\ u.ok = t.ok
  /\ TreeKeys(u.mem) = TreeKeys(t.mem) /\ SameRoom(t.mem, u.mem)

LEMMA JoinedFits ==
  ASSUME NEW m, TreeNodes(m), Fits(m), NEW n, TreeNodes(n), NEW p, NEW d, NEW x, NEW y,
         Joined(m, n, p, d, x, y), 1 + Len(m[x].values) + Len(m[y].values) <= m[x].max_count,
         NEW r, SameFrame(m, n, r)
  PROVE  Fits(n)
<1>1. /\ y \notin DOMAIN n /\ DOMAIN m = DOMAIN n \cup {y} /\ x \in DOMAIN n /\ p \in DOMAIN n
      /\ \A z \in DOMAIN n \ {x, p} : SameBody(m[z], n[z])
      /\ IsJoin(n[x].values, m[x].values, m[p].values[d], m[y].values)
      /\ IsWithout(n[p].values, m[p].values, d)
  BY DEF Joined
<1>2. \A z \in DOMAIN n : n[z].max_count = m[z].max_count
  BY <1>1 DEF SameFrame
<1>3. \A z \in DOMAIN n : Len(m[z].values) \in Nat /\ Len(n[z].values) \in Nat /\ m[z].max_count \in Nat
  <2> SUFFICES ASSUME NEW z \in DOMAIN n
               PROVE  Len(m[z].values) \in Nat /\ Len(n[z].values) \in Nat /\ m[z].max_count \in Nat
    OBVIOUS
  <2>1. m[z] \in Node /\ n[z] \in Node
    BY <1>1 DEF TreeNodes
  <2>2. m[z].values \in Seq(Int) /\ n[z].values \in Seq(Int) /\ m[z].max_count \in Nat
    BY <2>1 DEF Node
  <2> QED BY <2>2, LenProperties
<1>4. Len(n[x].values) <= n[x].max_count
  <2>1. Len(n[x].values) = Len(m[x].values) + 1 + Len(m[y].values)
    BY <1>1 DEF IsJoin
  <2>2. Len(m[y].values) \in Nat
    <3>1. m[y] \in Node
      BY <1>1 DEF TreeNodes
    <3> QED BY <3>1, LenProperties DEF Node
  <2>3. PICK f, g, b : f = Len(m[x].values) /\ g = Len(m[y].values) /\ b = m[x].max_count
    OBVIOUS
  <2>4. f \in Nat /\ g \in Nat /\ b \in Nat /\ 1 + f + g <= b
    BY <1>1, <1>3, <2>2, <2>3
  <2>5. f + 1 + g <= b
    BY <2>4
  <2>6. Len(n[x].values) = f + 1 + g /\ n[x].max_count = b
    BY <1>1, <1>2, <2>1, <2>3
  <2> QED BY <2>5, <2>6
<1>5. Len(n[p].values) <= n[p].max_count
  <2>1. Len(n[p].values) = Len(m[p].values) - 1 /\ Len(m[p].values) <= m[p].max_count
    BY <1>1 DEF IsWithout, Fits
  <2> QED BY <1>1, <1>2, <1>3, <2>1
<1>6. ASSUME NEW z \in DOMAIN n \ {x, p} PROVE Len(n[z].values) <= n[z].max_count
  BY <1>1, <1>2 DEF SameBody, Fits
<1> QED BY <1>4, <1>5, <1>6 DEF Fits

LEMMA CountsOf ==
  ASSUME NEW t, SearchTree(t), NEW p, NEW d, NEW x, NEW y, Siblings(t.mem, p, d, x, y)
  PROVE  /\ Len(t.mem[x].values) \in Nat /\ Len(t.mem[y].values) \in Nat
         /\ t.mem[x].max_count \in Nat /\ t.mem[y].max_count \in Nat
         /\ Len(t.mem[x].values) <= t.mem[x].max_count
         /\ Len(t.mem[y].values) <= t.mem[y].max_count
<1>1. PICK h, lo, hi : Sound(t.mem, t.root, h, lo, hi)
  BY DEF SearchTree
<1>2. SiblingsOK(t.mem, t.root, h, p, d, x, y) /\ Typed(t.mem, t.root, h, lo, hi)
  BY <1>1, SiblingsAre DEF Sound
<1>3. x \in DOMAIN t.mem /\ y \in DOMAIN t.mem
  BY <1>2 DEF SiblingsOK
<1> QED BY <1>2, <1>3, NodeOf DEF SearchTree, Fits

\* In a search tree a key is at one place, and behind the smaller keys of its node.
THEOREM SearchTreeKeysOnce ==
  ASSUME NEW t, SearchTree(t), NEW x \in DOMAIN t.mem, NEW y \in DOMAIN t.mem,
         NEW i \in 1 .. Len(t.mem[x].values), NEW j \in 1 .. Len(t.mem[y].values)
  PROVE  /\ t.mem[x].values[i] = t.mem[y].values[j] => x = y /\ i = j
         /\ x = y /\ i < j => t.mem[x].values[i] < t.mem[y].values[j]
<1>1. PICK h, lo, hi : Sound(t.mem, t.root, h, lo, hi)
  BY DEF SearchTree
<1>2. t.mem[x].values[i] = t.mem[y].values[j] => x = y /\ i = j
  BY <1>1, KeyOnce
<1>3. ValuesOK(t.mem[x].values, lo[x], hi[x])
  BY <1>1, ValuesOf
<1> QED BY <1>2, <1>3 DEF ValuesOK

(***************************************************************************)
(* A node of a search tree and its place in the node above it.             *)
(***************************************************************************)
\* x is the child of p with d values before it.
PlaceIn(m, x, p, d) ==
  /\ p \in DOMAIN m /\ ~m[p].leaf /\ d \in Nat /\ d <= Len(m[p].values)
  /\ Len(m[p].values) \in Nat /\ Len(m[p].children) = Len(m[p].values) + 1
  /\ m[p].children[d + 1] = x

LEMMA PlaceOfNode ==
  ASSUME NEW t, SearchTree(t), NEW x \in DOMAIN t.mem \ {t.root}
  PROVE  PlaceIn(t.mem, x, t.mem[x].parent, t.mem[x].position)
<1>1. PICK h, lo, hi : Sound(t.mem, t.root, h, lo, hi)
  BY DEF SearchTree
<1>2. PICK m, p, d : m = t.mem /\ p = m[x].parent /\ d = m[x].position
  OBVIOUS
<1>3. p \in DOMAIN m /\ d + 1 \in 1 .. Len(m[p].children) /\ m[p].children[d + 1] = x
  BY <1>1, <1>2 DEF Sound, NoneLost
<1>4. d \in Nat /\ Len(m[p].values) \in Nat /\ m[p].leaf \in BOOLEAN
  BY <1>1, <1>2, <1>3, NodeOf DEF Sound
<1>5. Len(m[p].children) = IF m[p].leaf THEN 0 ELSE Len(m[p].values) + 1
  BY <1>1, <1>2, <1>3 DEF Sound, Shape, Furnished
<1>6. ~m[p].leaf
  BY <1>3, <1>4, <1>5
<1>7. d <= Len(m[p].values)
  <2>1. PICK q : q = Len(m[p].values)
    OBVIOUS
  <2>2. q \in Nat /\ d \in Nat /\ d + 1 \in 1 .. q + 1
    BY <1>3, <1>4, <1>5, <1>6, <2>1
  <2> QED BY <2>1, <2>2
<1> QED BY <1>2, <1>3, <1>4, <1>5, <1>6, <1>7 DEF PlaceIn

LEMMA PlaceSiblings ==
  ASSUME NEW m, NEW x, NEW p, NEW d, PlaceIn(m, x, p, d)
  PROVE  /\ d > 0 => Siblings(m, p, d, m[p].children[d - 1 + 1], x)
         /\ d < Len(m[p].values) => Siblings(m, p, d + 1, x, m[p].children[d + 1 + 1])
<1>1. d \in Nat /\ Len(m[p].values) \in Nat /\ d <= Len(m[p].values)
  BY DEF PlaceIn
<1>2. d > 0 => d \in 1 .. Len(m[p].values) /\ d - 1 + 1 = d
  BY <1>1
<1>3. d < Len(m[p].values) => d + 1 \in 1 .. Len(m[p].values)
  BY <1>1
<1> QED BY <1>2, <1>3 DEF PlaceIn, Siblings

\* The number of values that are moved between siblings.
LEMMA MinOfTwo ==
  ASSUME NEW i \in Int, NEW j \in Int
  PROVE  Min({i, j}) \in {i, j} /\ Min({i, j}) <= i /\ Min({i, j}) <= j
<1>1. \E k \in {i, j} : \A z \in {i, j} : k <= z
  <2>1. CASE i <= j
    BY <2>1
  <2>2. CASE ~(i <= j)
    BY <2>2
  <2> QED BY <2>1, <2>2
<1>2. Min({i, j}) \in {i, j} /\ \A z \in {i, j} : Min({i, j}) <= z
  BY <1>1, Zenon DEF Min
<1> QED BY <1>2

LEMMA MaxOfTwo ==
  ASSUME NEW i \in Int, NEW j \in Int
  PROVE  Max({i, j}) \in {i, j} /\ Max({i, j}) >= i /\ Max({i, j}) >= j
<1>1. \E k \in {i, j} : \A z \in {i, j} : k >= z
  <2>1. CASE i >= j
    BY <2>1
  <2>2. CASE ~(i >= j)
    BY <2>2
  <2> QED BY <2>1, <2>2
<1>2. Max({i, j}) \in {i, j} /\ \A z \in {i, j} : Max({i, j}) >= z
  BY <1>1, Zenon DEF Max
<1> QED BY <1>2

\* A node with f of at most N values that is not half full and does not fit into one
\* node with its sibling, of g values: it can take half of what that has more.
LEMMA SpareIs ==
  ASSUME NEW N \in Nat, NEW f \in Nat, NEW g \in Nat, f < N \div 2, g <= N, 1 + f + g > N,
         NEW k, k = Min({(g - f) \div 2, g - 1})
  PROVE  k \in 1 .. g /\ g >= f /\ k <= N - f
<1>1. PICK q : q = N \div 2
  OBVIOUS
<1>2. q \in Nat /\ 2 * q <= N
  BY <1>1
<1>3. g >= f + 2
  BY <1>1, <1>2
<1>4. PICK z, w : z = (g - f) \div 2 /\ w = g - 1
  OBVIOUS
<1>5. z \in Nat /\ z >= 1 /\ 2 * z <= g - f /\ z \in Int /\ w \in Int
  BY <1>3, <1>4
<1>6. k \in {z, w} /\ k <= z
  <2>1. Min({z, w}) \in {z, w} /\ Min({z, w}) <= z
    BY <1>5, MinOfTwo
  <2> QED BY <1>4, <2>1
<1>7. w = g - 1
  BY <1>4
<1> QED BY <1>3, <1>5, <1>6, <1>7

CountOK(t, y) ==
  /\ Len(t.mem[y].values) \in Nat /\ t.mem[y].max_count \in Nat
  /\ Len(t.mem[y].values) <= t.mem[y].max_count

LEMMA SearchCounts ==
  ASSUME NEW t, SearchTree(t)
  PROVE  \A y \in DOMAIN t.mem : CountOK(t, y)
<1>1. PICK h, lo, hi : Typed(t.mem, t.root, h, lo, hi)
  BY DEF SearchTree, Sound
<1> QED BY <1>1, NodeOf DEF SearchTree, Fits, CountOK

LEMMA SiblingsIn ==
  ASSUME NEW t, SearchTree(t), NEW p, NEW d, NEW x, NEW y, Siblings(t.mem, p, d, x, y)
  PROVE  x \in DOMAIN t.mem /\ y \in DOMAIN t.mem
<1>1. PICK h, lo, hi : Sound(t.mem, t.root, h, lo, hi)
  BY DEF SearchTree
<1> QED BY <1>1, SiblingsAre DEF SiblingsOK

(***************************************************************************)
(* Search: the bounds of a node, and the place of a key.                   *)
(***************************************************************************)
\* What hangs below a node lies within its bounds, so within those of the root.
LEMMA RootBounds ==
  ASSUME NEW m, NEW r, NEW h, NEW lo, NEW hi, Sound(m, r, h, lo, hi), NEW x \in DOMAIN m
  PROVE  lo[r] <= lo[x] /\ hi[x] <= hi[r]
<1>1. \A z \in DOMAIN m : lo[z] \in Int /\ hi[z] \in Int
  BY NodeOf DEF Sound
<1>2. r \in DOMAIN m
  BY DEF Sound, Typed
<1>3. PICK T : T = {z \in DOMAIN m : lo[r] <= lo[z] /\ hi[z] <= hi[r]}
  OBVIOUS
<1>4. r \in T
  BY <1>1, <1>2, <1>3
<1>5. ASSUME NEW c, NEW p, NEW i, NEW v, c \in DOMAIN m \ {r}, p \in T,
             PlacedAt(m, h, lo, hi, c, p, i, v)
      PROVE  c \in T
  <2>1. lo[p] <= lo[c] /\ hi[c] <= hi[p] /\ p \in DOMAIN m
    BY <1>5 DEF PlacedAt
  <2>2. lo[r] <= lo[p] /\ hi[p] <= hi[r]
    BY <1>3, <1>5
  <2>3. lo[r] <= lo[c] /\ hi[c] <= hi[r]
    BY <1>1, <1>2, <1>5, <2>1, <2>2
  <2> QED BY <1>3, <1>5, <2>3
<1>6. \A z \in DOMAIN m : z \in T
  BY <1>4, <1>5, Downwards
<1> QED BY <1>3, <1>6

\* The bounds f with the bound b moved to c wherever it occurs.
Moved(f, b, c) == [z \in DOMAIN f |-> IF f[z] = b THEN c ELSE f[z]]

\* The bounds of the root are no limit: it is as sound with wider ones.
LEMMA Widened ==
  ASSUME NEW m, NEW r, NEW h, NEW lo, NEW hi, Sound(m, r, h, lo, hi), NEW k \in Int
  PROVE  \E l, g : Sound(m, r, h, l, g) /\ l[r] < k /\ k < g[r]
<1>1. PICK b, c, b1, c1, l, g :
        /\ b = lo[r] /\ c = hi[r] /\ b1 = (IF b < k THEN b ELSE k - 1)
        /\ c1 = (IF k < c THEN c ELSE k + 1) /\ l = Moved(lo, b, b1) /\ g = Moved(hi, c, c1)
  OBVIOUS
<1>2. /\ Typed(m, r, h, lo, hi) /\ Ordered(m, lo, hi) /\ Furnished(m, h) /\ Hung(m, r, h, lo, hi)
      /\ Links(m) /\ NoneLost(m, r) /\ r \in DOMAIN m
      /\ lo \in [DOMAIN m -> Int] /\ hi \in [DOMAIN m -> Int]
  BY DEF Sound, Shape, Typed
<1>3. \A z \in DOMAIN m : lo[z] \in Int /\ hi[z] \in Int
  BY <1>2
<1>4. b \in Int /\ c \in Int /\ b1 \in Int /\ c1 \in Int /\ b1 <= b /\ c <= c1 /\ b1 < k /\ k < c1
  BY <1>1, <1>2, <1>3
<1>5. \A z \in DOMAIN m : /\ l[z] = (IF lo[z] = b THEN b1 ELSE lo[z])
                          /\ g[z] = (IF hi[z] = c THEN c1 ELSE hi[z])
  BY <1>1, <1>2 DEF Moved
<1>6. l \in [DOMAIN m -> Int] /\ g \in [DOMAIN m -> Int]
  BY <1>1, <1>2, <1>3, <1>4 DEF Moved
<1>7. \A z \in DOMAIN m : l[z] <= lo[z] /\ hi[z] <= g[z] /\ l[z] \in Int /\ g[z] \in Int
  BY <1>3, <1>4, <1>5
<1>8. Typed(m, r, h, l, g)
  BY <1>2, <1>6 DEF Typed
<1>9. Ordered(m, l, g)
  <2> SUFFICES ASSUME NEW x \in DOMAIN m PROVE Rising(m[x].values, l[x], g[x])
    BY DEF Ordered
  <2>1. PICK v, b2, c2, b3, c3 : /\ v = m[x].values /\ b2 = lo[x] /\ c2 = hi[x]
                                 /\ b3 = l[x] /\ c3 = g[x]
    OBVIOUS
  <2>2. ValuesOK(v, b2, c2)
    BY <2>1, ValuesOf
  <2>3. b3 \in Int /\ c3 \in Int /\ b3 <= b2 /\ c2 <= c3
    BY <1>7, <2>1
  <2>4. ValuesOK(v, b3, c3)
    BY <2>2, <2>3 DEF ValuesOK
  <2>5. v \in Seq(Int)
    BY <2>2 DEF ValuesOK
  <2>6. Rising(v, b3, c3)
    BY <2>3, <2>4, <2>5, RisingIs
  <2> QED BY <2>1, <2>6
<1>10. Hung(m, r, h, l, g)
  <2> SUFFICES ASSUME NEW x \in DOMAIN m, NEW i \in 1 .. Len(m[x].children)
               PROVE  Hangs(m, r, h, l, g, m[x].children[i], x, i)
    BY DEF Hung
  <2>1. PICK v, q, n : v = m[x].values /\ q = m[x].children[i] /\ n = Len(v)
    OBVIOUS
  <2>2. Hangs(m, r, h, lo, hi, q, x, i)
    BY <1>2, <2>1 DEF Hung
  <2>3. /\ q \in DOMAIN m /\ q # r /\ h[x] = h[q] + 1
        /\ lo[q] = Fence(v, lo[x], hi[x], i - 1) /\ hi[q] = Fence(v, lo[x], hi[x], i)
    BY <2>1, <2>2 DEF Hangs
  <2>4. ValuesOK(v, lo[x], hi[x])
    BY <2>1, ValuesOf
  <2>5. n \in Nat /\ i \in 1 .. n + 1
    <3>1. Len(m[x].children) = IF m[x].leaf THEN 0 ELSE Len(v) + 1
      BY <1>2, <2>1 DEF Furnished
    <3>2. n \in Nat
      BY <2>1, <2>4 DEF ValuesOK
    <3> QED BY <2>1, <3>1, <3>2
  <2>6. b <= lo[x] /\ hi[x] <= c
    BY <1>1, RootBounds
  <2>7. \A j \in 1 .. n : v[j] \in Int /\ b < v[j] /\ v[j] < c
    <3> SUFFICES ASSUME NEW j \in 1 .. n PROVE v[j] \in Int /\ b < v[j] /\ v[j] < c
      OBVIOUS
    <3>1. v[j] \in Int /\ lo[x] < v[j] /\ v[j] < hi[x]
      BY <2>1, <2>4 DEF ValuesOK
    <3> QED BY <1>3, <1>4, <2>6, <3>1
  <2>8. l[q] = Fence(v, l[x], g[x], i - 1)
    <3>1. CASE i = 1
      BY <1>5, <2>3, <3>1 DEF Fence
    <3>2. CASE i # 1
      <4>1. i - 1 \in 1 .. n /\ i - 1 # 0 /\ i - 1 # n + 1
        BY <2>5, <3>2
      <4>2. lo[q] = v[i - 1] /\ Fence(v, l[x], g[x], i - 1) = v[i - 1]
        BY <2>1, <2>3, <4>1 DEF Fence
      <4>3. lo[q] # b
        BY <1>4, <2>7, <4>1, <4>2
      <4> QED BY <1>5, <2>3, <4>2, <4>3
    <3> QED BY <3>1, <3>2
  <2>9. g[q] = Fence(v, l[x], g[x], i)
    <3>1. CASE i = n + 1
      <4>1. i # 0
        BY <2>5
      <4> QED BY <1>5, <2>1, <2>3, <3>1, <4>1 DEF Fence
    <3>2. CASE i # n + 1
      <4>1. i \in 1 .. n /\ i # 0
        BY <2>5, <3>2
      <4>2. hi[q] = v[i] /\ Fence(v, l[x], g[x], i) = v[i]
        BY <2>1, <2>3, <3>2, <4>1 DEF Fence
      <4>3. hi[q] # c
        BY <1>4, <2>7, <4>1, <4>2
      <4> QED BY <1>5, <2>3, <4>2, <4>3
    <3> QED BY <3>1, <3>2
  <2> QED BY <2>1, <2>3, <2>8, <2>9 DEF Hangs
<1>11. l[r] < k /\ k < g[r]
  BY <1>1, <1>2, <1>4, <1>5
<1>12. Sound(m, r, h, l, g)
  BY <1>2, <1>8, <1>9, <1>10 DEF Sound, Shape
<1> QED BY <1>11, <1>12

\* A leaf may have other values between its bounds.
LEMMA LeafRevalued ==
  ASSUME NEW m, NEW r, NEW h, NEW lo, NEW hi, Sound(m, r, h, lo, hi), NEW x \in DOMAIN m, m[x].leaf,
         NEW n, NEW w, Revalued(m, n, x, w), ValuesOK(w, lo[x], hi[x])
  PROVE  Sound(n, r, h, lo, hi)
<1>1. /\ Typed(m, r, h, lo, hi) /\ Ordered(m, lo, hi) /\ Furnished(m, h) /\ Hung(m, r, h, lo, hi)
      /\ Links(m) /\ NoneLost(m, r)
  BY DEF Sound, Shape
<1>2. /\ TreeNodes(n) /\ DOMAIN n = DOMAIN m /\ \A z \in DOMAIN m \ {x} : n[z] = m[z]
      /\ n[x] = [m[x] EXCEPT !.values = w]
  BY DEF Revalued
<1>3. m[x] \in Node
  BY <1>1, NodeOf
<1>4. /\ n[x].values = w /\ n[x].leaf = m[x].leaf /\ n[x].children = m[x].children
      /\ n[x].parent = m[x].parent /\ n[x].position = m[x].position
  BY <1>2, <1>3 DEF Node
<1>5. \A z \in DOMAIN m : /\ n[z].leaf = m[z].leaf /\ n[z].children = m[z].children
                          /\ n[z].parent = m[z].parent /\ n[z].position = m[z].position
                          /\ z # x => n[z].values = m[z].values
  BY <1>2, <1>4
<1>6. Len(m[x].children) = 0
  BY <1>1 DEF Furnished
<1>7. Typed(n, r, h, lo, hi)
  BY <1>1, <1>2 DEF Typed, TreeNodes
<1>8. Ordered(n, lo, hi)
  <2>1. Rising(w, lo[x], hi[x])
    <3>1. w \in Seq(Int) /\ lo[x] \in Int /\ hi[x] \in Int
      BY DEF ValuesOK
    <3> QED BY <3>1, RisingIs
  <2> QED BY <1>1, <1>2, <1>4, <1>5, <2>1 DEF Ordered
<1>9. Furnished(n, h)
  <2> SUFFICES ASSUME NEW z \in DOMAIN m
               PROVE  /\ n[z].leaf <=> h[z] = 0
                      /\ Len(n[z].children) = IF n[z].leaf THEN 0 ELSE Len(n[z].values) + 1
    BY <1>2 DEF Furnished
  <2>1. /\ m[z].leaf <=> h[z] = 0
        /\ Len(m[z].children) = IF m[z].leaf THEN 0 ELSE Len(m[z].values) + 1
    BY <1>1 DEF Furnished
  <2> QED BY <1>5, <2>1
<1>10. Hung(n, r, h, lo, hi)
  <2> SUFFICES ASSUME NEW z \in DOMAIN m, NEW i \in 1 .. Len(m[z].children)
               PROVE  Hangs(n, r, h, lo, hi, m[z].children[i], z, i)
    BY <1>2, <1>5 DEF Hung
  <2>1. z # x
    BY <1>6
  <2>2. Hangs(m, r, h, lo, hi, m[z].children[i], z, i)
    BY <1>1 DEF Hung
  <2> QED BY <1>2, <1>5, <2>1, <2>2 DEF Hangs
<1>11. Links(n)
  <2> SUFFICES ASSUME NEW z \in DOMAIN m, NEW i \in 1 .. Len(m[z].children)
               PROVE  n[m[z].children[i]].parent = z /\ n[m[z].children[i]].position = i - 1
    BY <1>2, <1>5 DEF Links
  <2>1. m[z].children[i] \in DOMAIN m
    BY <1>1 DEF Hung, Hangs
  <2>2. m[m[z].children[i]].parent = z /\ m[m[z].children[i]].position = i - 1
    BY <1>1 DEF Links
  <2> QED BY <1>5, <2>1, <2>2
<1>12. NoneLost(n, r)
  <2> SUFFICES ASSUME NEW c \in DOMAIN m \ {r}
               PROVE  /\ n[c].parent \in DOMAIN m
                      /\ n[c].position + 1 \in 1 .. Len(n[n[c].parent].children)
                      /\ n[n[c].parent].children[n[c].position + 1] = c
    BY <1>2 DEF NoneLost
  <2>1. /\ m[c].parent \in DOMAIN m
        /\ m[c].position + 1 \in 1 .. Len(m[m[c].parent].children)
        /\ m[m[c].parent].children[m[c].position + 1] = c
    BY <1>1 DEF NoneLost
  <2> QED BY <1>5, <2>1
<1> QED BY <1>7, <1>8, <1>9, <1>10, <1>11, <1>12 DEF Sound, Shape

\* Behind the first i values v of a node with the bounds l and g is the place of k.
Put(v, l, g, i, k) ==
  /\ i \in 0 .. Len(v) /\ l < k /\ k < g
  /\ \A j \in 1 .. Len(v) : (j <= i => v[j] < k) /\ (j > i => k < v[j])

\* The key k may be put behind the first i values of x.
PlaceFor(m, r, x, i, k) ==
  \E h, lo, hi : Sound(m, r, h, lo, hi) /\ x \in DOMAIN m /\ Put(m[x].values, lo[x], hi[x], i, k)

LEMMA PutKeeps ==
  ASSUME NEW v, NEW l, NEW g, ValuesOK(v, l, g), NEW i, NEW k \in Int, Put(v, l, g, i, k)
  PROVE  GrownBy(v, InsertAt(v, i + 1, k), i + 1, k) /\ ValuesOK(InsertAt(v, i + 1, k), l, g)
<1>1. PICK w, n, e : w = InsertAt(v, i + 1, k) /\ n = Len(v) /\ e = i + 1
  OBVIOUS
<1>2. v \in Seq(Int) /\ n \in Nat /\ l \in Int /\ g \in Int /\ i \in 0 .. n /\ l < k /\ k < g
  BY <1>1 DEF ValuesOK, Put
<1>3. e \in 1 .. n + 1 /\ e - 1 = i
  BY <1>1, <1>2
<1>4. GrownBy(v, w, e, k)
  BY <1>1, <1>2, <1>3, InsertedInt
<1>5. w \in Seq(Int) /\ IsWithout(v, w, e) /\ w[e] = k
  BY <1>4 DEF GrownBy
<1>6. Fenced(v, l, g)
  BY <1>2, FenceIs
<1>7. Fence(v, l, g, e - 1) < w[e]
  <2>1. CASE i = 0
    BY <1>2, <1>3, <1>5, <2>1 DEF Fence
  <2>2. CASE i # 0
    <3>1. i \in 1 .. Len(v) /\ i <= i
      BY <1>1, <1>2, <2>2
    <3>2. Fence(v, l, g, i) = v[i] /\ v[i] < k
      BY <1>6, <3>1 DEF Fenced, Put
    <3> QED BY <1>3, <1>5, <3>2
  <2> QED BY <2>1, <2>2
<1>8. w[e] < Fence(v, l, g, e)
  <2>1. CASE i = n
    BY <1>1, <1>2, <1>5, <1>6, <2>1 DEF Fenced
  <2>2. CASE i # n
    <3>1. e \in 1 .. Len(v) /\ e > i
      BY <1>1, <1>2, <2>2
    <3>2. Fence(v, l, g, e) = v[e] /\ k < v[e]
      BY <1>6, <3>1 DEF Fenced, Put
    <3> QED BY <1>5, <3>2
  <2> QED BY <2>1, <2>2
<1>9. Rising(v, l, g)
  BY <1>2, RisingIs
<1>10. Rising(w, l, g)
  BY <1>2, <1>5, <1>7, <1>8, <1>9, WithRising
<1>11. ValuesOK(w, l, g)
  BY <1>2, <1>5, <1>10, RisingIs
<1> QED BY <1>1, <1>4, <1>11

LEMMA RemovedKeeps ==
  ASSUME NEW v, NEW l, NEW g, ValuesOK(v, l, g), NEW e \in 1 .. Len(v)
  PROVE  IsWithout(RemoveAt(v, e), v, e) /\ ValuesOK(RemoveAt(v, e), l, g)
<1>1. v \in Seq(Int) /\ l \in Int /\ g \in Int
  BY DEF ValuesOK
<1>2. PICK w : w = RemoveAt(v, e)
  OBVIOUS
<1>3. w \in Seq(Int) /\ IsWithout(w, v, e)
  <2>1. /\ w \in Seq(Int) /\ Len(w) = Len(v) - 1
        /\ \A j \in 1 .. e - 1 : w[j] = v[j]
        /\ \A j \in e .. Len(v) - 1 : w[j] = v[j + 1]
    BY <1>1, <1>2, RemovedAt
  <2> QED BY <2>1 DEF IsWithout
<1>4. Rising(v, l, g)
  BY <1>1, RisingIs
<1>5. Rising(w, l, g)
  BY <1>1, <1>3, <1>4, WithoutRising
<1>6. ValuesOK(w, l, g)
  BY <1>1, <1>3, <1>5, RisingIs
<1> QED BY <1>2, <1>3, <1>6

\* The keys when one node has other values.
InSeq(v, q) == \E i \in 1 .. Len(v) : v[i] = q

LEMMA WithoutSeq ==
  ASSUME NEW w, NEW u, Len(w) \in Nat, Len(u) \in Nat, NEW d, IsWithout(w, u, d), NEW q
  PROVE  InSeq(u, q) <=> InSeq(w, q) \/ q = u[d]
<1>1. d \in 1 .. Len(u) /\ Len(w) = Len(u) - 1
  BY DEF IsWithout
<1>2. ASSUME NEW i \in 1 .. Len(u), u[i] = q PROVE InSeq(w, q) \/ q = u[d]
  <2>1. CASE i < d
    <3>1. i \in 1 .. Len(w) /\ w[i] = u[i]
      BY <1>1, <2>1 DEF IsWithout
    <3> QED BY <1>2, <3>1 DEF InSeq
  <2>2. CASE i = d
    BY <1>2, <2>2
  <2>3. CASE i > d
    <3>1. i - 1 \in 1 .. Len(w) /\ i - 1 \in d .. Len(u) - 1 /\ i - 1 + 1 = i
      BY <1>1, <2>3
    <3>2. w[i - 1] = u[i - 1 + 1]
      BY <3>1 DEF IsWithout
    <3>3. w[i - 1] = q
      BY <1>2, <3>1, <3>2
    <3> QED BY <3>1, <3>3 DEF InSeq
  <2> QED BY <1>1, <2>1, <2>2, <2>3
<1>3. ASSUME NEW i \in 1 .. Len(w), w[i] = q PROVE InSeq(u, q)
  <2>1. CASE i < d
    <3>1. i \in 1 .. Len(u) /\ w[i] = u[i]
      BY <1>1, <2>1 DEF IsWithout
    <3> QED BY <1>3, <3>1 DEF InSeq
  <2>2. CASE ~(i < d)
    <3>1. i + 1 \in 1 .. Len(u) /\ i \in d .. Len(u) - 1
      BY <1>1, <2>2
    <3>2. u[i + 1] = q
      BY <1>3, <3>1 DEF IsWithout
    <3> QED BY <3>1, <3>2 DEF InSeq
  <2> QED BY <2>1, <2>2
<1> QED BY <1>1, <1>2, <1>3 DEF InSeq

LEMMA RevaluedKeys ==
  ASSUME NEW m, TreeNodes(m), NEW n, NEW x \in DOMAIN m, NEW w, Revalued(m, n, x, w), NEW q
  PROVE  q \in TreeKeys(n) <=> \/ InSeq(w, q)
                               \/ \E z \in DOMAIN m \ {x} : InSeq(m[z].values, q)
<1>1. TreeNodes(n) /\ DOMAIN n = DOMAIN m /\ \A z \in DOMAIN m \ {x} : n[z] = m[z]
  BY DEF Revalued
<1>2. n[x].values = w
  <2>1. m[x] \in Node /\ n[x] = [m[x] EXCEPT !.values = w]
    BY DEF Revalued, TreeNodes
  <2> QED BY <2>1 DEF Node
<1>3. q \in TreeKeys(n) <=> KeyAt(n, q)
  BY <1>1, KeysAt
<1> QED BY <1>1, <1>2, <1>3 DEF KeyAt, InSeq

LEMMA HoldsKey ==
  ASSUME NEW m, TreeNodes(m), NEW q
  PROVE  q \in TreeKeys(m) <=> \E z \in DOMAIN m : InSeq(m[z].values, q)
BY KeysAt DEF KeyAt, InSeq

\* A value more in a node is a key more in the tree.
LEMMA KeysGrown ==
  ASSUME NEW m, TreeNodes(m), NEW n, NEW x \in DOMAIN m, NEW w, Revalued(m, n, x, w),
         NEW e, IsWithout(m[x].values, w, e), Len(w) \in Nat
  PROVE  TreeKeys(n) = TreeKeys(m) \cup {w[e]}
<1>1. m[x].values \in Seq(Int) /\ Len(m[x].values) \in Nat
  BY LenProperties DEF TreeNodes, Node
<1>2. ASSUME NEW q PROVE q \in TreeKeys(n) <=> q \in TreeKeys(m) \/ q = w[e]
  <2>1. InSeq(w, q) <=> InSeq(m[x].values, q) \/ q = w[e]
    BY <1>1, WithoutSeq
  <2>2. q \in TreeKeys(n) <=> InSeq(w, q) \/ \E z \in DOMAIN m \ {x} : InSeq(m[z].values, q)
    BY RevaluedKeys
  <2>3. q \in TreeKeys(m) <=> \E z \in DOMAIN m : InSeq(m[z].values, q)
    BY HoldsKey
  <2> QED BY <2>1, <2>2, <2>3
<1> QED BY <1>2

OneKeyLess(m, n, s) == TreeKeys(n) = TreeKeys(m) \ {s}

\* A value less in a node is a key less in the tree, for no key is in a tree twice.
LEMMA KeysShrunk ==
  ASSUME NEW t, SearchTree(t), NEW n, NEW x \in DOMAIN t.mem, NEW w, Revalued(t.mem, n, x, w),
         NEW e, IsWithout(w, t.mem[x].values, e), Len(w) \in Nat
  PROVE  OneKeyLess(t.mem, n, t.mem[x].values[e])
<1>1. PICK m, v, k : m = t.mem /\ v = m[x].values /\ k = v[e]
  OBVIOUS
<1>2. TreeNodes(m)
  BY <1>1 DEF SearchTree, Sound, Typed, TreeNodes
<1>3. v \in Seq(Int) /\ Len(v) \in Nat
  BY <1>1, <1>2, LenProperties DEF TreeNodes, Node
<1>4. /\ e \in 1 .. Len(v) /\ Len(w) = Len(v) - 1
      /\ \A j \in 1 .. e - 1 : w[j] = v[j]
      /\ \A j \in e .. Len(v) - 1 : w[j] = v[j + 1]
  BY <1>1 DEF IsWithout
<1>5. ~InSeq(w, k)
  <2> SUFFICES ASSUME NEW j \in 1 .. Len(w), w[j] = k PROVE FALSE
    BY DEF InSeq
  <2>1. PICK i \in 1 .. Len(v) : i # e /\ w[j] = v[i]
    <3>1. CASE j < e
      BY <1>3, <1>4, <3>1
    <3>2. CASE ~(j < e)
      <4>1. j + 1 \in 1 .. Len(v) /\ j + 1 # e /\ w[j] = v[j + 1]
        BY <1>3, <1>4, <3>2
      <4> QED BY <4>1
    <3> QED BY <3>1, <3>2
  <2> QED BY <1>1, <1>4, <2>1, SearchTreeKeysOnce
<1>6. ASSUME NEW z \in DOMAIN m \ {x} PROVE ~InSeq(m[z].values, k)
  <2> SUFFICES ASSUME NEW j \in 1 .. Len(m[z].values), m[z].values[j] = k PROVE FALSE
    BY DEF InSeq
  <2> QED BY <1>1, <1>4, SearchTreeKeysOnce
<1>7. ASSUME NEW q PROVE q \in TreeKeys(n) <=> q \in TreeKeys(m) /\ q # k
  <2>1. InSeq(v, q) <=> InSeq(w, q) \/ q = k
    BY <1>1, <1>3, WithoutSeq
  <2>2. q \in TreeKeys(n) <=> InSeq(w, q) \/ \E z \in DOMAIN m \ {x} : InSeq(m[z].values, q)
    BY <1>1, <1>2, RevaluedKeys
  <2>3. q \in TreeKeys(m) <=> \E z \in DOMAIN m : InSeq(m[z].values, q)
    BY <1>2, HoldsKey
  <2> QED BY <1>1, <1>5, <1>6, <2>1, <2>2, <2>3
<1> QED BY <1>1, <1>7 DEF OneKeyLess

\* What does not change when the values of a node do.
SameLinks(m, n) ==
  DOMAIN n = DOMAIN m /\ \A z \in DOMAIN m : n[z].leaf = m[z].leaf /\ n[z].parent = m[z].parent

\* A search tree stays one when a leaf has other values between its bounds and in its room.
LEMMA LeafChanged ==
  ASSUME NEW t, SearchTree(t), NEW h, NEW lo, NEW hi, Sound(t.mem, t.root, h, lo, hi),
         NEW x \in DOMAIN t.mem, t.mem[x].leaf,
         NEW w, ValuesOK(w, lo[x], hi[x]), Len(w) <= t.mem[x].max_count,
         NEW u, Treelike(u), u.root = t.root, u.mem = [t.mem EXCEPT ![x].values = w]
  PROVE  /\ SearchTree(u) /\ Revalued(t.mem, u.mem, x, w)
         /\ SameRoom(t.mem, u.mem) /\ SameLinks(t.mem, u.mem)
<1>1. PICK m, n : m = t.mem /\ n = u.mem
  OBVIOUS
<1>2. TreeNodes(m) /\ Fits(m)
  BY <1>1 DEF SearchTree, Sound, Typed, TreeNodes
<1>3. w \in Seq(Int)
  BY DEF ValuesOK
<1>4. Revalued(m, n, x, w)
  <2>1. TreeNodes(t.mem)
    BY <1>1, <1>2
  <2>2. Revalued(t.mem, [t.mem EXCEPT ![x].values = w], x, w)
    BY <1>3, <2>1, RevaluedIs
  <2> QED BY <1>1, <2>2, Zenon
<1>5. Sound(n, t.root, h, lo, hi)
  BY <1>1, <1>4, LeafRevalued
<1>6. /\ DOMAIN n = DOMAIN m /\ n[x] = [m[x] EXCEPT !.values = w]
      /\ \A z \in DOMAIN m \ {x} : n[z] = m[z]
  BY <1>4 DEF Revalued
<1>7. m[x] \in Node
  BY <1>1, <1>2 DEF TreeNodes
<1>8. /\ n[x].values = w /\ n[x].leaf = m[x].leaf /\ n[x].parent = m[x].parent
      /\ n[x].max_count = m[x].max_count
  BY <1>6, <1>7 DEF Node
<1>9. Fits(n)
  BY <1>1, <1>2, <1>6, <1>8 DEF Fits
<1>10. SameRoom(m, n) /\ SameLinks(m, n)
  BY <1>6, <1>8 DEF SameRoom, SameLinks
<1> QED BY <1>1, <1>4, <1>5, <1>9, <1>10 DEF SearchTree

(***************************************************************************)
(* Functions that are recursive along a height have a value everywhere.    *)
(***************************************************************************)
Solution(D, h, base, down, n, f) ==
  f = [y \in {z \in D : h[z] <= n} |-> IF h[y] = 0 THEN base[y] ELSE f[down[y]]]

Descends(D, h, base, down, f) == f = [y \in D |-> IF h[y] = 0 THEN base[y] ELSE f[down[y]]]

LEMMA DescentSolved ==
  ASSUME NEW D, IsFiniteSet(D), NEW h \in [D -> Nat], NEW base, NEW down,
         \A y \in D : h[y] # 0 => down[y] \in D /\ h[down[y]] < h[y]
  PROVE  \E f : Descends(D, h, base, down, f)
<1>1. PICK b \in Nat : \A x \in D : h[x] <= b
  BY BoundedOn
<1>2. PICK T : T = {n \in Nat : \E f : Solution(D, h, base, down, n, f)}
  OBVIOUS
<1>3. 0 \in T
  <2>1. PICK f : f = [y \in {z \in D : h[z] <= 0} |-> base[y]]
    OBVIOUS
  <2>2. \A y \in {z \in D : h[z] <= 0} : h[y] = 0
    OBVIOUS
  <2>3. Solution(D, h, base, down, 0, f)
    BY <2>1, <2>2 DEF Solution
  <2> QED BY <1>2, <2>3
<1>4. ASSUME NEW n \in 0 .. b - 1, n \in T PROVE n + 1 \in T
  <2>1. PICK f : Solution(D, h, base, down, n, f)
    BY <1>2, <1>4
  <2>2. PICK A, B : A = {z \in D : h[z] <= n} /\ B = {z \in D : h[z] <= n + 1}
    OBVIOUS
  <2>3. \A y \in A : f[y] = IF h[y] = 0 THEN base[y] ELSE f[down[y]]
    BY <2>1, <2>2 DEF Solution
  <2>4. PICK g : g = [y \in B |-> IF h[y] = 0 THEN base[y] ELSE f[down[y]]]
    OBVIOUS
  <2>5. \A y \in A : y \in B /\ g[y] = f[y]
    <3>1. A \subseteq B
      BY <2>2
    <3> QED BY <2>3, <2>4, <3>1
  <2>6. \A y \in B : h[y] # 0 => down[y] \in A
    BY <2>2
  <2>7. \A y \in B : g[y] = IF h[y] = 0 THEN base[y] ELSE g[down[y]]
    BY <2>4, <2>5, <2>6
  <2>8. Solution(D, h, base, down, n + 1, g)
    BY <2>2, <2>4, <2>7 DEF Solution
  <2> QED BY <1>2, <2>8
<1>5. \A n \in 0 .. b : n \in T
  BY <1>3, <1>4, UpTo
<1>6. PICK f : Solution(D, h, base, down, b, f)
  BY <1>2, <1>5
<1>7. {z \in D : h[z] <= b} = D
  BY <1>1
<1> QED BY <1>6, <1>7 DEF Solution, Descends

(***************************************************************************)
(* Where a place of a node is when values have moved.                      *)
(***************************************************************************)
\* Place i of a node with the values v, the bounds l and g and the children c is place j of
\* the other: the same keys may be put there, and the same child hangs there.
Stands(v, l, g, c, i, v2, l2, g2, c2, j) ==
  /\ \A k \in Int : Put(v, l, g, i, k) => Put(v2, l2, g2, j, k)
  /\ i + 1 \in 1 .. Len(c) => j + 1 \in 1 .. Len(c2) /\ c2[j + 1] = c[i + 1]

\* w is u, s and v, and c the children of u and of v.
Stood(w, u, s, v, l, g, c, cu, cv) ==
  /\ ValuesOK(w, l, g) /\ ValuesOK(u, l, s) /\ ValuesOK(v, s, g) /\ IsJoin(w, u, s, v)
  /\ Len(cu) \in Nat /\ Len(cv) \in Nat /\ IsConcat(c, cu, cv)
  /\ Len(cu) = Len(u) + 1 \/ (Len(cu) = 0 /\ Len(cv) = 0)

LEMMA StandsLeft ==
  ASSUME NEW w, NEW u, NEW s, NEW v, NEW l, NEW g, NEW c, NEW cu, NEW cv,
         Stood(w, u, s, v, l, g, c, cu, cv), NEW i \in Nat
  PROVE  Stands(u, l, s, cu, i, w, l, g, c, i)
<1>1. PICK n, a1 : n = Len(u) /\ a1 = Len(v)
  OBVIOUS
<1>2. /\ n \in Nat /\ a1 \in Nat /\ Len(w) = n + 1 + a1 /\ w[n + 1] = s /\ s < g /\ s \in Int /\ g \in Int
      /\ \A j \in 1 .. n : w[j] = u[j] 
      /\ \A j \in 1 .. Len(w) : w[j] \in Int
      /\ \A j, e \in 1 .. Len(w) : j < e => w[j] < w[e]
  BY <1>1 DEF Stood, ValuesOK, IsJoin
<1>3. ASSUME NEW k \in Int, Put(u, l, s, i, k) PROVE Put(w, l, g, i, k)
  <2>1. i \in 0 .. n /\ l < k /\ k < s /\ \A j \in 1 .. n : (j <= i => u[j] < k) /\ (j > i => k < u[j])
    BY <1>1, <1>3 DEF Put
  <2>2. i \in 0 .. Len(w) /\ k < g
    BY <1>2, <2>1
  <2>3. ASSUME NEW j \in 1 .. Len(w) PROVE (j <= i => w[j] < k) /\ (j > i => k < w[j])
    <3>1. CASE j <= n
      BY <1>2, <2>1, <3>1
    <3>2. CASE j = n + 1
      BY <1>2, <2>1, <3>2
    <3>3. CASE j > n + 1
      <4>1. s < w[j] /\ w[j] \in Int
        BY <1>2, <3>3
      <4> QED BY <1>2, <2>1, <3>3, <4>1
    <3> QED BY <1>2, <3>1, <3>2, <3>3
  <2> QED BY <2>1, <2>2, <2>3 DEF Put
<1>4. ASSUME i + 1 \in 1 .. Len(cu) PROVE i + 1 \in 1 .. Len(c) /\ c[i + 1] = cu[i + 1]
  BY <1>4 DEF Stood, IsConcat
<1> QED BY <1>3, <1>4 DEF Stands

LEMMA StandsRight ==
  ASSUME NEW w, NEW u, NEW s, NEW v, NEW l, NEW g, NEW c, NEW cu, NEW cv,
         Stood(w, u, s, v, l, g, c, cu, cv), NEW i \in Nat
  PROVE  Stands(v, s, g, cv, i, w, l, g, c, Len(u) + 1 + i)
<1>1. PICK n, a1, e : n = Len(u) /\ a1 = Len(v) /\ e = n + 1 + i
  OBVIOUS
<1>2. /\ n \in Nat /\ a1 \in Nat /\ Len(w) = n + 1 + a1 /\ w[n + 1] = s /\ l < s /\ s \in Int /\ l \in Int
      /\ \A j \in 1 .. a1 : w[n + 1 + j] = v[j]
      /\ \A j \in 1 .. Len(w) : w[j] \in Int
      /\ \A j, f \in 1 .. Len(w) : j < f => w[j] < w[f]
  BY <1>1 DEF Stood, ValuesOK, IsJoin
<1>3. ASSUME NEW k \in Int, Put(v, s, g, i, k) PROVE Put(w, l, g, e, k)
  <2>1. i \in 0 .. a1 /\ s < k /\ k < g /\ \A j \in 1 .. a1 : (j <= i => v[j] < k) /\ (j > i => k < v[j])
    BY <1>1, <1>3 DEF Put
  <2>2. e \in 0 .. Len(w) /\ l < k
    BY <1>1, <1>2, <2>1
  <2>3. ASSUME NEW j \in 1 .. Len(w) PROVE (j <= e => w[j] < k) /\ (j > e => k < w[j])
    <3>1. CASE j > n + 1
      <4>1. j - (n + 1) \in 1 .. a1 /\ n + 1 + (j - (n + 1)) = j
        BY <1>2, <3>1
      <4>2. w[j] = v[j - (n + 1)]
        BY <1>2, <4>1
      <4>3. (j <= e <=> j - (n + 1) <= i) /\ (j > e <=> j - (n + 1) > i)
        BY <1>1, <1>2
      <4> QED BY <2>1, <4>1, <4>2, <4>3
    <3>2. CASE j = n + 1
      BY <1>1, <1>2, <2>1, <3>2
    <3>3. CASE j < n + 1
      <4>1. w[j] < s /\ w[j] \in Int /\ ~(j > e)
        BY <1>1, <1>2, <3>3
      <4>2. w[j] < k
        BY <1>2, <2>1, <4>1
      <4> QED BY <4>1, <4>2
    <3> QED BY <1>2, <3>1, <3>2, <3>3
  <2> QED BY <2>1, <2>2, <2>3 DEF Put
<1>4. ASSUME i + 1 \in 1 .. Len(cv) PROVE e + 1 \in 1 .. Len(c) /\ c[e + 1] = cv[i + 1]
  <2>1. PICK f, b : f = Len(cu) /\ b = Len(cv)
    OBVIOUS
  <2>2. /\ f \in Nat /\ b \in Nat /\ Len(c) = f + b /\ i + 1 \in 1 .. b
        /\ f = n + 1 \/ (f = 0 /\ b = 0)
    BY <1>1, <1>4, <2>1 DEF Stood, IsConcat
  <2>3. c[f + (i + 1)] = cv[i + 1]
    BY <2>1, <2>2 DEF Stood, IsConcat
  <2>4. n \in Nat /\ e = n + 1 + i
    BY <1>1, <1>2
  <2>5. f = n + 1
    BY <2>2
  <2>6. f + (i + 1) = e + 1 /\ e + 1 \in 1 .. f + b
    BY <2>2, <2>4, <2>5
  <2> QED BY <2>2, <2>3, <2>6
<1> QED BY <1>1, <1>3, <1>4 DEF Stands

LEMMA StandsApart ==
  ASSUME NEW w, NEW u, NEW s, NEW v, NEW l, NEW g, NEW c, NEW cu, NEW cv,
         Stood(w, u, s, v, l, g, c, cu, cv), NEW i \in Nat
  PROVE  /\ i <= Len(u) => Stands(w, l, g, c, i, u, l, s, cu, i)
         /\ i > Len(u) => Stands(w, l, g, c, i, v, s, g, cv, i - Len(u) - 1)
<1>1. PICK n, a1 : n = Len(u) /\ a1 = Len(v)
  OBVIOUS
<1>2. /\ n \in Nat /\ a1 \in Nat /\ Len(w) = n + 1 + a1 /\ w[n + 1] = s /\ s \in Int
      /\ \A j \in 1 .. n : w[j] = u[j]
      /\ \A j \in 1 .. a1 : w[n + 1 + j] = v[j]
      /\ \A j \in 1 .. Len(w) : w[j] \in Int
  BY <1>1 DEF Stood, ValuesOK, IsJoin
<1>3. /\ Len(cu) \in Nat /\ Len(cv) \in Nat /\ Len(c) = Len(cu) + Len(cv)
      /\ \A j \in 1 .. Len(cu) : c[j] = cu[j]
      /\ \A j \in 1 .. Len(cv) : c[Len(cu) + j] = cv[j]
      /\ Len(cu) = n + 1 \/ (Len(cu) = 0 /\ Len(cv) = 0)
  BY <1>1 DEF Stood, IsConcat
<1>4. ASSUME i <= n PROVE Stands(w, l, g, c, i, u, l, s, cu, i)
  <2>1. ASSUME NEW k \in Int, Put(w, l, g, i, k) PROVE Put(u, l, s, i, k)
    <3>1. l < k /\ \A j \in 1 .. Len(w) : (j <= i => w[j] < k) /\ (j > i => k < w[j])
      BY <2>1 DEF Put
    <3>2. n + 1 \in 1 .. Len(w) /\ n + 1 > i
      BY <1>2, <1>4
    <3>3. k < s
      BY <1>2, <3>1, <3>2
    <3>4. \A j \in 1 .. n : (j <= i => u[j] < k) /\ (j > i => k < u[j])
      BY <1>2, <3>1
    <3> QED BY <1>1, <1>2, <1>4, <3>1, <3>3, <3>4 DEF Put
  <2>2. ASSUME i + 1 \in 1 .. Len(c) PROVE i + 1 \in 1 .. Len(cu) /\ cu[i + 1] = c[i + 1]
    BY <1>2, <1>3, <1>4, <2>2
  <2> QED BY <2>1, <2>2 DEF Stands
<1>5. ASSUME i > n PROVE Stands(w, l, g, c, i, v, s, g, cv, i - n - 1)
  <2>0. PICK e : e = i - n - 1
    OBVIOUS
  <2>e. e \in Nat /\ n + 1 + e = i
    BY <1>2, <1>5, <2>0
  <2>1. ASSUME NEW k \in Int, Put(w, l, g, i, k) PROVE Put(v, s, g, e, k)
    <3>1. i \in 0 .. Len(w) /\ k < g /\ \A j \in 1 .. Len(w) : (j <= i => w[j] < k) /\ (j > i => k < w[j])
      BY <2>1 DEF Put
    <3>2. n + 1 \in 1 .. Len(w) /\ n + 1 <= i
      BY <1>2, <1>5
    <3>3. s < k /\ e \in 0 .. a1
      BY <1>2, <2>e, <3>1, <3>2
    <3>4. ASSUME NEW j \in 1 .. a1 PROVE (j <= e => v[j] < k) /\ (j > e => k < v[j])
      <4>1. n + 1 + j \in 1 .. Len(w) /\ (j <= e <=> n + 1 + j <= i)
        BY <1>2, <2>e
      <4> QED BY <1>2, <2>e, <3>1, <4>1
    <3> QED BY <1>1, <3>1, <3>3, <3>4 DEF Put
  <2>2. ASSUME i + 1 \in 1 .. Len(c) PROVE e + 1 \in 1 .. Len(cv) /\ cv[e + 1] = c[i + 1]
    <3>1. PICK f, b : f = Len(cu) /\ b = Len(cv)
      OBVIOUS
    <3>2. f \in Nat /\ b \in Nat /\ i + 1 \in 1 .. f + b /\ (f = n + 1 \/ (f = 0 /\ b = 0))
      BY <1>3, <2>2, <3>1
    <3>3. f = n + 1
      BY <3>2
    <3>4. e + 1 \in 1 .. b /\ f + (e + 1) = i + 1
      BY <1>2, <2>e, <3>2, <3>3
    <3>5. c[f + (e + 1)] = cv[e + 1]
      BY <1>3, <3>1, <3>4
    <3> QED BY <3>1, <3>4, <3>5
  <2> QED BY <2>0, <2>1, <2>2 DEF Stands
<1> QED BY <1>1, <1>4, <1>5

\* n has the nodes of m, and what hangs lower than b is in n what it is in m.
Stays(m, n, h, lo, hi, h2, lo2, hi2, b) ==
  \A z \in DOMAIN m :
    /\ z \in DOMAIN n /\ n[z].leaf = m[z].leaf
    /\ h[z] < b => SameBody(m[z], n[z]) /\ h2[z] = h[z] /\ lo2[z] = lo[z] /\ hi2[z] = hi[z]

\* n is what a move of values made of m: place i of x is place j of z, and below nothing moved.
Moves(m, n, r, h, lo, hi, h2, lo2, hi2, x, i, z, j) ==
  /\ Sound(n, r, h2, lo2, hi2) /\ SameLink(m[r], n[r])
  /\ Stays(m, n, h, lo, hi, h2, lo2, hi2, h[x])
  /\ z \in DOMAIN n /\ h2[z] = h[x]
  /\ Stands(m[x].values, lo[x], hi[x], m[x].children, i,
            n[z].values, lo2[z], hi2[z], n[z].children, j)

Follows(m, n, r, h, lo, hi, x, i, z, j) ==
  \E h2, lo2, hi2 : Moves(m, n, r, h, lo, hi, h2, lo2, hi2, x, i, z, j)

LEMMA SiblingFences ==
  ASSUME NEW m, NEW r, NEW h, NEW lo, NEW hi, Sound(m, r, h, lo, hi),
         NEW p, NEW d, NEW x, NEW y, Siblings(m, p, d, x, y)
  PROVE  hi[x] = m[p].values[d] /\ lo[y] = m[p].values[d]
<1>1. SiblingsOK(m, r, h, p, d, x, y) /\ Typed(m, r, h, lo, hi)
  BY SiblingsAre DEF Sound
<1>2. PICK v, q : v = m[p].values /\ q = d + 1
  OBVIOUS
<1>3. /\ d \in 1 .. Len(v) /\ d \in 1 .. Len(m[p].children) /\ q \in 1 .. Len(m[p].children) /\ q - 1 = d
      /\ p \in DOMAIN m /\ m[p].children[d] = x /\ m[p].children[q] = y /\ Len(v) \in Nat
  BY <1>1, <1>2 DEF SiblingsOK, Siblings
<1>4. Hangs(m, r, h, lo, hi, m[p].children[d], p, d) /\ Hangs(m, r, h, lo, hi, m[p].children[q], p, q)
  BY <1>3 DEF Sound, Shape, Hung
<1>5. hi[x] = Fence(v, lo[p], hi[p], d) /\ lo[y] = Fence(v, lo[p], hi[p], d)
  BY <1>2, <1>3, <1>4 DEF Hangs
<1>6. Fence(v, lo[p], hi[p], d) = v[d]
  BY <1>3 DEF Fence
<1> QED BY <1>2, <1>5, <1>6

LEMMA JoinedOK ==
  ASSUME NEW w \in Seq(Int), NEW u, NEW s, NEW v, NEW l, NEW g, ValuesOK(u, l, s), ValuesOK(v, s, g),
         IsJoin(w, u, s, v)
  PROVE  ValuesOK(w, l, g)
<1>1. /\ u \in Seq(Int) /\ v \in Seq(Int) /\ l \in Int /\ s \in Int /\ g \in Int
  BY DEF ValuesOK
<1>2. Rising(u, l, s) /\ Rising(v, s, g)
  BY <1>1, RisingIs
<1>3. Rising(w, l, g)
  BY <1>1, <1>2, JoinRising
<1> QED BY <1>1, <1>3, RisingIs

\* Two nodes beside each other, with s between them, in m and anew in n.
SharedStand(u, s, v, cu, cv, a1, e, b, ca, cb, l, g, i) ==
  /\ i <= Len(a1) => Stands(u, l, s, cu, i, a1, l, e, ca, i)
  /\ i > Len(a1) => Stands(u, l, s, cu, i, b, e, g, cb, i - Len(a1) - 1)
  /\ Len(u) + 1 + i <= Len(a1) => Stands(v, s, g, cv, i, a1, l, e, ca, Len(u) + 1 + i)
  /\ Len(u) + 1 + i > Len(a1) => Stands(v, s, g, cv, i, b, e, g, cb, Len(u) + 1 + i - Len(a1) - 1)

LEMMA StandsOn ==
  ASSUME NEW v1, NEW l1, NEW g1, NEW c1, NEW i1, NEW v2, NEW l2, NEW g2, NEW c2, NEW i2,
         NEW v3, NEW l3, NEW g3, NEW c3, NEW i3,
         Stands(v1, l1, g1, c1, i1, v2, l2, g2, c2, i2), Stands(v2, l2, g2, c2, i2, v3, l3, g3, c3, i3)
  PROVE  Stands(v1, l1, g1, c1, i1, v3, l3, g3, c3, i3)
BY DEF Stands

LEMMA SharedStands ==
  ASSUME NEW w, NEW u, NEW s, NEW v, NEW l, NEW g, NEW c, NEW cu, NEW cv, NEW a1, NEW e, NEW b, NEW ca, NEW cb,
         Stood(w, u, s, v, l, g, c, cu, cv), Stood(w, a1, e, b, l, g, c, ca, cb), NEW i \in Nat
  PROVE  SharedStand(u, s, v, cu, cv, a1, e, b, ca, cb, l, g, i)
<1>1. PICK j : j = Len(u) + 1 + i
  OBVIOUS
<1>2. j \in Nat
  BY <1>1 DEF Stood, ValuesOK
<1>3. Stands(u, l, s, cu, i, w, l, g, c, i) /\ Stands(v, s, g, cv, i, w, l, g, c, j)
  BY <1>1, StandsLeft, StandsRight
<1>4. /\ i <= Len(a1) => Stands(w, l, g, c, i, a1, l, e, ca, i)
      /\ i > Len(a1) => Stands(w, l, g, c, i, b, e, g, cb, i - Len(a1) - 1)
  BY StandsApart
<1>5. /\ j <= Len(a1) => Stands(w, l, g, c, j, a1, l, e, ca, j)
      /\ j > Len(a1) => Stands(w, l, g, c, j, b, e, g, cb, j - Len(a1) - 1)
  BY <1>2, StandsApart
<1>6. /\ i <= Len(a1) => Stands(u, l, s, cu, i, a1, l, e, ca, i)
      /\ i > Len(a1) => Stands(u, l, s, cu, i, b, e, g, cb, i - Len(a1) - 1)
  BY <1>3, <1>4, StandsOn
<1>7. /\ j <= Len(a1) => Stands(v, s, g, cv, i, a1, l, e, ca, j)
      /\ j > Len(a1) => Stands(v, s, g, cv, i, b, e, g, cb, j - Len(a1) - 1)
  BY <1>3, <1>5, StandsOn
<1> QED BY <1>1, <1>6, <1>7 DEF SharedStand

LEMMA SharedStays ==
  ASSUME NEW m, NEW r, NEW h, NEW lo, NEW hi, Sound(m, r, h, lo, hi),
         NEW p, NEW d, NEW x, NEW y, Siblings(m, p, d, x, y),
         NEW n, NEW e, Shared(m, n, p, d, x, y, e)
  PROVE  /\ Stays(m, n, h, lo, hi, h, At2(lo, y, e), At2(hi, x, e), h[x])
         /\ Stays(m, n, h, lo, hi, h, At2(lo, y, e), At2(hi, x, e), h[y])
<1>1. SiblingsOK(m, r, h, p, d, x, y) /\ Typed(m, r, h, lo, hi) /\ DOMAIN n = DOMAIN m
  BY SiblingsAre DEF Sound, Shared
<1>2. h[x] = h[y] /\ h[p] = h[x] + 1 /\ h[x] \in Nat
  BY <1>1 DEF SiblingsOK, Typed
<1>3. lo \in [DOMAIN m -> Int] /\ hi \in [DOMAIN m -> Int]
  BY <1>1 DEF Typed
<1>4. ASSUME NEW z \in DOMAIN m
      PROVE  /\ n[z].leaf = m[z].leaf
             /\ h[z] < h[x] => SameBody(m[z], n[z]) /\ At2(lo, y, e)[z] = lo[z] /\ At2(hi, x, e)[z] = hi[z]
  <2>1. n[z].leaf = m[z].leaf
    BY DEF Shared, SameBody
  <2>2. ASSUME h[z] < h[x]
        PROVE  SameBody(m[z], n[z]) /\ At2(lo, y, e)[z] = lo[z] /\ At2(hi, x, e)[z] = hi[z]
    <3>1. z # x /\ z # y /\ z # p
      BY <1>2, <2>2
    <3> QED BY <1>3, <3>1 DEF Shared, At2
  <2> QED BY <2>1, <2>2
<1> QED BY <1>1, <1>2, <1>4 DEF Stays

\* What a rebalancing makes of the place i of either node.
SharedMoves(m, n, r, h, lo, hi, x, y, i) ==
  /\ i <= Len(n[x].values) => Follows(m, n, r, h, lo, hi, x, i, x, i)
  /\ i > Len(n[x].values) => Follows(m, n, r, h, lo, hi, x, i, y, i - Len(n[x].values) - 1)
  /\ Len(m[x].values) + 1 + i <= Len(n[x].values)
       => Follows(m, n, r, h, lo, hi, y, i, x, Len(m[x].values) + 1 + i)
  /\ Len(m[x].values) + 1 + i > Len(n[x].values)
       => Follows(m, n, r, h, lo, hi, y, i, y, Len(m[x].values) + 1 + i - Len(n[x].values) - 1)

LEMMA SharedFollows ==
  ASSUME NEW m, NEW r, NEW h, NEW lo, NEW hi, Sound(m, r, h, lo, hi),
         NEW p, NEW d, NEW x, NEW y, Siblings(m, p, d, x, y),
         NEW n, NEW e, Shared(m, n, p, d, x, y, e), SharedOK(m, r, h, lo, hi, p, d, x, y, n, e), NEW i \in Nat
  PROVE  SharedMoves(m, n, r, h, lo, hi, x, y, i)
<1>1. PICK u, s, v, cu, cv, a1, b, ca, cb, w, c, l, g, lo2, hi2 :
        /\ u = m[x].values /\ s = m[p].values[d] /\ v = m[y].values /\ cu = m[x].children /\ cv = m[y].children
        /\ a1 = n[x].values /\ b = n[y].values /\ ca = n[x].children /\ cb = n[y].children
        /\ w = JoinOf(u, s, v) /\ c = cu \o cv /\ l = lo[x] /\ g = hi[y]
        /\ lo2 = At2(lo, y, e) /\ hi2 = At2(hi, x, e)
  OBVIOUS
<1>2. SiblingsOK(m, r, h, p, d, x, y) /\ Typed(m, r, h, lo, hi) /\ DOMAIN n = DOMAIN m
  BY SiblingsAre DEF Sound, Shared
<1>3. /\ x \in DOMAIN m /\ y \in DOMAIN m /\ x # y /\ h[x] = h[y] /\ m[x].leaf = m[y].leaf
      /\ lo \in [DOMAIN m -> Int] /\ hi \in [DOMAIN m -> Int]
      /\ n[x].leaf = m[x].leaf /\ n[y].leaf = m[y].leaf
  BY <1>2 DEF SiblingsOK, Typed, Shared
<1>4. hi[x] = s /\ lo[y] = s
  BY <1>1, SiblingFences
<1>5. lo2[x] = l /\ hi2[x] = e /\ lo2[y] = e /\ hi2[y] = g
  BY <1>1, <1>3 DEF At2
<1>6. Sound(n, r, h, lo2, hi2) /\ SameLink(m[r], n[r])
  BY <1>1 DEF SharedOK, SameFrame
<1>7. ValuesOK(u, l, s) /\ ValuesOK(v, s, g)
  <2>1. ValuesOK(m[x].values, lo[x], hi[x]) /\ ValuesOK(m[y].values, lo[y], hi[y])
    BY <1>3, ValuesOf
  <2> QED BY <1>1, <1>4, <2>1
<1>8. ValuesOK(a1, l, e) /\ ValuesOK(b, e, g)
  <2>1. ValuesOK(n[x].values, lo2[x], hi2[x]) /\ ValuesOK(n[y].values, lo2[y], hi2[y])
    BY <1>2, <1>3, <1>6, ValuesOf
  <2> QED BY <1>1, <1>5, <2>1
<1>9. w \in Seq(Int) /\ IsJoin(w, u, s, v) /\ IsJoin(w, a1, e, b)
  <2>1. u \in Seq(Int) /\ v \in Seq(Int) /\ s \in Int
    BY <1>7 DEF ValuesOK
  <2>2. w \in Seq(Int) /\ IsJoin(w, u, s, v)
    BY <1>1, <2>1, JoinOfIs
  <2> QED BY <1>1, <2>2 DEF Shared
<1>10. /\ ChildrenOK(m, r, h, x) /\ ChildrenOK(m, r, h, y) /\ ChildrenOK(n, r, h, x) /\ ChildrenOK(n, r, h, y)
  BY <1>2, <1>3, <1>6, ChildrenAre
<1>11. /\ cu \in Seq(Nat) /\ cv \in Seq(Nat) /\ Len(cu) \in Nat /\ Len(cv) \in Nat
       /\ Len(ca) \in Nat /\ Len(cb) \in Nat
       /\ Len(cu) = Len(u) + 1 \/ (Len(cu) = 0 /\ Len(cv) = 0)
       /\ Len(ca) = Len(a1) + 1 \/ (Len(ca) = 0 /\ Len(cb) = 0)
  BY <1>1, <1>3, <1>10 DEF ChildrenOK
<1>12. IsConcat(c, cu, cv) /\ IsConcat(c, ca, cb)
  <2>1. c \in Seq(Nat) /\ IsConcat(c, cu, cv)
    BY <1>1, <1>11, ConcatIs
  <2> QED BY <1>1, <2>1 DEF Shared
<1>13. ValuesOK(w, l, g)
  BY <1>7, <1>9, JoinedOK
<1>14. Stood(w, u, s, v, l, g, c, cu, cv) /\ Stood(w, a1, e, b, l, g, c, ca, cb)
  BY <1>7, <1>8, <1>9, <1>11, <1>12, <1>13 DEF Stood
<1>15. SharedStand(u, s, v, cu, cv, a1, e, b, ca, cb, l, g, i)
  BY <1>14, SharedStands
<1>16. Stays(m, n, h, lo, hi, h, lo2, hi2, h[x]) /\ Stays(m, n, h, lo, hi, h, lo2, hi2, h[y])
  BY <1>1, SharedStays
<1>17. ASSUME NEW f \in {x, y}, NEW z \in {x, y}, NEW j,
              Stands(m[f].values, lo[f], hi[f], m[f].children, i,
                     n[z].values, lo2[z], hi2[z], n[z].children, j)
       PROVE  Follows(m, n, r, h, lo, hi, f, i, z, j)
  <2>1. Moves(m, n, r, h, lo, hi, h, lo2, hi2, f, i, z, j)
    BY <1>2, <1>3, <1>6, <1>16, <1>17 DEF Moves
  <2> QED BY <2>1 DEF Follows
<1> QED BY <1>1, <1>4, <1>5, <1>15, <1>17 DEF SharedStand, SharedMoves

\* What a split makes of the place i of the node.
SplitMoves(m, n, r, h, lo, hi, x, y, i) ==
  /\ i <= Len(n[x].values) => Follows(m, n, r, h, lo, hi, x, i, x, i)
  /\ i > Len(n[x].values) => Follows(m, n, r, h, lo, hi, x, i, y, i - Len(n[x].values) - 1)

LEMMA SplitFollows ==
  ASSUME NEW m, NEW r, NEW h, NEW lo, NEW hi, Sound(m, r, h, lo, hi),
         NEW n, NEW p, NEW d, NEW x, NEW y, Joined(n, m, p, d, x, y), TreeNodes(n), Links(n),
         ~n[x].leaf => Len(n[x].children) = Len(n[x].values) + 1,
         SameLink(m[r], n[r]), NEW i \in Nat
  PROVE  SplitMoves(m, n, r, h, lo, hi, x, y, i)
<1>1. PICK w, s, a1, b, c, ca, cb, l, g, h2, lo2, hi2 :
        /\ w = m[x].values /\ s = n[p].values[d] /\ a1 = n[x].values /\ b = n[y].values
        /\ c = m[x].children /\ ca = n[x].children /\ cb = n[y].children /\ l = lo[x] /\ g = hi[x]
        /\ h2 = Extended(h, n, y, h[x]) /\ lo2 = Extended(lo, n, y, s) /\ hi2 = SplitHi(hi, n, x, y, s)
  OBVIOUS
<1>2. /\ y \notin DOMAIN m /\ DOMAIN n = DOMAIN m \cup {y} /\ x \in DOMAIN m /\ p \in DOMAIN m /\ x # p
      /\ \A z \in DOMAIN m \ {x, p} : SameBody(n[z], m[z])
      /\ n[x].leaf = m[x].leaf /\ n[y].leaf = m[x].leaf /\ ~n[p].leaf /\ ~m[p].leaf
      /\ IsJoin(w, a1, s, b) /\ IsConcat(c, ca, cb)
  BY <1>1 DEF Joined
<1>3. Sound(n, r, h2, lo2, hi2) /\ h[p] = h[x] + 1
  BY <1>1, SplitSound
<1>4. h[x] \in Nat
  BY <1>2 DEF Sound, Typed
<1>5. /\ lo2[x] = l /\ hi2[x] = s /\ lo2[y] = s /\ hi2[y] = g /\ h2[x] = h[x] /\ h2[y] = h[x]
  BY <1>1, <1>2 DEF Extended, SplitHi
<1>6. ASSUME NEW z \in DOMAIN m
      PROVE  /\ n[z].leaf = m[z].leaf
             /\ h[z] < h[x] => SameBody(m[z], n[z]) /\ h2[z] = h[z] /\ lo2[z] = lo[z] /\ hi2[z] = hi[z]
  <2>1. n[z].leaf = m[z].leaf
    <3>1. n[p].leaf \in BOOLEAN /\ m[p].leaf \in BOOLEAN
      BY <1>2 DEF Sound, Typed, TreeNodes, Node
    <3>2. n[p].leaf = m[p].leaf
      BY <1>2, <3>1
    <3> QED BY <1>2, <3>2 DEF SameBody
  <2>2. ASSUME h[z] < h[x]
        PROVE  SameBody(m[z], n[z]) /\ h2[z] = h[z] /\ lo2[z] = lo[z] /\ hi2[z] = hi[z]
    <3>1. z # x /\ z # y /\ z # p /\ z \in DOMAIN n
      BY <1>2, <1>3, <1>4, <2>2
    <3>2. h2[z] = h[z] /\ lo2[z] = lo[z] /\ hi2[z] = hi[z]
      BY <1>1, <3>1 DEF Extended, SplitHi
    <3>3. SameBody(n[z], m[z])
      BY <1>2, <3>1
    <3> QED BY <3>2, <3>3 DEF SameBody
  <2> QED BY <2>1, <2>2
<1>7. Stays(m, n, h, lo, hi, h2, lo2, hi2, h[x])
  BY <1>2, <1>6 DEF Stays
<1>8. ValuesOK(w, l, g)
  <2>1. ValuesOK(m[x].values, lo[x], hi[x])
    BY <1>2, ValuesOf
  <2> QED BY <1>1, <2>1
<1>9. ValuesOK(a1, l, s) /\ ValuesOK(b, s, g)
  <2>1. ValuesOK(n[x].values, lo2[x], hi2[x]) /\ ValuesOK(n[y].values, lo2[y], hi2[y])
    BY <1>2, <1>3, ValuesOf
  <2> QED BY <1>1, <1>5, <2>1
<1>10. ChildrenOK(n, r, h2, x) /\ ChildrenOK(n, r, h2, y)
  BY <1>2, <1>3, ChildrenAre
<1>11. /\ Len(ca) \in Nat /\ Len(cb) \in Nat
       /\ Len(ca) = Len(a1) + 1 \/ (Len(ca) = 0 /\ Len(cb) = 0)
  BY <1>1, <1>2, <1>10 DEF ChildrenOK
<1>12. Stood(w, a1, s, b, l, g, c, ca, cb)
  BY <1>2, <1>8, <1>9, <1>11 DEF Stood
<1>13. /\ i <= Len(a1) => Stands(w, l, g, c, i, a1, l, s, ca, i)
       /\ i > Len(a1) => Stands(w, l, g, c, i, b, s, g, cb, i - Len(a1) - 1)
  BY <1>12, StandsApart
<1>14. ASSUME NEW z \in {x, y}, NEW j,
              Stands(m[x].values, lo[x], hi[x], m[x].children, i,
                     n[z].values, lo2[z], hi2[z], n[z].children, j)
       PROVE  Follows(m, n, r, h, lo, hi, x, i, z, j)
  <2>1. Moves(m, n, r, h, lo, hi, h2, lo2, hi2, x, i, z, j)
    BY <1>2, <1>3, <1>5, <1>7, <1>14 DEF Moves
  <2> QED BY <2>1 DEF Follows
<1> QED BY <1>1, <1>5, <1>13, <1>14 DEF SplitMoves

\* What a tree n, in which nothing at the level of x and below has moved, makes of a place of
\* x is what the tree m, of which it comes, makes of it.
LEMMA FollowsAfter ==
  ASSUME NEW m, NEW r, NEW h, NEW lo, NEW hi, Typed(m, r, h, lo, hi), NEW x \in DOMAIN m,
         NEW n, NEW h2, NEW lo2, NEW hi2, Stays(m, n, h, lo, hi, h2, lo2, hi2, h[x] + 1),
         SameLink(m[r], n[r]),
         NEW q, NEW i, NEW z, NEW j, Follows(n, q, r, h2, lo2, hi2, x, i, z, j)
  PROVE  Follows(m, q, r, h, lo, hi, x, i, z, j)
<1>1. PICK h3, lo3, hi3 : Moves(n, q, r, h2, lo2, hi2, h3, lo3, hi3, x, i, z, j)
  BY DEF Follows
<1>2. h \in [DOMAIN m -> Nat] /\ h[x] \in Nat
  BY DEF Typed
<1>3. SameBody(m[x], n[x]) /\ h2[x] = h[x] /\ lo2[x] = lo[x] /\ hi2[x] = hi[x]
  BY <1>2 DEF Stays
<1>4. SameLink(m[r], q[r])
  BY <1>1 DEF Moves, SameLink
<1>5. Stays(m, q, h, lo, hi, h3, lo3, hi3, h[x])
  <2> SUFFICES ASSUME NEW y \in DOMAIN m
               PROVE  /\ y \in DOMAIN q /\ q[y].leaf = m[y].leaf
                      /\ h[y] < h[x] => /\ SameBody(m[y], q[y])
                                        /\ h3[y] = h[y] /\ lo3[y] = lo[y] /\ hi3[y] = hi[y]
    BY DEF Stays
  <2>1. y \in DOMAIN n /\ n[y].leaf = m[y].leaf
    BY DEF Stays
  <2>2. y \in DOMAIN q /\ q[y].leaf = n[y].leaf
    BY <1>1, <2>1 DEF Moves, Stays
  <2>3. ASSUME h[y] < h[x]
        PROVE  SameBody(m[y], q[y]) /\ h3[y] = h[y] /\ lo3[y] = lo[y] /\ hi3[y] = hi[y]
    <3>1. h[y] \in Nat /\ h[y] < h[x] + 1
      BY <1>2, <2>3
    <3>2. SameBody(m[y], n[y]) /\ h2[y] = h[y] /\ lo2[y] = lo[y] /\ hi2[y] = hi[y]
      BY <3>1 DEF Stays
    <3>3. Stays(n, q, h2, lo2, hi2, h3, lo3, hi3, h2[x])
      BY <1>1 DEF Moves
    <3>4. h2[y] < h2[x]
      BY <1>3, <2>3, <3>2
    <3>5. SameBody(n[y], q[y]) /\ h3[y] = h2[y] /\ lo3[y] = lo2[y] /\ hi3[y] = hi2[y]
      BY <2>1, <3>3, <3>4 DEF Stays
    <3> QED BY <3>2, <3>5 DEF SameBody
  <2> QED BY <2>1, <2>2, <2>3
<1>6. Moves(m, q, r, h, lo, hi, h3, lo3, hi3, x, i, z, j)
  <2>1. /\ Sound(q, r, h3, lo3, hi3) /\ z \in DOMAIN q /\ h3[z] = h2[x]
        /\ Stands(n[x].values, lo2[x], hi2[x], n[x].children, i,
                  q[z].values, lo3[z], hi3[z], q[z].children, j)
    BY <1>1 DEF Moves
  <2>2. m[x].values = n[x].values /\ m[x].children = n[x].children
    BY <1>3 DEF SameBody
  <2> QED BY <1>3, <1>4, <1>5, <2>1, <2>2 DEF Moves
<1> QED BY <1>6 DEF Follows
=============================================================================
