-------------------------- MODULE PageCache_proofs --------------------------
(***************************************************************************)
(* For any number of levels, pages, hashes and nodes: every page is at     *)
(* exactly one place, the lists and maps of the levels agree, flags never  *)
(* speak of an earlier owner's data, and no level is drained.              *)
(***************************************************************************)
EXTENDS PageCache, StructureLemmas

(***************************************************************************)
(* The invariant.  A page that is on its way from one place to another is  *)
(* "loose": the steps take it out of one place and put it into another.    *)
(***************************************************************************)
PageInfo == [hash : Hashes \cup {None}, contains_data : BOOLEAN, dirty : BOOLEAN]

Lists == [list  : [Levels -> Seq(Pages)],
          count : [Levels -> Nat],
          map   : [Levels -> [Hashes -> Pages \cup {None}]]]

\* IndexMatchesLru, with the map read from the page to its hash.
IndexOK(at, pages) ==
  \A l \in Levels :
    /\ IsInjective(at.list[l]) /\ at.count[l] = Len(at.list[l])
    /\ \A p \in ToSet(at.list[l]) :
         pages[p].hash \in Hashes /\ at.map[l][pages[p].hash] = p
    /\ \A h \in Hashes : at.map[l][h] # None =>
         at.map[l][h] \in ToSet(at.list[l]) /\ pages[at.map[l][h]].hash = h

\* No page is at two places.
Apart(list, free, node, loose) ==
  /\ IsInjective(free)
  /\ \A l, m \in Levels : \A p \in ToSet(list[l]) : p \in ToSet(list[m]) => l = m
  /\ \A l \in Levels : \A p \in ToSet(list[l]) : p \notin ToSet(free) /\ p \notin loose
  /\ \A n \in Nodes : /\ node[n] \notin ToSet(free) /\ node[n] \notin loose
                      /\ \A l \in Levels : node[n] \notin ToSet(list[l])
  /\ \A n, o \in Nodes : node[n] = node[o] /\ node[n] # None => n = o
  /\ \A p \in loose : p \notin ToSet(free)

\* The pages that are somewhere are those handed out so far.
Covered(list, free, node, used, loose) ==
  \A p \in Pages : p < used <=> \/ p \in loose \/ p \in ToSet(free)
                                \/ \E n \in Nodes : node[n] = p
                                \/ \E l \in Levels : p \in ToSet(list[l])

\* DataIsOfItsOwner, page by page.
DataOK(list, pages, data) ==
  \A l \in Levels : \A p \in ToSet(list[l]) :
    pages[p].contains_data \/ pages[p].dirty => data[p] = <<l, pages[p].hash>>

CacheInv ==
  /\ CacheTypeOK
  /\ IndexOK(Keep, used_pages)
  /\ Apart(lru, freelist, internel_node, {})
  /\ Covered(lru, freelist, internel_node, used_page_num, {})
  /\ DataOK(lru, used_pages, bytes)

\* MinimumKept, of one step.
NoneDrained ==
  \A l \in Levels : Len(lru[l]) >= min_pages[l] => Len(lru'[l]) >= min_pages[l]

-----------------------------------------------------------------------------
LEMMA CacheInvInit == CacheInit => CacheInv
<1> SUFFICES ASSUME CacheInit PROVE CacheInv
  OBVIOUS
<1> USE PageCacheAssumption
<1>1. CacheTypeOK
  BY DEF CacheInit, CacheTypeOK, Content, Levels
<1>2. ToSet(<< >>) = {} /\ IsInjective(<< >>)
  BY ElemsEmpty
<1>3. IndexOK(Keep, used_pages)
  BY <1>2 DEF CacheInit, IndexOK, Keep
<1>4. Apart(lru, freelist, internel_node, {})
  BY <1>2 DEF CacheInit, Apart
<1>5. Covered(lru, freelist, internel_node, used_page_num, {})
  BY <1>2 DEF CacheInit, Covered, Pages
<1>6. DataOK(lru, used_pages, bytes)
  BY <1>2 DEF CacheInit, DataOK
<1> QED BY <1>1, <1>3, <1>4, <1>5, <1>6 DEF CacheInv

-----------------------------------------------------------------------------
(* Where a page comes from. *)

LEMMA FreshLoosens ==
  ASSUME CacheInv, NEW p \in Pages, NewPage(p)
  PROVE  /\ freelist' \in Seq(Pages) /\ used_page_num' \in 0 .. page_num
         /\ Apart(lru, freelist', internel_node, {p})
         /\ Covered(lru, freelist', internel_node, used_page_num', {p})
<1> USE PageCacheAssumption
<1>1. /\ freelist \in Seq(Pages) /\ used_page_num \in 0 .. page_num
      /\ internel_node \in [Nodes -> Pages \cup {None}]
      /\ lru \in [Levels -> Seq(Pages)]
  BY DEF CacheInv, CacheTypeOK
<1>2. /\ Apart(lru, freelist, internel_node, {})
      /\ Covered(lru, freelist, internel_node, used_page_num, {})
  BY DEF CacheInv
<1>3. CASE FindInFreelist(p)
  <2>1. /\ freelist # << >> /\ p = Head(freelist) /\ freelist' = Tail(freelist)
        /\ used_page_num' = used_page_num
    BY <1>3 DEF FindInFreelist
  <2>2. /\ Tail(freelist) \in Seq(Pages)
        /\ ToSet(freelist) = {p} \cup ToSet(freelist')
        /\ IsInjective(freelist) => IsInjective(freelist') /\ p \notin ToSet(freelist')
    BY <1>1, <2>1, ElemsHeadTail
  <2>3. Apart(lru, freelist', internel_node, {p})
    BY <1>2, <2>2 DEF Apart
  <2>4. Covered(lru, freelist', internel_node, used_page_num', {p})
    BY <1>2, <2>1, <2>2 DEF Covered
  <2> QED BY <1>1, <2>1, <2>2, <2>3, <2>4
<1>4. CASE NeverUsed(p)
  <2>1. /\ p = used_page_num /\ freelist' = freelist /\ used_page_num < page_num
        /\ used_page_num' = used_page_num + 1
    BY <1>4 DEF NeverUsed
  <2>2. /\ p \notin ToSet(freelist) /\ \A n \in Nodes : internel_node[n] # p
        /\ \A l \in Levels : p \notin ToSet(lru[l])
    BY <1>1, <1>2, <2>1 DEF Covered
  <2>3. Apart(lru, freelist', internel_node, {p})
    BY <1>2, <2>1, <2>2 DEF Apart
  <2>4. \A q \in Pages : q < used_page_num' <=> q < used_page_num \/ q = p
    BY <1>1, <2>1 DEF Pages
  <2>5. Covered(lru, freelist', internel_node, used_page_num', {p})
    BY <1>2, <2>1, <2>4 DEF Covered
  <2> QED BY <1>1, <2>1, <2>3, <2>5
<1> QED BY <1>3, <1>4 DEF NewPage

\* What a level and its map look like once the oldest page is gone.
LEMMA LoseLoosens ==
  ASSUME CacheInv, NEW d \in Levels, lru[d] # << >>
  PROVE  /\ Oldest(d) \in ToSet(lru[d]) /\ Oldest(d) \in Pages
         /\ Lose(d) \in Lists /\ IndexOK(Lose(d), used_pages)
         /\ Apart(Lose(d).list, freelist, internel_node, {Oldest(d)})
         /\ Covered(Lose(d).list, freelist, internel_node, used_page_num, {Oldest(d)})
         /\ DataOK(Lose(d).list, used_pages, bytes)
         /\ \A l \in Levels : Len(Lose(d).list[l]) = IF l = d THEN Len(lru[l]) - 1 ELSE Len(lru[l])
         /\ \A l \in Levels : \A h \in Hashes :
              hash_to_page[l][h] = None => Lose(d).map[l][h] = None
<1> USE PageCacheAssumption
<1> DEFINE p == Oldest(d)
           g == used_pages[p].hash
<1>1. /\ lru \in [Levels -> Seq(Pages)] /\ usedlru \in [Levels -> Nat]
      /\ hash_to_page \in [Levels -> [Hashes -> Pages \cup {None}]]
      /\ internel_node \in [Nodes -> Pages \cup {None}]
  BY DEF CacheInv, CacheTypeOK
<1>2. lru[d] \in Seq(Pages)
  BY <1>1
<1>3. /\ p \in Pages /\ Front(lru[d]) \in Seq(Pages)
      /\ Len(Front(lru[d])) = Len(lru[d]) - 1
      /\ ToSet(lru[d]) = ToSet(Front(lru[d])) \cup {p}
      /\ IsInjective(lru[d]) => IsInjective(Front(lru[d])) /\ p \notin ToSet(Front(lru[d]))
  BY <1>2, ElemsFrontLast DEF Oldest
<1>4. IndexOK(Keep, used_pages)
  BY DEF CacheInv
<1>5. \A l \in Levels :
        /\ IsInjective(lru[l]) /\ usedlru[l] = Len(lru[l])
        /\ \A q \in ToSet(lru[l]) :
             used_pages[q].hash \in Hashes /\ hash_to_page[l][used_pages[q].hash] = q
        /\ \A h \in Hashes : hash_to_page[l][h] # None =>
             hash_to_page[l][h] \in ToSet(lru[l]) /\ used_pages[hash_to_page[l][h]].hash = h
  BY <1>4 DEF IndexOK, Keep
<1>6. g \in Hashes /\ hash_to_page[d][g] = p
  BY <1>3, <1>5
<1>7. PICK at : at = Lose(d)
  OBVIOUS
<1>8. /\ at.list = [lru EXCEPT ![d] = Front(lru[d])]
      /\ at.count = [usedlru EXCEPT ![d] = usedlru[d] - 1]
      /\ at.map = [hash_to_page EXCEPT ![d] = [hash_to_page[d] EXCEPT ![g] = None]]
      /\ at = [list |-> at.list, count |-> at.count, map |-> at.map]
  BY <1>7 DEF Lose, TreeDelete
<1> HIDE DEF p, g
<1>9. /\ at.list[d] = Front(lru[d]) /\ at.count[d] = usedlru[d] - 1
      /\ at.map[d] = [hash_to_page[d] EXCEPT ![g] = None]
      /\ \A l \in Levels \ {d} : /\ at.list[l] = lru[l] /\ at.count[l] = usedlru[l]
                                 /\ at.map[l] = hash_to_page[l]
  BY <1>1, <1>8
<1>10. \A h \in Hashes : at.map[d][h] = IF h = g THEN None ELSE hash_to_page[d][h]
  BY <1>1, <1>9
<1>11. at \in Lists
  <2>1. at.list \in [Levels -> Seq(Pages)]
    BY <1>1, <1>3, <1>8
  <2>2. Len(lru[d]) \in Nat /\ Len(lru[d]) # 0
    BY <1>2, EmptySeq, LenProperties
  <2>3. usedlru[d] = Len(lru[d])
    BY <1>5
  <2>4. at.count \in [Levels -> Nat]
    BY <1>1, <1>8, <2>2, <2>3
  <2>5. [hash_to_page[d] EXCEPT ![g] = None] \in [Hashes -> Pages \cup {None}]
    BY <1>1
  <2>6. at.map \in [Levels -> [Hashes -> Pages \cup {None}]]
    BY <1>1, <1>8, <2>5
  <2> QED BY <1>8, <2>1, <2>4, <2>6 DEF Lists
<1>12. IndexOK(at, used_pages)
  <2>1. /\ IsInjective(at.list[d]) /\ at.count[d] = Len(at.list[d])
    BY <1>3, <1>5, <1>9
  <2>2. ASSUME NEW q \in ToSet(at.list[d])
        PROVE  used_pages[q].hash \in Hashes /\ at.map[d][used_pages[q].hash] = q
    <3>1. q \in ToSet(lru[d]) /\ q # p
      BY <1>3, <1>5, <1>9, <2>2
    <3>2. used_pages[q].hash \in Hashes /\ hash_to_page[d][used_pages[q].hash] = q
      BY <1>5, <3>1
    <3>3. used_pages[q].hash # g
      BY <1>6, <3>1, <3>2
    <3> QED BY <1>10, <3>2, <3>3
  <2>3. ASSUME NEW h \in Hashes, at.map[d][h] # None
        PROVE  at.map[d][h] \in ToSet(at.list[d]) /\ used_pages[at.map[d][h]].hash = h
    <3>1. h # g /\ at.map[d][h] = hash_to_page[d][h]
      BY <1>10, <2>3
    <3>2. hash_to_page[d][h] \in ToSet(lru[d]) /\ used_pages[hash_to_page[d][h]].hash = h
      BY <1>5, <2>3, <3>1
    <3>3. hash_to_page[d][h] # p
      BY <3>1, <3>2 DEF g
    <3> QED BY <1>3, <1>9, <3>1, <3>2, <3>3
  <2>4. ASSUME NEW l \in Levels \ {d}
        PROVE  at.list[l] = lru[l] /\ at.count[l] = usedlru[l] /\ at.map[l] = hash_to_page[l]
    BY <1>9
  <2>5. ASSUME NEW l \in Levels \ {d}
        PROVE  /\ IsInjective(at.list[l]) /\ at.count[l] = Len(at.list[l])
               /\ \A q \in ToSet(at.list[l]) :
                    used_pages[q].hash \in Hashes /\ at.map[l][used_pages[q].hash] = q
               /\ \A h \in Hashes : at.map[l][h] # None =>
                    at.map[l][h] \in ToSet(at.list[l]) /\ used_pages[at.map[l][h]].hash = h
    BY <1>5, <2>4
  <2> QED BY <2>1, <2>2, <2>3, <2>5 DEF IndexOK
<1>13. \A l \in Levels : /\ ToSet(at.list[l]) \subseteq ToSet(lru[l]) /\ p \notin ToSet(at.list[l])
                         /\ ToSet(lru[l]) \subseteq ToSet(at.list[l]) \cup {p}
  <2>1. Apart(lru, freelist, internel_node, {})
    BY DEF CacheInv
  <2> QED BY <1>3, <1>5, <1>9, <2>1 DEF Apart
<1>14. Apart(at.list, freelist, internel_node, {p})
  <2>1. Apart(lru, freelist, internel_node, {})
    BY DEF CacheInv
  <2>2. p \in ToSet(lru[d])
    BY <1>3
  <2>3. /\ p \notin ToSet(freelist) /\ \A n \in Nodes : internel_node[n] # p
    BY <2>1, <2>2 DEF Apart
  <2>4. \A l \in Levels : \A q \in ToSet(at.list[l]) : q \in ToSet(lru[l]) /\ q # p
    BY <1>13
  <2>5. \A l, m \in Levels : \A q \in ToSet(at.list[l]) : q \in ToSet(at.list[m]) => l = m
    BY <2>1, <2>4 DEF Apart
  <2>6. \A l \in Levels : \A q \in ToSet(at.list[l]) : q \notin ToSet(freelist) /\ q \notin {p}
    BY <2>1, <2>4 DEF Apart
  <2>7. \A n \in Nodes : \A l \in Levels : internel_node[n] \notin ToSet(at.list[l])
    BY <2>1, <2>4 DEF Apart
  <2> QED BY <2>1, <2>3, <2>5, <2>6, <2>7 DEF Apart
<1>15. Covered(at.list, freelist, internel_node, used_page_num, {p})
  <2>1. Covered(lru, freelist, internel_node, used_page_num, {})
    BY DEF CacheInv
  <2>2. p \in ToSet(lru[d])
    BY <1>3
  <2> QED BY <1>13, <2>1, <2>2 DEF Covered
<1>16. DataOK(at.list, used_pages, bytes)
  BY <1>13 DEF DataOK, CacheInv
<1>17. \A l \in Levels : Len(at.list[l]) = IF l = d THEN Len(lru[l]) - 1 ELSE Len(lru[l])
  BY <1>3, <1>9
<1>18. \A l \in Levels : \A h \in Hashes : hash_to_page[l][h] = None => at.map[l][h] = None
  BY <1>9, <1>10
<1> QED BY <1>3, <1>7, <1>11, <1>12, <1>14, <1>15, <1>16, <1>17, <1>18 DEF p

-----------------------------------------------------------------------------
(* Where a page goes. *)

\* add_page_in_lru and tree_insert, for a page that was nowhere.
LEMMA EnterFixes ==
  ASSUME NEW at \in Lists, NEW l \in Levels, NEW h \in Hashes, NEW p \in Pages,
         NEW free, NEW node, NEW used,
         used_pages \in [Pages -> PageInfo],
         at.map[l][h] = None,
         IndexOK(at, used_pages), DataOK(at.list, used_pages, bytes),
         Apart(at.list, free, node, {p}), Covered(at.list, free, node, used, {p}),
         Enter(at, l, h, p)
  PROVE  /\ Keep' \in Lists /\ used_pages' \in [Pages -> PageInfo]
         /\ IndexOK(Keep', used_pages') /\ DataOK(lru', used_pages', bytes)
         /\ Apart(lru', free, node, {}) /\ Covered(lru', free, node, used, {})
         /\ \A m \in Levels : Len(lru'[m]) = IF m = l THEN Len(at.list[m]) + 1
                                                       ELSE Len(at.list[m])
<1> USE PageCacheAssumption
<1>1. /\ at.list \in [Levels -> Seq(Pages)] /\ at.count \in [Levels -> Nat]
      /\ at.map \in [Levels -> [Hashes -> Pages \cup {None}]]
  BY DEF Lists
<1>2. /\ lru' = [at.list EXCEPT ![l] = <<p>> \o at.list[l]]
      /\ usedlru' = [at.count EXCEPT ![l] = at.count[l] + 1]
      /\ hash_to_page' = [at.map EXCEPT ![l] = [at.map[l] EXCEPT ![h] = p]]
      /\ used_pages' = [used_pages EXCEPT ![p] = [hash |-> h, contains_data |-> FALSE,
                                                  dirty |-> FALSE]]
  BY DEF Enter, TreeInsert, Clean
<1>3. /\ <<p>> \o at.list[l] \in Seq(Pages)
      /\ Len(<<p>> \o at.list[l]) = Len(at.list[l]) + 1
      /\ ToSet(<<p>> \o at.list[l]) = ToSet(at.list[l]) \cup {p}
      /\ IsInjective(<<p>> \o at.list[l])
           <=> IsInjective(at.list[l]) /\ p \notin ToSet(at.list[l])
  BY <1>1, ElemsCons
<1>4. /\ lru'[l] = <<p>> \o at.list[l] /\ usedlru'[l] = at.count[l] + 1
      /\ \A g \in Hashes : hash_to_page'[l][g] = IF g = h THEN p ELSE at.map[l][g]
  BY <1>1, <1>2
<1>5. \A m \in Levels \ {l} : /\ lru'[m] = at.list[m] /\ usedlru'[m] = at.count[m]
                               /\ hash_to_page'[m] = at.map[m]
  BY <1>1, <1>2
<1>6. /\ used_pages'[p] = [hash |-> h, contains_data |-> FALSE, dirty |-> FALSE]
      /\ \A q \in Pages \ {p} : used_pages'[q] = used_pages[q]
      /\ used_pages' \in [Pages -> PageInfo]
  BY <1>2 DEF PageInfo
<1>7. Keep' \in Lists
  <2>1. [at.map[l] EXCEPT ![h] = p] \in [Hashes -> Pages \cup {None}]
    BY <1>1
  <2>2. hash_to_page' \in [Levels -> [Hashes -> Pages \cup {None}]]
    BY <1>1, <1>2, <2>1
  <2>3. lru' \in [Levels -> Seq(Pages)] /\ usedlru' \in [Levels -> Nat]
    BY <1>1, <1>2, <1>3
  <2> QED BY <2>2, <2>3 DEF Lists, Keep
<1>8. \A m \in Levels : \A q \in ToSet(at.list[m]) : q # p /\ q \in Pages
  <2>1. \A m \in Levels : p \notin ToSet(at.list[m])
    BY DEF Apart
  <2>2. \A m \in Levels : at.list[m] \in Seq(Pages)
    BY <1>1
  <2> QED BY <2>1, <2>2, ElemsOf
<1>9. \A m \in Levels : \A q : q \in ToSet(lru'[m]) <=> q \in ToSet(at.list[m]) \/ (m = l /\ q = p)
  BY <1>3, <1>4, <1>5
<1>10. IndexOK(Keep', used_pages')
  <2>1. \A m \in Levels : IsInjective(lru'[m]) /\ usedlru'[m] = Len(lru'[m])
    BY <1>3, <1>4, <1>5, <1>8 DEF IndexOK
  <2>2. ASSUME NEW m \in Levels, NEW q \in ToSet(lru'[m])
        PROVE  used_pages'[q].hash \in Hashes /\ hash_to_page'[m][used_pages'[q].hash] = q
    <3>1. CASE m = l /\ q = p
      BY <1>4, <1>6, <3>1
    <3>2. CASE q \in ToSet(at.list[m])
      <4>1. used_pages'[q] = used_pages[q] /\ q # p
        BY <1>6, <1>8, <3>2
      <4>2. used_pages[q].hash \in Hashes /\ at.map[m][used_pages[q].hash] = q
        BY <3>2 DEF IndexOK
      <4>3. m = l => used_pages[q].hash # h
        BY <1>8, <3>2, <4>2
      <4> QED BY <1>4, <1>5, <4>1, <4>2, <4>3
    <3> QED BY <1>9, <2>2, <3>1, <3>2
  <2>3. ASSUME NEW m \in Levels, NEW g \in Hashes, hash_to_page'[m][g] # None
        PROVE  /\ hash_to_page'[m][g] \in ToSet(lru'[m])
               /\ used_pages'[hash_to_page'[m][g]].hash = g
    <3>1. CASE m = l /\ g = h
      <4>1. hash_to_page'[m][g] = p
        BY <1>4, <3>1
      <4>2. p \in ToSet(lru'[m])
        BY <1>9, <3>1
      <4>3. used_pages'[p].hash = g
        BY <1>6, <3>1
      <4> QED BY <4>1, <4>2, <4>3
    <3>2. CASE ~(m = l /\ g = h)
      <4>1. hash_to_page'[m][g] = at.map[m][g]
        BY <1>4, <1>5, <3>2
      <4>2. at.map[m][g] \in ToSet(at.list[m]) /\ used_pages[at.map[m][g]].hash = g
        BY <2>3, <4>1 DEF IndexOK
      <4>3. used_pages'[at.map[m][g]] = used_pages[at.map[m][g]]
        BY <1>6, <1>8, <4>2
      <4> QED BY <1>9, <4>1, <4>2, <4>3
    <3> QED BY <3>1, <3>2
  <2> QED BY <2>1, <2>2, <2>3 DEF IndexOK, Keep
<1>11. DataOK(lru', used_pages', bytes)
  <2> SUFFICES ASSUME NEW m \in Levels, NEW q \in ToSet(lru'[m]),
                      used_pages'[q].contains_data \/ used_pages'[q].dirty
               PROVE  bytes[q] = <<m, used_pages'[q].hash>>
    BY DEF DataOK
  <2>1. q \in ToSet(at.list[m]) /\ q # p
    BY <1>6, <1>8, <1>9
  <2>2. used_pages'[q] = used_pages[q]
    BY <1>6, <1>8, <2>1
  <2> QED BY <2>1, <2>2 DEF DataOK
<1>12. Apart(lru', free, node, {})
  <2>1. \A m, k \in Levels : \A q \in ToSet(lru'[m]) : q \in ToSet(lru'[k]) => m = k
    BY <1>8, <1>9 DEF Apart
  <2>2. \A m \in Levels : \A q \in ToSet(lru'[m]) : q \notin ToSet(free)
    BY <1>9 DEF Apart
  <2>3. \A n \in Nodes : \A m \in Levels : node[n] \notin ToSet(lru'[m])
    BY <1>9 DEF Apart
  <2> QED BY <2>1, <2>2, <2>3 DEF Apart
<1>13. Covered(lru', free, node, used, {})
  BY <1>9 DEF Covered
<1>14. \A m \in Levels : Len(lru'[m]) = IF m = l THEN Len(at.list[m]) + 1 ELSE Len(at.list[m])
  BY <1>3, <1>4, <1>5
<1> QED BY <1>6, <1>7, <1>10, <1>11, <1>12, <1>13, <1>14

\* A page that was nowhere becomes that of a node.
LEMMA InsertFixes ==
  ASSUME NEW list \in [Levels -> Seq(Pages)], NEW n \in Nodes, NEW p \in Pages,
         NEW free, NEW used,
         internel_node \in [Nodes -> Pages \cup {None}], bytes \in [Pages -> Content],
         internel_node[n] = None, DataOK(list, used_pages, bytes),
         Apart(list, free, internel_node, {p}), Covered(list, free, internel_node, used, {p}),
         Insert(n, p)
  PROVE  /\ internel_node' \in [Nodes -> Pages \cup {None}] /\ bytes' \in [Pages -> Content]
         /\ DataOK(list, used_pages, bytes')
         /\ Apart(list, free, internel_node', {}) /\ Covered(list, free, internel_node', used, {})
<1> USE PageCacheAssumption
<1>1. /\ internel_node' = [internel_node EXCEPT ![n] = p]
      /\ bytes' = bytes \/ bytes' = [bytes EXCEPT ![p] = n]
  BY DEF Insert
<1>2. internel_node' \in [Nodes -> Pages \cup {None}] /\ bytes' \in [Pages -> Content]
  BY <1>1 DEF Content
<1>3. \A o \in Nodes : internel_node'[o] = IF o = n THEN p ELSE internel_node[o]
  BY <1>1
<1>4. \A q \in Pages \ {p} : bytes'[q] = bytes[q]
  BY <1>1
<1>5. \A l \in Levels : \A q \in ToSet(list[l]) : q # p /\ q \in Pages
  <2>1. \A l \in Levels : p \notin ToSet(list[l])
    BY DEF Apart
  <2>2. \A l \in Levels : list[l] \in Seq(Pages)
    OBVIOUS
  <2> QED BY <2>1, <2>2, ElemsOf
<1>6. DataOK(list, used_pages, bytes')
  BY <1>4, <1>5 DEF DataOK
<1>7. Apart(list, free, internel_node', {})
  <2>1. \A o \in Nodes : /\ internel_node'[o] \notin ToSet(free)
                         /\ \A l \in Levels : internel_node'[o] \notin ToSet(list[l])
    BY <1>3 DEF Apart
  <2>2. \A o \in Nodes : internel_node[o] # p
    BY DEF Apart
  <2>3. \A o, r \in Nodes : internel_node'[o] = internel_node'[r] /\ internel_node'[o] # None => o = r
    BY <1>3, <2>2 DEF Apart
  <2> QED BY <2>1, <2>3 DEF Apart
<1>8. Covered(list, free, internel_node', used, {})
  <2>1. \A q \in Pages : (\E o \in Nodes : internel_node'[o] = q)
                           <=> q = p \/ \E o \in Nodes : internel_node[o] = q
    BY <1>3
  <2> QED BY <2>1 DEF Covered
<1> QED BY <1>2, <1>6, <1>7, <1>8

-----------------------------------------------------------------------------
(* Levels that give. *)

LEMMA MaxOfBounded ==
  ASSUME NEW n \in Nat, NEW S \in SUBSET (0 .. n - 1), S # {}
  PROVE  Max(S) \in S
<1>1. PICK T : T = {n - x : x \in S}
  OBVIOUS
<1>2. T \subseteq Nat /\ T # {}
  <2>1. ASSUME NEW x \in S PROVE n - x \in Nat /\ n - x \in T
    <3>1. x \in 0 .. n - 1
      OBVIOUS
    <3> QED BY <1>1, <3>1
  <2> QED BY <1>1, <2>1
<1>3. \E x \in T : \A y \in T : ~ (<<y, x>> \in OpToRel(<, Nat))
  BY <1>2, NatLessThanWellFounded, WFMin
<1>4. PICK x \in T : \A y \in T : ~ (<<y, x>> \in OpToRel(<, Nat))
  BY <1>3
<1>5. \A y \in T : ~(y < x)
  BY <1>2, <1>4 DEF OpToRel
<1>6. PICK z \in S : x = n - z
  BY <1>1
<1>7. ASSUME NEW y \in S PROVE z >= y
  <2>1. n - y \in T
    BY <1>1
  <2>2. ~(n - y < n - z)
    BY <1>5, <1>6, <2>1
  <2>3. y \in 0 .. n - 1 /\ z \in 0 .. n - 1
    OBVIOUS
  <2> QED BY <2>2, <2>3
<1> QED BY <1>7 DEF Max

\* The donor has a page to give, and keeps its minimum.
LEMMA DonorCanGive ==
  ASSUME CacheInv, NEW l \in Levels, Donors(l) # {}
  PROVE  /\ Max(Donors(l)) \in Levels /\ lru[Max(Donors(l))] # << >>
         /\ Len(lru[Max(Donors(l))]) - 1 >= min_pages[Max(Donors(l))]
<1> USE PageCacheAssumption
<1>1. PICK d : d = Max(Donors(l))
  OBVIOUS
<1>2. Donors(l) \in SUBSET (0 .. nlevel - 1) /\ nlevel \in Nat
  BY DEF Donors, Levels
<1>3. d \in Donors(l)
  BY <1>1, <1>2, MaxOfBounded
<1>4. d \in Levels /\ usedlru[d] > min_pages[d] /\ min_pages[d] \in Nat \ {0}
  BY <1>3 DEF Donors
<1>5. usedlru[d] = Len(lru[d])
  BY <1>4 DEF CacheInv, IndexOK, Keep
<1>6. lru[d] \in Seq(Pages) /\ Len(lru[d]) \in Nat
  BY <1>4, LenProperties DEF CacheInv, CacheTypeOK
<1>7. Len(lru[d]) > min_pages[d] /\ Len(lru[d]) - 1 >= min_pages[d]
  BY <1>4, <1>5, <1>6
<1>8. lru[d] # << >>
  BY <1>4, <1>6, <1>7, EmptySeq
<1> QED BY <1>1, <1>4, <1>7, <1>8

-----------------------------------------------------------------------------
(* get_page *)

\* What the invariant says of single fields.
LEMMA CacheTypes ==
  ASSUME CacheInv
  PROVE  /\ Keep \in Lists /\ used_pages \in [Pages -> PageInfo]
         /\ bytes \in [Pages -> Content]
         /\ internel_node \in [Nodes -> Pages \cup {None}]
         /\ \A l \in Levels : Len(lru[l]) \in Nat /\ min_pages[l] \in Nat \ {0}
<1>1. /\ lru \in [Levels -> Seq(Pages)] /\ usedlru \in [Levels -> Nat]
      /\ hash_to_page \in [Levels -> [Hashes -> Pages \cup {None}]]
  BY DEF CacheInv, CacheTypeOK
<1>2. Keep \in Lists
  BY <1>1 DEF Keep, Lists
<1>3. \A l \in Levels : Len(lru[l]) \in Nat
  BY <1>1, LenProperties
<1> QED BY <1>2, <1>3, PageCacheAssumption DEF CacheInv, CacheTypeOK, PageInfo

\* A page from the front of another place: the types that are left.
LEMMA CacheInvFrom ==
  ASSUME Keep' \in Lists, used_pages' \in [Pages -> PageInfo],
         freelist' \in Seq(Pages), used_page_num' \in 0 .. page_num,
         internel_node' \in [Nodes -> Pages \cup {None}], bytes' \in [Pages -> Content],
         halted' \in {"no", "null_oldest", "assert"},
         IndexOK(Keep', used_pages'), DataOK(lru', used_pages', bytes'),
         Apart(lru', freelist', internel_node', {}),
         Covered(lru', freelist', internel_node', used_page_num', {})
  PROVE  CacheInv'
<1>1. /\ lru' \in [Levels -> Seq(Pages)] /\ usedlru' \in [Levels -> Nat]
      /\ hash_to_page' \in [Levels -> [Hashes -> Pages \cup {None}]]
  BY DEF Keep, Lists
<1> QED BY <1>1 DEF CacheInv, CacheTypeOK, PageInfo

LEMMA GetFreshKeeps ==
  ASSUME CacheInv, NEW l \in Levels, NEW h \in Hashes, GetFresh(l, h)
  PROVE  CacheInv' /\ NoneDrained
<1>1. PICK p \in Pages : NewPage(p) /\ Enter(Keep, l, h, p)
  BY DEF GetFresh
<1>2. UNCHANGED <<internel_node, bytes, halted>> /\ hash_to_page[l][h] = None
  BY DEF GetFresh, Cached, TreeLookup
<1>3. /\ Keep \in Lists /\ used_pages \in [Pages -> PageInfo]
      /\ bytes \in [Pages -> Content] /\ internel_node \in [Nodes -> Pages \cup {None}]
      /\ \A m \in Levels : Len(lru[m]) \in Nat /\ min_pages[m] \in Nat \ {0}
  BY CacheTypes
<1>4. /\ freelist' \in Seq(Pages) /\ used_page_num' \in 0 .. page_num
      /\ Apart(lru, freelist', internel_node, {p})
      /\ Covered(lru, freelist', internel_node, used_page_num', {p})
  BY <1>1, FreshLoosens
<1>5. Keep.list = lru /\ Keep.map = hash_to_page
  BY DEF Keep
<1>6. IndexOK(Keep, used_pages) /\ DataOK(lru, used_pages, bytes)
      /\ halted \in {"no", "null_oldest", "assert"}
  BY DEF CacheInv, CacheTypeOK
<1>7. /\ Keep' \in Lists /\ used_pages' \in [Pages -> PageInfo]
      /\ IndexOK(Keep', used_pages') /\ DataOK(lru', used_pages', bytes)
      /\ Apart(lru', freelist', internel_node, {})
      /\ Covered(lru', freelist', internel_node, used_page_num', {})
      /\ \A m \in Levels : Len(lru'[m]) = IF m = l THEN Len(lru[m]) + 1 ELSE Len(lru[m])
  BY <1>1, <1>2, <1>3, <1>4, <1>5, <1>6, EnterFixes
<1>8. CacheInv'
  BY <1>2, <1>3, <1>4, <1>6, <1>7, CacheInvFrom
<1>9. NoneDrained
  BY <1>3, <1>7 DEF NoneDrained
<1> QED BY <1>8, <1>9

\* The oldest page of one level becomes the newest of a level that lacks the hash.
LEMMA StealKeeps ==
  ASSUME CacheInv, NEW l \in Levels, NEW h \in Hashes, NEW d \in Levels,
         hash_to_page[l][h] = None, NoNewPage, lru[d] # << >>,
         Enter(Lose(d), l, h, Oldest(d)), UNCHANGED <<internel_node, bytes, halted>>
  PROVE  /\ CacheInv'
         /\ d = l \/ Len(lru[d]) - 1 >= min_pages[d] => NoneDrained
<1>1. freelist' = freelist /\ used_page_num' = used_page_num
  BY DEF NoNewPage
<1>2. /\ Keep \in Lists /\ used_pages \in [Pages -> PageInfo]
      /\ bytes \in [Pages -> Content] /\ internel_node \in [Nodes -> Pages \cup {None}]
      /\ \A m \in Levels : Len(lru[m]) \in Nat /\ min_pages[m] \in Nat \ {0}
  BY CacheTypes
<1>3. PICK at : at = Lose(d)
  OBVIOUS
<1>4. PICK p : p = Oldest(d)
  OBVIOUS
<1>5. /\ p \in Pages /\ at \in Lists /\ IndexOK(at, used_pages)
      /\ Apart(at.list, freelist, internel_node, {p})
      /\ Covered(at.list, freelist, internel_node, used_page_num, {p})
      /\ DataOK(at.list, used_pages, bytes)
      /\ \A m \in Levels : Len(at.list[m]) = IF m = d THEN Len(lru[m]) - 1 ELSE Len(lru[m])
      /\ at.map[l][h] = None
  BY <1>3, <1>4, LoseLoosens
<1>6. Enter(at, l, h, p)
  BY <1>3, <1>4
<1>7. /\ Keep' \in Lists /\ used_pages' \in [Pages -> PageInfo]
      /\ IndexOK(Keep', used_pages') /\ DataOK(lru', used_pages', bytes)
      /\ Apart(lru', freelist, internel_node, {})
      /\ Covered(lru', freelist, internel_node, used_page_num, {})
      /\ \A m \in Levels : Len(lru'[m]) = IF m = l THEN Len(at.list[m]) + 1
                                                    ELSE Len(at.list[m])
  BY <1>2, <1>5, <1>6, EnterFixes
<1>8. /\ freelist \in Seq(Pages) /\ used_page_num \in 0 .. page_num
      /\ halted \in {"no", "null_oldest", "assert"}
  BY DEF CacheInv, CacheTypeOK
<1>9. CacheInv'
  BY <1>1, <1>2, <1>7, <1>8, CacheInvFrom
<1>10. ASSUME d = l \/ Len(lru[d]) - 1 >= min_pages[d] PROVE NoneDrained
  <2> SUFFICES ASSUME NEW m \in Levels, Len(lru[m]) >= min_pages[m]
               PROVE  Len(lru'[m]) >= min_pages[m]
    BY DEF NoneDrained
  <2>1. PICK f, g, k : f = Len(lru[m]) /\ g = Len(at.list[m]) /\ k = Len(lru'[m])
    OBVIOUS
  <2>2. /\ f \in Nat /\ min_pages[m] \in Nat \ {0}
        /\ g = IF m = d THEN f - 1 ELSE f
        /\ k = IF m = l THEN g + 1 ELSE g
    BY <1>2, <1>5, <1>7, <2>1
  <2>3. k >= min_pages[m]
    BY <1>10, <2>1, <2>2
  <2> QED BY <2>1, <2>3
<1> QED BY <1>9, <1>10

LEMMA GetFromLevelKeeps ==
  ASSUME CacheInv, NEW l \in Levels, NEW h \in Hashes, GetFromLevel(l, h)
  PROVE  CacheInv' /\ NoneDrained
<1>1. PICK d : d = Max(Donors(l))
  OBVIOUS
<1>2. d \in Levels /\ lru[d] # << >> /\ Len(lru[d]) - 1 >= min_pages[d]
  BY <1>1, DonorCanGive DEF GetFromLevel
<1>3. /\ hash_to_page[l][h] = None /\ NoNewPage /\ Enter(Lose(d), l, h, Oldest(d))
      /\ UNCHANGED <<internel_node, bytes, halted>>
  BY <1>1 DEF GetFromLevel, Cached, TreeLookup
<1> QED BY <1>2, <1>3, StealKeeps

LEMMA MovedToFront ==
  ASSUME NEW S, NEW s \in Seq(S), IsInjective(s), NEW p \in ToSet(s)
  PROVE  /\ ToFront(s, p) \in Seq(S) /\ Len(ToFront(s, p)) = Len(s)
         /\ ToSet(ToFront(s, p)) = ToSet(s) /\ IsInjective(ToFront(s, p))
<1>1. PICK i : i = CHOOSE j \in DOMAIN s : s[j] = p
  OBVIOUS
<1>2. i \in 1 .. Len(s) /\ s[i] = p
  BY <1>1, LenProperties DEF ToSet
<1>3. PICK r : r = RemoveAt(s, i)
  OBVIOUS
<1>4. /\ r \in Seq(S) /\ Len(r) = Len(s) - 1 /\ p \in S
      /\ ToSet(s) = ToSet(r) \cup {p} /\ IsInjective(r) /\ p \notin ToSet(r)
  BY <1>2, <1>3, ElemsRemoveAt
<1>5. /\ <<p>> \o r \in Seq(S) /\ Len(<<p>> \o r) = Len(r) + 1
      /\ ToSet(<<p>> \o r) = ToSet(r) \cup {p}
      /\ IsInjective(<<p>> \o r) <=> IsInjective(r) /\ p \notin ToSet(r)
  BY <1>4, ElemsCons
<1>6. ToFront(s, p) = <<p>> \o r
  BY <1>1, <1>3 DEF ToFront
<1>7. Len(r) + 1 = Len(s)
  BY <1>4, LenProperties
<1> QED BY <1>4, <1>5, <1>6, <1>7

\* Moving the oldest page to the front is taking it out and putting it in.
LEMMA LastToFront ==
  ASSUME NEW S, NEW s \in Seq(S), IsInjective(s), s # << >>
  PROVE  ToFront(s, Last(s)) = <<Last(s)>> \o Front(s)
<1>1. Len(s) \in Nat \ {0} /\ DOMAIN s = 1 .. Len(s) /\ \A i \in 1 .. Len(s) : s[i] \in S
  BY EmptySeq, LenProperties, ElementOfSeq
<1>2. PICK i : i = CHOOSE j \in DOMAIN s : s[j] = Last(s)
  OBVIOUS
<1>3. Len(s) \in DOMAIN s /\ s[Len(s)] = Last(s)
  BY <1>1 DEF Last
<1>4. i \in DOMAIN s /\ s[i] = Last(s)
  BY <1>2, <1>3
<1>5. i = Len(s)
  BY <1>3, <1>4 DEF IsInjective
<1>6. ToFront(s, Last(s)) = <<Last(s)>> \o RemoveAt(s, Len(s))
  BY <1>2, <1>5 DEF ToFront
<1>7. SubSeq(s, Len(s) + 1, Len(s)) = << >>
  <2>1. Len(s) + 1 \in Int /\ Len(s) \in Int /\ Len(s) < Len(s) + 1
    BY <1>1
  <2> QED BY <2>1, SubSeqEmpty
<1>8. Front(s) \in Seq(S)
  BY ElemsFrontLast
<1>9. RemoveAt(s, Len(s)) = Front(s) \o << >>
  BY <1>7 DEF RemoveAt, Front
<1>10. Front(s) \o << >> = Front(s)
  BY <1>8, ConcatEmptySeq
<1> QED BY <1>6, <1>9, <1>10

LEMMA GetOldestKeeps ==
  ASSUME CacheInv, NEW l \in Levels, NEW h \in Hashes, GetOldest(l, h)
  PROVE  CacheInv' /\ NoneDrained
<1>1. PICK p : p = Oldest(l)
  OBVIOUS
<1>2. PICK g : g = used_pages[p].hash
  OBVIOUS
<1>3. /\ hash_to_page[l][h] = None /\ NoNewPage /\ lru[l] # << >>
      /\ lru' = [lru EXCEPT ![l] = ToFront(lru[l], p)]
      /\ hash_to_page' = [hash_to_page EXCEPT ![l] =
           TreeInsert(TreeDelete(hash_to_page[l], g), h, p)]
      /\ used_pages' = Clean(p, h)
      /\ UNCHANGED <<usedlru, internel_node, bytes, halted>>
  BY <1>1, <1>2 DEF GetOldest, Cached, TreeLookup, Bumped
<1>4. /\ lru \in [Levels -> Seq(Pages)] /\ usedlru \in [Levels -> Nat]
      /\ hash_to_page \in [Levels -> [Hashes -> Pages \cup {None}]]
      /\ IsInjective(lru[l])
  BY DEF CacheInv, CacheTypeOK, IndexOK, Keep
<1>5. PICK at : at = Lose(l)
  OBVIOUS
<1>6. /\ at.list = [lru EXCEPT ![l] = Front(lru[l])]
      /\ at.count = [usedlru EXCEPT ![l] = usedlru[l] - 1]
      /\ at.map = [hash_to_page EXCEPT ![l] = TreeDelete(hash_to_page[l], g)]
  BY <1>1, <1>2, <1>5 DEF Lose
<1>7. ToFront(lru[l], p) = <<p>> \o Front(lru[l])
  BY <1>1, <1>3, <1>4, LastToFront DEF Oldest
<1>8. lru' = [at.list EXCEPT ![l] = <<p>> \o at.list[l]]
  BY <1>3, <1>4, <1>6, <1>7
<1>9. usedlru' = [at.count EXCEPT ![l] = at.count[l] + 1]
  <2>1. usedlru[l] \in Nat /\ at.count[l] = usedlru[l] - 1
    BY <1>4, <1>6
  <2>2. at.count[l] + 1 = usedlru[l]
    BY <2>1
  <2>3. [at.count EXCEPT ![l] = at.count[l] + 1] = [usedlru EXCEPT ![l] = usedlru[l]]
    BY <1>4, <1>6, <2>2
  <2> QED BY <1>3, <1>4, <2>3
<1>10. hash_to_page' = [at.map EXCEPT ![l] = TreeInsert(at.map[l], h, p)]
  <2>1. at.map[l] = TreeDelete(hash_to_page[l], g)
    BY <1>4, <1>6
  <2> QED BY <1>3, <1>4, <1>6, <2>1
<1>11. Enter(Lose(l), l, h, Oldest(l))
  BY <1>1, <1>3, <1>5, <1>8, <1>9, <1>10 DEF Enter
<1> QED BY <1>3, <1>11, StealKeeps

LEMMA GetCachedKeeps ==
  ASSUME CacheInv, NEW l \in Levels, NEW h \in Hashes, GetCached(l, h)
  PROVE  CacheInv' /\ NoneDrained
<1> USE PageCacheAssumption
<1>1. PICK p : p = hash_to_page[l][h]
  OBVIOUS
<1>2. /\ p # None /\ lru' = [lru EXCEPT ![l] = ToFront(lru[l], p)]
      /\ UNCHANGED <<used_page_num, freelist, internel_node, usedlru, hash_to_page,
                     used_pages, bytes, halted>>
  BY <1>1 DEF GetCached, Cached, TreeLookup, Bumped
<1>3. /\ lru \in [Levels -> Seq(Pages)] /\ CacheTypeOK
      /\ IsInjective(lru[l]) /\ p \in ToSet(lru[l])
  BY <1>1, <1>2 DEF CacheInv, CacheTypeOK, IndexOK, Keep
<1>4. /\ ToFront(lru[l], p) \in Seq(Pages) /\ Len(ToFront(lru[l], p)) = Len(lru[l])
      /\ ToSet(ToFront(lru[l], p)) = ToSet(lru[l]) /\ IsInjective(ToFront(lru[l], p))
  BY <1>3, MovedToFront
<1>5. lru' \in [Levels -> Seq(Pages)]
  BY <1>2, <1>3, <1>4
<1>6. \A m \in Levels : lru'[m] = IF m = l THEN ToFront(lru[l], p) ELSE lru[m]
  BY <1>2, <1>3
<1>7. \A m \in Levels : Len(lru'[m]) = Len(lru[m])
  BY <1>4, <1>6
<1>8. \A m \in Levels : ToSet(lru'[m]) = ToSet(lru[m])
  BY <1>4, <1>6
<1>9. \A m \in Levels : IsInjective(lru[m]) => IsInjective(lru'[m])
  BY <1>4, <1>6
<1>10. CacheTypeOK'
  BY <1>2, <1>3, <1>5 DEF CacheTypeOK
<1>11. IndexOK(Keep', used_pages')
  BY <1>2, <1>7, <1>8, <1>9 DEF CacheInv, IndexOK, Keep
<1>12. Apart(lru', freelist', internel_node', {})
  BY <1>2, <1>8 DEF CacheInv, Apart
<1>13. Covered(lru', freelist', internel_node', used_page_num', {})
  BY <1>2, <1>8 DEF CacheInv, Covered
<1>14. DataOK(lru', used_pages', bytes')
  BY <1>2, <1>8 DEF CacheInv, DataOK
<1>15. NoneDrained
  BY <1>7 DEF NoneDrained
<1> QED BY <1>10, <1>11, <1>12, <1>13, <1>14, <1>15 DEF CacheInv

\* A step that leaves all but the flags and the data of one leaf alone.
LEMMA LeafKeeps ==
  ASSUME CacheInv, NEW l \in Levels, NEW h \in Hashes, Fill(l, h) \/ Write(l, h)
  PROVE  CacheInv' /\ NoneDrained
<1> USE PageCacheAssumption
<1>1. PICK p : p = hash_to_page[l][h]
  OBVIOUS
<1>2. /\ p # None
      /\ UNCHANGED <<used_page_num, freelist, internel_node, lru, usedlru, hash_to_page, halted>>
  BY <1>1 DEF Fill, Write
<1>3. /\ CacheTypeOK /\ p \in ToSet(lru[l]) /\ used_pages[p].hash = h /\ p \in Pages
      /\ used_pages \in [Pages -> PageInfo] /\ bytes \in [Pages -> Content]
  BY <1>1, <1>2 DEF CacheInv, CacheTypeOK, IndexOK, Keep, PageInfo
<1>4. \/ /\ bytes' = [bytes EXCEPT ![p] = <<l, h>>]
         /\ used_pages' = [used_pages EXCEPT ![p] = [used_pages[p] EXCEPT !.contains_data = TRUE]]
      \/ /\ bytes' = bytes /\ used_pages[p].contains_data
         /\ used_pages' = [used_pages EXCEPT ![p] = [used_pages[p] EXCEPT !.dirty = TRUE]]
  BY <1>1 DEF Fill, Write
<1>5. /\ used_pages' \in [Pages -> PageInfo] /\ bytes' \in [Pages -> Content]
      /\ used_pages'[p].hash = h /\ \A q \in Pages \ {p} : used_pages'[q] = used_pages[q]
  <2>1. PICK i : used_pages' = [used_pages EXCEPT ![p] = i] /\ i \in PageInfo /\ i.hash = h
    <3>1. used_pages[p] \in PageInfo
      BY <1>3
    <3>2. /\ [used_pages[p] EXCEPT !.contains_data = TRUE] \in PageInfo
          /\ [used_pages[p] EXCEPT !.contains_data = TRUE].hash = h
      BY <1>3, <3>1 DEF PageInfo
    <3>3. /\ [used_pages[p] EXCEPT !.dirty = TRUE] \in PageInfo
          /\ [used_pages[p] EXCEPT !.dirty = TRUE].hash = h
      BY <1>3, <3>1 DEF PageInfo
    <3> QED BY <1>4, <3>2, <3>3
  <2>2. used_pages' \in [Pages -> PageInfo]
    BY <1>3, <2>1
  <2>3. used_pages'[p].hash = h /\ \A q \in Pages \ {p} : used_pages'[q] = used_pages[q]
    BY <1>3, <2>1
  <2>4. <<l, h>> \in Content
    BY DEF Content
  <2>5. bytes' \in [Pages -> Content]
    BY <1>3, <1>4, <2>4
  <2> QED BY <2>2, <2>3, <2>5
<1>6. \A m \in Levels : \A q \in ToSet(lru[m]) : q \in Pages
  BY ElemsOf DEF CacheInv, CacheTypeOK
<1>7. \A q \in Pages : used_pages'[q].hash = used_pages[q].hash
  BY <1>3, <1>5
<1>8. CacheTypeOK'
  BY <1>2, <1>3, <1>5 DEF CacheTypeOK, PageInfo
<1>9. IndexOK(Keep', used_pages')
  BY <1>2, <1>6, <1>7 DEF CacheInv, IndexOK, Keep
<1>10. Apart(lru', freelist', internel_node', {})
  BY <1>2 DEF CacheInv
<1>11. Covered(lru', freelist', internel_node', used_page_num', {})
  BY <1>2 DEF CacheInv
<1>12. DataOK(lru', used_pages', bytes')
  <2>1. bytes'[p] = <<l, h>>
    BY <1>3, <1>4 DEF CacheInv, DataOK
  <2>2. \A q \in Pages \ {p} : bytes'[q] = bytes[q]
    BY <1>3, <1>4
  <2>3. \A m \in Levels : p \in ToSet(lru[m]) => m = l
    BY <1>3 DEF CacheInv, Apart
  <2> SUFFICES ASSUME NEW m \in Levels, NEW q \in ToSet(lru[m]),
                      used_pages'[q].contains_data \/ used_pages'[q].dirty
               PROVE  bytes'[q] = <<m, used_pages'[q].hash>>
    BY <1>2 DEF DataOK
  <2>4. CASE q = p
    BY <1>5, <2>1, <2>3, <2>4
  <2>5. CASE q # p
    BY <1>5, <1>6, <2>2, <2>5 DEF CacheInv, DataOK
  <2> QED BY <2>4, <2>5
<1>13. NoneDrained
  BY <1>2 DEF NoneDrained
<1> QED BY <1>8, <1>9, <1>10, <1>11, <1>12, <1>13 DEF CacheInv

\* The process stops; nothing is moved.
LEMMA HaltKeeps ==
  ASSUME CacheInv, UNCHANGED <<used_page_num, freelist, internel_node, lists, bytes>>,
         halted' \in {"no", "null_oldest", "assert"}
  PROVE  CacheInv' /\ NoneDrained
<1>1. UNCHANGED <<lru, usedlru, hash_to_page, used_pages>>
  BY DEF lists
<1>2. NoneDrained
  BY <1>1 DEF NoneDrained
<1>3. CacheTypeOK'
  BY <1>1 DEF CacheInv, CacheTypeOK
<1>4. Keep' = Keep
  BY <1>1 DEF Keep
<1> QED BY <1>1, <1>2, <1>3, <1>4 DEF CacheInv

LEMMA GetPageKeeps ==
  ASSUME CacheInv, NEW l \in Levels, NEW h \in Hashes, GetPage(l, h)
  PROVE  CacheInv' /\ NoneDrained
<1>1. CASE GetNull(l, h)
  BY <1>1, HaltKeeps DEF GetNull, NoNewPage
<1> QED BY <1>1, GetCachedKeeps, GetFreshKeeps, GetFromLevelKeeps, GetOldestKeeps DEF GetPage

-----------------------------------------------------------------------------
(* map_internal_node_page, and the node that is dropped. *)

LEMMA MapFreshKeeps ==
  ASSUME CacheInv, NEW n \in Nodes, MapFresh(n)
  PROVE  CacheInv' /\ NoneDrained
<1>1. PICK p \in Pages : NewPage(p) /\ Insert(n, p)
  BY DEF MapFresh
<1>2. /\ internel_node[n] = None /\ halted' = halted
      /\ UNCHANGED <<lru, usedlru, hash_to_page, used_pages>>
  BY DEF MapFresh, InternelNodeGet, lists
<1>3. /\ Keep \in Lists /\ used_pages \in [Pages -> PageInfo]
      /\ bytes \in [Pages -> Content] /\ internel_node \in [Nodes -> Pages \cup {None}]
  BY CacheTypes
<1>4. lru \in [Levels -> Seq(Pages)]
  BY <1>3 DEF Keep, Lists
<1>5. /\ freelist' \in Seq(Pages) /\ used_page_num' \in 0 .. page_num
      /\ Apart(lru, freelist', internel_node, {p})
      /\ Covered(lru, freelist', internel_node, used_page_num', {p})
  BY <1>1, FreshLoosens
<1>6. IndexOK(Keep, used_pages) /\ DataOK(lru, used_pages, bytes)
      /\ halted \in {"no", "null_oldest", "assert"}
  BY DEF CacheInv, CacheTypeOK
<1>7. /\ internel_node' \in [Nodes -> Pages \cup {None}] /\ bytes' \in [Pages -> Content]
      /\ DataOK(lru, used_pages, bytes') /\ Apart(lru, freelist', internel_node', {})
      /\ Covered(lru, freelist', internel_node', used_page_num', {})
  BY <1>1, <1>2, <1>3, <1>4, <1>5, <1>6, InsertFixes
<1>8. Keep' = Keep
  BY <1>2 DEF Keep
<1>9. CacheInv'
  BY <1>2, <1>3, <1>5, <1>6, <1>7, <1>8, CacheInvFrom
<1>10. NoneDrained
  BY <1>2 DEF NoneDrained
<1> QED BY <1>9, <1>10

LEMMA MapFromLevelKeeps ==
  ASSUME CacheInv, NEW n \in Nodes, MapFromLevel(n)
  PROVE  CacheInv' /\ NoneDrained
<1>1. PICK d : d = Max(Donors(0))
  OBVIOUS
<1>2. 0 \in Levels /\ Donors(0) # {}
  BY PageCacheAssumption DEF Levels, MapFromLevel
<1>3. d \in Levels /\ lru[d] # << >> /\ Len(lru[d]) - 1 >= min_pages[d]
  BY <1>1, <1>2, DonorCanGive
<1>4. PICK at : at = Lose(d)
  OBVIOUS
<1>5. PICK p : p = Oldest(d)
  OBVIOUS
<1>6. /\ internel_node[n] = None /\ freelist' = freelist /\ used_page_num' = used_page_num
      /\ Insert(n, p) /\ lru' = at.list /\ usedlru' = at.count /\ hash_to_page' = at.map
      /\ used_pages' = used_pages /\ halted' = halted
  BY <1>1, <1>4, <1>5 DEF MapFromLevel, InternelNodeGet, NoNewPage
<1>7. /\ p \in Pages /\ at \in Lists /\ IndexOK(at, used_pages)
      /\ Apart(at.list, freelist, internel_node, {p})
      /\ Covered(at.list, freelist, internel_node, used_page_num, {p})
      /\ DataOK(at.list, used_pages, bytes)
      /\ \A m \in Levels : Len(at.list[m]) = IF m = d THEN Len(lru[m]) - 1 ELSE Len(lru[m])
  BY <1>3, <1>4, <1>5, LoseLoosens
<1>8. /\ used_pages \in [Pages -> PageInfo] /\ bytes \in [Pages -> Content]
      /\ internel_node \in [Nodes -> Pages \cup {None}]
      /\ \A m \in Levels : Len(lru[m]) \in Nat /\ min_pages[m] \in Nat \ {0}
  BY CacheTypes
<1>9. at.list \in [Levels -> Seq(Pages)] /\ Keep' = at
  BY <1>6, <1>7 DEF Lists, Keep
<1>10. /\ internel_node' \in [Nodes -> Pages \cup {None}] /\ bytes' \in [Pages -> Content]
       /\ DataOK(at.list, used_pages, bytes') /\ Apart(at.list, freelist, internel_node', {})
       /\ Covered(at.list, freelist, internel_node', used_page_num, {})
  BY <1>6, <1>7, <1>8, <1>9, InsertFixes
<1>11. /\ freelist \in Seq(Pages) /\ used_page_num \in 0 .. page_num
       /\ halted \in {"no", "null_oldest", "assert"}
  BY DEF CacheInv, CacheTypeOK
<1>12. CacheInv'
  BY <1>6, <1>7, <1>8, <1>9, <1>10, <1>11, CacheInvFrom
<1>13. NoneDrained
  BY <1>3, <1>6, <1>7, <1>8 DEF NoneDrained
<1> QED BY <1>12, <1>13

LEMMA MapInternalNodeKeeps ==
  ASSUME CacheInv, NEW n \in Nodes, MapInternalNode(n)
  PROVE  CacheInv' /\ NoneDrained
<1>1. CASE MapAsserts(n)
  BY <1>1, HaltKeeps DEF MapAsserts, NoNewPage
<1> QED BY <1>1, MapFreshKeeps, MapFromLevelKeeps DEF MapInternalNode

LEMMA FreeNodeKeeps ==
  ASSUME CacheInv, NEW n \in Nodes, FreeNode(n)
  PROVE  CacheInv' /\ NoneDrained
<1> USE PageCacheAssumption
<1>1. PICK p : p = internel_node[n]
  OBVIOUS
<1>2. /\ p # None /\ freelist' = <<p>> \o freelist
      /\ internel_node' = [internel_node EXCEPT ![n] = None]
      /\ UNCHANGED <<used_page_num, lru, usedlru, hash_to_page, used_pages, bytes, halted>>
  BY <1>1 DEF FreeNode, lists
<1>3. /\ CacheTypeOK /\ internel_node \in [Nodes -> Pages \cup {None}]
      /\ freelist \in Seq(Pages) /\ lru \in [Levels -> Seq(Pages)] /\ p \in Pages
  BY <1>1, <1>2 DEF CacheInv, CacheTypeOK
<1>4. /\ <<p>> \o freelist \in Seq(Pages)
      /\ ToSet(<<p>> \o freelist) = ToSet(freelist) \cup {p}
      /\ IsInjective(<<p>> \o freelist) <=> IsInjective(freelist) /\ p \notin ToSet(freelist)
  BY <1>3, ElemsCons
<1>5. \A o \in Nodes : internel_node'[o] = IF o = n THEN None ELSE internel_node[o]
  BY <1>2, <1>3
<1>6. None \notin ToSet(<<p>> \o freelist) /\ \A l \in Levels : None \notin ToSet(lru[l])
  BY <1>3, <1>4, ElemsOf
<1>7. Apart(lru, freelist, internel_node, {})
  BY DEF CacheInv
<1>8. Apart(lru', freelist', internel_node', {})
  <2>1. IsInjective(freelist') /\ \A q : q \in ToSet(freelist') <=> q \in ToSet(freelist) \/ q = p
    BY <1>1, <1>2, <1>4, <1>7 DEF Apart
  <2>2. \A l \in Levels : \A q \in ToSet(lru[l]) : q \notin ToSet(freelist')
    BY <1>1, <1>7, <2>1 DEF Apart
  <2>3. \A o \in Nodes : /\ internel_node'[o] \notin ToSet(freelist')
                         /\ \A l \in Levels : internel_node'[o] \notin ToSet(lru[l])
    BY <1>1, <1>2, <1>5, <1>6, <1>7, <2>1 DEF Apart
  <2>4. \A o, r \in Nodes : internel_node'[o] = internel_node'[r] /\ internel_node'[o] # None => o = r
    BY <1>5, <1>7 DEF Apart
  <2>5. \A l, m \in Levels : \A q \in ToSet(lru[l]) : q \in ToSet(lru[m]) => l = m
    BY <1>7 DEF Apart
  <2> QED BY <1>2, <2>1, <2>2, <2>3, <2>4, <2>5 DEF Apart
<1>9. Covered(lru', freelist', internel_node', used_page_num', {})
  <2>1. \A q \in Pages : (\E o \in Nodes : internel_node[o] = q)
                           <=> q = p \/ \E o \in Nodes : internel_node'[o] = q
    BY <1>1, <1>5, <1>7, <1>2 DEF Apart
  <2>2. Covered(lru, freelist, internel_node, used_page_num, {})
    BY DEF CacheInv
  <2> QED BY <1>2, <1>4, <2>1, <2>2 DEF Covered
<1>10. CacheTypeOK'
  BY <1>2, <1>3, <1>4 DEF CacheTypeOK
<1>11. Keep' = Keep
  BY <1>2 DEF Keep
<1>12. CacheInv'
  BY <1>2, <1>8, <1>9, <1>10, <1>11 DEF CacheInv
<1>13. NoneDrained
  BY <1>2 DEF NoneDrained
<1> QED BY <1>12, <1>13

-----------------------------------------------------------------------------
LEMMA CacheInvNext == CacheInv /\ [CacheNext]_cacheVars => CacheInv' /\ NoneDrained
<1> SUFFICES ASSUME CacheInv, [CacheNext]_cacheVars PROVE CacheInv' /\ NoneDrained
  OBVIOUS
<1>1. ASSUME NEW l \in Levels, NEW h \in Hashes, GetPage(l, h) \/ Fill(l, h) \/ Write(l, h)
      PROVE  CacheInv' /\ NoneDrained
  BY <1>1, GetPageKeeps, LeafKeeps
<1>2. ASSUME NEW n \in Nodes, MapInternalNode(n) \/ FreeNode(n)
      PROVE  CacheInv' /\ NoneDrained
  BY <1>2, MapInternalNodeKeeps, FreeNodeKeeps
<1>3. CASE UNCHANGED cacheVars
  <2>1. halted \in {"no", "null_oldest", "assert"}
    BY DEF CacheInv, CacheTypeOK
  <2> QED BY <1>3, <2>1, HaltKeeps DEF cacheVars
<1> QED BY <1>1, <1>2, <1>3 DEF CacheNext

LEMMA CacheInvIsIndex == CacheInv => IndexMatchesLru
<1> SUFFICES ASSUME CacheInv PROVE IndexMatchesLru
  OBVIOUS
<1>1. \A l \in Levels :
        /\ usedlru[l] = Len(lru[l])
        /\ \A p \in ToSet(lru[l]) : hash_to_page[l][used_pages[p].hash] = p
        /\ \A h \in Hashes : hash_to_page[l][h] # None =>
             hash_to_page[l][h] \in ToSet(lru[l]) /\ used_pages[hash_to_page[l][h]].hash = h
  BY DEF CacheInv, IndexOK, Keep
<1> QED BY <1>1, PageCacheAssumption DEF IndexMatchesLru

LEMMA CacheInvIsData == CacheInv => DataIsOfItsOwner
<1> SUFFICES ASSUME CacheInv, NEW l \in Levels, NEW h \in Hashes, hash_to_page[l][h] # None,
                    \/ used_pages[hash_to_page[l][h]].contains_data
                    \/ used_pages[hash_to_page[l][h]].dirty
             PROVE  bytes[hash_to_page[l][h]] = <<l, h>>
  BY DEF DataIsOfItsOwner
<1>1. hash_to_page[l][h] \in ToSet(lru[l]) /\ used_pages[hash_to_page[l][h]].hash = h
  BY DEF CacheInv, IndexOK, Keep
<1> QED BY <1>1 DEF CacheInv, DataOK

-----------------------------------------------------------------------------
(* Counting: places apart from each other hold as many pages as there are  *)
(* entries.                                                                *)

MappedPages == {internel_node[n] : n \in Mapped}
ListedPages == {lru[e[1]][e[2]] : e \in OfLevels}

LEMMA PagesFinite == IsFiniteSet(Pages) /\ Cardinality(Pages) = page_num
<1>1. page_num \in Nat
  BY PageCacheAssumption
<1>2. IsFiniteSet(0 .. page_num - 1)
      /\ Cardinality(0 .. page_num - 1) = IF 0 > page_num - 1 THEN 0 ELSE page_num - 1 - 0 + 1
  BY <1>1, FS_Interval
<1> QED BY <1>1, <1>2 DEF Pages

\* The entries of the lists, by level and place.
LEMMA ListEntries ==
  ASSUME CacheInv
  PROVE  \A q : q \in ListedPages <=> \E l \in Levels : q \in ToSet(lru[l])
<1>1. ASSUME NEW l \in Levels
      PROVE  /\ Len(lru[l]) \in 0 .. page_num /\ DOMAIN lru[l] = 1 .. Len(lru[l])
  <2>1. lru[l] \in Seq(Pages) /\ IsInjective(lru[l])
    BY DEF CacheInv, CacheTypeOK, IndexOK, Keep
  <2>2. IsFiniteSet(ToSet(lru[l])) /\ Cardinality(ToSet(lru[l])) = Len(lru[l])
    BY <2>1, LengthIsCardinality
  <2>3. ToSet(lru[l]) \subseteq Pages
    BY <2>1, ElemsOf
  <2>4. Cardinality(ToSet(lru[l])) <= Cardinality(Pages)
    BY <2>3, PagesFinite, FS_Subset
  <2>5. Len(lru[l]) \in Nat /\ DOMAIN lru[l] = 1 .. Len(lru[l])
    BY <2>1, LenProperties
  <2> QED BY <2>2, <2>4, <2>5, PagesFinite, PageCacheAssumption
<1>2. ASSUME NEW l \in Levels, NEW q \in ToSet(lru[l]) PROVE q \in ListedPages
  <2>1. PICK i \in DOMAIN lru[l] : q = lru[l][i]
    BY DEF ToSet
  <2>2. i \in 1 .. page_num /\ i <= Len(lru[l])
    BY <1>1, PageCacheAssumption
  <2>3. <<l, i>> \in OfLevels
    BY <2>2 DEF OfLevels
  <2>4. <<l, i>>[1] = l /\ <<l, i>>[2] = i
    OBVIOUS
  <2> QED BY <2>1, <2>3, <2>4 DEF ListedPages
<1>3. ASSUME NEW q \in ListedPages PROVE \E l \in Levels : q \in ToSet(lru[l])
  <2>1. PICK e \in OfLevels : q = lru[e[1]][e[2]]
    BY DEF ListedPages
  <2>2. e[1] \in Levels /\ e[2] \in 1 .. page_num /\ e[2] <= Len(lru[e[1]])
    BY <2>1 DEF OfLevels
  <2>3. e[2] \in DOMAIN lru[e[1]]
    BY <1>1, <2>2
  <2> QED BY <2>1, <2>2, <2>3 DEF ToSet
<1> QED BY <1>2, <1>3

LEMMA ListsCounted ==
  ASSUME CacheInv
  PROVE  /\ ListedPages \subseteq Pages /\ IsFiniteSet(OfLevels)
         /\ Cardinality(OfLevels) = Cardinality(ListedPages)
<1>1. \A l \in Levels : lru[l] \in Seq(Pages) /\ IsInjective(lru[l])
  BY DEF CacheInv, CacheTypeOK, IndexOK, Keep
<1>2. ListedPages \subseteq Pages
  BY <1>1, ListEntries, ElemsOf
<1>3. IsFiniteSet(ListedPages)
  BY <1>2, PagesFinite, FS_Subset
<1>4. PICK f : f = [e \in OfLevels |-> lru[e[1]][e[2]]]
  OBVIOUS
<1>5. f \in Surjection(OfLevels, ListedPages)
  BY <1>4 DEF ListedPages, Surjection
<1>6. ASSUME NEW e \in OfLevels, NEW g \in OfLevels, f[e] = f[g] PROVE e = g
  <2>1. /\ e[1] \in Levels /\ e[2] \in 1 .. page_num /\ e[2] <= Len(lru[e[1]]) /\ e = <<e[1], e[2]>>
        /\ g[1] \in Levels /\ g[2] \in 1 .. page_num /\ g[2] <= Len(lru[g[1]]) /\ g = <<g[1], g[2]>>
    BY DEF OfLevels
  <2>2. e[2] \in DOMAIN lru[e[1]] /\ g[2] \in DOMAIN lru[g[1]]
    BY <1>1, <2>1, LenProperties
  <2>3. lru[e[1]][e[2]] = lru[g[1]][g[2]]
    BY <1>4, <1>6
  <2>4. lru[e[1]][e[2]] \in ToSet(lru[e[1]]) /\ lru[g[1]][g[2]] \in ToSet(lru[g[1]])
    BY <2>2 DEF ToSet
  <2>5. e[1] = g[1]
    BY <2>1, <2>3, <2>4 DEF CacheInv, Apart
  <2>6. e[2] = g[2]
    BY <1>1, <2>1, <2>2, <2>3, <2>5 DEF IsInjective
  <2> QED BY <2>1, <2>5, <2>6
<1>7. f \in Injection(OfLevels, ListedPages)
  BY <1>5, <1>6 DEF Surjection, Injection, IsInjective
<1> QED BY <1>2, <1>3, <1>5, <1>7, FS_Injection

LEMMA NodesCounted ==
  ASSUME CacheInv
  PROVE  /\ MappedPages \subseteq Pages /\ IsFiniteSet(Mapped)
         /\ Cardinality(Mapped) = Cardinality(MappedPages)
<1>1. MappedPages \subseteq Pages
  BY DEF CacheInv, CacheTypeOK, MappedPages, Mapped
<1>2. IsFiniteSet(MappedPages)
  BY <1>1, PagesFinite, FS_Subset
<1>3. PICK f : f = [n \in Mapped |-> internel_node[n]]
  OBVIOUS
<1>4. f \in Surjection(Mapped, MappedPages)
  BY <1>3 DEF MappedPages, Surjection
<1>5. \A n, o \in Mapped : f[n] = f[o] => n = o
  BY <1>3 DEF CacheInv, Apart, Mapped
<1>6. f \in Injection(Mapped, MappedPages)
  BY <1>4, <1>5 DEF Surjection, Injection, IsInjective
<1> QED BY <1>1, <1>2, <1>4, <1>6, FS_Injection

LEMMA CacheInvAccounts == CacheInv => PagesAccounted
<1> SUFFICES ASSUME CacheInv PROVE PagesAccounted
  OBVIOUS
<1>1. PICK F : F = ToSet(freelist)
  OBVIOUS
<1>2. /\ freelist \in Seq(Pages) /\ IsInjective(freelist) /\ used_page_num \in 0 .. page_num
      /\ page_num \in Nat
  BY PageCacheAssumption DEF CacheInv, CacheTypeOK, Apart
<1>3. F \subseteq Pages /\ IsFiniteSet(F) /\ Cardinality(F) = Len(freelist)
  BY <1>1, <1>2, ElemsOf, LengthIsCardinality
<1>4. /\ MappedPages \subseteq Pages /\ Cardinality(Mapped) = Cardinality(MappedPages)
      /\ ListedPages \subseteq Pages /\ Cardinality(OfLevels) = Cardinality(ListedPages)
  BY NodesCounted, ListsCounted
<1>5. IsFiniteSet(MappedPages) /\ IsFiniteSet(ListedPages)
  BY <1>4, PagesFinite, FS_Subset
<1>6. \A q : q \in ListedPages <=> \E l \in Levels : q \in ToSet(lru[l])
  BY ListEntries
<1>7. \A q \in Pages : q \in MappedPages <=> \E n \in Nodes : internel_node[n] = q
  BY PageCacheAssumption DEF MappedPages, Mapped
<1>8. F \cap MappedPages = {}
  BY <1>1 DEF MappedPages, Mapped, CacheInv, Apart
<1>9. (F \cup MappedPages) \cap ListedPages = {}
  <2>1. F \cap ListedPages = {}
    BY <1>1, <1>6 DEF CacheInv, Apart
  <2>2. MappedPages \cap ListedPages = {}
    BY <1>6 DEF MappedPages, Mapped, CacheInv, Apart
  <2> QED BY <2>1, <2>2
<1>10. F \cup MappedPages \cup ListedPages = 0 .. used_page_num - 1
  <2>1. \A q \in Pages : q < used_page_num <=> q \in F \cup MappedPages \cup ListedPages
    BY <1>1, <1>6, <1>7 DEF CacheInv, Covered
  <2>2. \A q : q \in 0 .. used_page_num - 1 <=> q \in Pages /\ q < used_page_num
    BY <1>2 DEF Pages
  <2> QED BY <1>3, <1>4, <2>1, <2>2
<1>11. /\ IsFiniteSet(F \cup MappedPages)
       /\ Cardinality(F \cup MappedPages) = Cardinality(F) + Cardinality(MappedPages)
  <2>1. /\ IsFiniteSet(F \cup MappedPages)
        /\ Cardinality(F \cup MappedPages)
              = Cardinality(F) + Cardinality(MappedPages) - Cardinality(F \cap MappedPages)
    BY <1>3, <1>5, FS_Union
  <2>2. Cardinality(F \cap MappedPages) = 0
    BY <1>8, FS_EmptySet
  <2>3. Cardinality(F) \in Nat /\ Cardinality(MappedPages) \in Nat
    BY <1>3, <1>5, FS_CardinalityType
  <2> QED BY <2>1, <2>2, <2>3
<1>12. Cardinality(F \cup MappedPages \cup ListedPages)
         = Cardinality(F) + Cardinality(MappedPages) + Cardinality(ListedPages)
  <2>1. Cardinality((F \cup MappedPages) \cup ListedPages)
          = Cardinality(F \cup MappedPages) + Cardinality(ListedPages)
              - Cardinality((F \cup MappedPages) \cap ListedPages)
    BY <1>5, <1>11, FS_Union
  <2>2. Cardinality((F \cup MappedPages) \cap ListedPages) = 0
    BY <1>9, FS_EmptySet
  <2>3. /\ Cardinality(F) \in Nat /\ Cardinality(MappedPages) \in Nat
        /\ Cardinality(ListedPages) \in Nat
    BY <1>3, <1>5, FS_CardinalityType
  <2> QED BY <1>11, <2>1, <2>2, <2>3
<1>13. Cardinality(0 .. used_page_num - 1) = used_page_num
  <2>1. Cardinality(0 .. used_page_num - 1)
          = IF 0 > used_page_num - 1 THEN 0 ELSE used_page_num - 1 - 0 + 1
    BY <1>2, FS_Interval
  <2> QED BY <1>2, <2>1
<1>14. Len(freelist) + Cardinality(Mapped) + Cardinality(OfLevels) = used_page_num
  BY <1>3, <1>4, <1>10, <1>12, <1>13
<1> QED BY <1>1, <1>10, <1>14 DEF PagesAccounted, MappedPages, ListedPages

-----------------------------------------------------------------------------
(* Where the process stopped: every page was handed out, and no level that *)
(* was asked had one to give.                                              *)

StoppedInv ==
  /\ halted # "no" => freelist = << >> /\ used_page_num >= page_num
  /\ halted = "assert" => \A m \in Levels : Len(lru[m]) <= min_pages[m]
  /\ halted = "null_oldest" =>
       \E l \in Levels : lru[l] = << >>
                         /\ \A m \in Levels : m >= l => Len(lru[m]) <= min_pages[m]

LEMMA NoDonor ==
  ASSUME CacheInv, NEW l \in Levels, Donors(l) = {}, NEW m \in Levels, m >= l
  PROVE  Len(lru[m]) <= min_pages[m]
<1>1. usedlru[m] = Len(lru[m]) /\ Len(lru[m]) \in Nat
  BY LenProperties DEF CacheInv, CacheTypeOK, IndexOK, Keep
<1>2. min_pages[m] \in Nat
  BY PageCacheAssumption
<1> QED BY <1>1, <1>2 DEF Donors

LEMMA StoppedNext ==
  ASSUME CacheInv, StoppedInv, [CacheNext]_cacheVars
  PROVE  StoppedInv'
<1>1. ASSUME NEW l \in Levels, NEW h \in Hashes, GetNull(l, h)
      PROVE  StoppedInv'
  BY <1>1, NoDonor DEF GetNull, NoNewPage, StoppedInv, lists
<1>2. ASSUME NEW n \in Nodes, MapAsserts(n)
      PROVE  StoppedInv'
  <2>1. 0 \in Levels /\ \A m \in Levels : m >= 0
    BY PageCacheAssumption DEF Levels
  <2> QED BY <1>2, <2>1, NoDonor DEF MapAsserts, NoNewPage, StoppedInv, lists
<1>3. CASE UNCHANGED cacheVars
  BY <1>3 DEF StoppedInv, cacheVars, lists
<1>4. ASSUME CacheNext, halted' = "no" PROVE StoppedInv'
  <2>1. halted' # "assert" /\ halted' # "null_oldest"
    BY <1>4
  <2> QED BY <1>4, <2>1, Zenon DEF StoppedInv
<1>5. ASSUME CacheNext
      PROVE  \/ halted' = "no"
             \/ \E l \in Levels, h \in Hashes : GetNull(l, h)
             \/ \E n \in Nodes : MapAsserts(n)
  BY <1>5 DEF CacheNext, GetPage, GetCached, GetFresh, GetFromLevel, GetOldest, Fill, Write,
              MapInternalNode, MapFresh, MapFromLevel, FreeNode
<1> QED BY <1>1, <1>2, <1>3, <1>4, <1>5

LEMMA ReservedFinite ==
  ASSUME NEW ls \in SUBSET Levels
  PROVE  IsFiniteSet(Reserved(ls))
<1>1. IsFiniteSet(Levels)
  <2>1. nlevel - 1 \in Int
    BY PageCacheAssumption
  <2> QED BY <2>1, FS_Interval DEF Levels
<1>2. IsFiniteSet(ls)
  BY <1>1, FS_Subset
<1>3. PICK T : T = {{l} \X (1 .. min_pages[l]) : l \in ls}
  OBVIOUS
<1>4. IsFiniteSet(T)
  <2>1. PICK f : f = [l \in ls |-> {l} \X (1 .. min_pages[l])]
    OBVIOUS
  <2>2. f \in Surjection(ls, T)
    BY <1>3, <2>1 DEF Surjection
  <2> QED BY <1>2, <2>2, FS_Surjection
<1>5. ASSUME NEW l \in ls PROVE IsFiniteSet({l} \X (1 .. min_pages[l]))
  <2>1. min_pages[l] \in Int
    BY PageCacheAssumption
  <2>2. IsFiniteSet(1 .. min_pages[l])
    <3>1. PICK b : b = min_pages[l]
      OBVIOUS
    <3>2. b \in Int /\ 1 \in Int
      BY <2>1, <3>1
    <3>3. IsFiniteSet(1 .. b)
      BY <3>2, FS_Interval, Zenon
    <3> QED BY <3>1, <3>3
  <2>3. IsFiniteSet({l})
    BY FS_Singleton
  <2> QED BY <2>2, <2>3, FS_Product
<1>6. \A t \in T : IsFiniteSet(t)
  BY <1>3, <1>5
<1> QED BY <1>3, <1>4, <1>6, FS_UNION DEF Reserved

\* The pages of a level that has no more than its minimum are among those that
\* it may keep.
LEMMA WithinReserved ==
  ASSUME CacheInv, NEW ls \in SUBSET Levels, \A m \in ls : Len(lru[m]) <= min_pages[m]
  PROVE  {e \in OfLevels : e[1] \in ls} \subseteq Reserved(ls)
<1> SUFFICES ASSUME NEW e \in OfLevels, e[1] \in ls PROVE e \in Reserved(ls)
  OBVIOUS
<1>1. /\ e[1] \in Levels /\ e[2] \in 1 .. page_num /\ e[2] <= Len(lru[e[1]])
      /\ e = <<e[1], e[2]>>
  BY DEF OfLevels
<1>2. Len(lru[e[1]]) \in Nat
  BY <1>1, LenProperties DEF CacheInv, CacheTypeOK
<1>3. min_pages[e[1]] \in Nat /\ page_num \in Nat
  BY <1>1, PageCacheAssumption
<1>4. e[2] \in 1 .. min_pages[e[1]]
  BY <1>1, <1>2, <1>3
<1>5. e \in {e[1]} \X (1 .. min_pages[e[1]])
  BY <1>1, <1>4
<1> QED BY <1>5 DEF Reserved

LEMMA StoppedIsStarved == CacheInv /\ StoppedInv => OnlyStarvedFails
<1> SUFFICES ASSUME CacheInv, StoppedInv PROVE OnlyStarvedFails
  OBVIOUS
<1>1. IsFiniteSet(OfLevels) /\ IsFiniteSet(Mapped)
  BY ListsCounted, NodesCounted
<1>2. Cardinality(OfLevels) \in Nat /\ Cardinality(Mapped) \in Nat /\ page_num \in Nat
  BY <1>1, FS_CardinalityType, PageCacheAssumption
<1>3. ASSUME halted # "no"
      PROVE  Cardinality(Mapped) + Cardinality(OfLevels) >= page_num
  <2>1. Len(freelist) + Cardinality(Mapped) + Cardinality(OfLevels) = used_page_num
    BY CacheInvAccounts DEF PagesAccounted
  <2>2. freelist = << >> /\ used_page_num >= page_num /\ used_page_num \in Int
    BY <1>3 DEF StoppedInv, CacheInv, CacheTypeOK
  <2>3. Len(freelist) = 0
    BY <2>2
  <2> QED BY <1>2, <2>1, <2>2, <2>3
<1>4. ASSUME NEW ls \in SUBSET Levels, \A m \in ls : Len(lru[m]) <= min_pages[m]
      PROVE  /\ IsFiniteSet({e \in OfLevels : e[1] \in ls})
             /\ Cardinality({e \in OfLevels : e[1] \in ls}) \in Nat
             /\ Cardinality(Reserved(ls)) \in Nat
             /\ Cardinality({e \in OfLevels : e[1] \in ls}) <= Cardinality(Reserved(ls))
  <2>1. {e \in OfLevels : e[1] \in ls} \subseteq Reserved(ls)
    BY <1>4, WithinReserved
  <2> QED BY <2>1, ReservedFinite, FS_Subset, FS_CardinalityType
<1>5. ASSUME halted = "assert"
      PROVE  Cardinality(Mapped) + Cardinality(Reserved(Levels)) >= page_num
  <2>1. \A m \in Levels : Len(lru[m]) <= min_pages[m]
    BY <1>5 DEF StoppedInv
  <2>2. {e \in OfLevels : e[1] \in Levels} = OfLevels
    BY DEF OfLevels
  <2> QED BY <1>2, <1>3, <1>4, <1>5, <2>1, <2>2
<1>6. ASSUME halted = "null_oldest"
      PROVE  \E l \in Levels :
               /\ lru[l] = << >>
               /\ Cardinality(Mapped) + Cardinality({e \in OfLevels : e[1] < l})
                    + Cardinality(Reserved(l + 1 .. nlevel - 1)) >= page_num
  <2>1. PICK l \in Levels : /\ lru[l] = << >>
                            /\ \A m \in Levels : m >= l => Len(lru[m]) <= min_pages[m]
    BY <1>6 DEF StoppedInv
  <2>2. PICK ls : ls = l + 1 .. nlevel - 1
    OBVIOUS
  <2>3. ls \subseteq Levels /\ \A m \in ls : Len(lru[m]) <= min_pages[m]
    BY <2>1, <2>2, PageCacheAssumption DEF Levels
  <2>4. PICK A, B : A = {e \in OfLevels : e[1] < l} /\ B = {e \in OfLevels : e[1] \in ls}
    OBVIOUS
  <2>5. OfLevels = A \cup B
    <3> SUFFICES ASSUME NEW e \in OfLevels PROVE e \in A \cup B
      BY <2>4
    <3>1. e[1] \in Levels /\ e[2] \in 1 .. page_num /\ e[2] <= Len(lru[e[1]])
      BY DEF OfLevels
    <3>2. e[1] # l
      BY <2>1, <3>1, <1>2
    <3>3. e[1] < l \/ e[1] \in ls
      BY <2>2, <3>1, <3>2, PageCacheAssumption DEF Levels
    <3> QED BY <2>4, <3>3
  <2>6. IsFiniteSet(A) /\ IsFiniteSet(B) /\ IsFiniteSet(A \cap B)
    BY <1>1, <2>4, FS_Subset
  <2>7. /\ Cardinality(A) \in Nat /\ Cardinality(B) \in Nat /\ Cardinality(A \cap B) \in Nat
        /\ Cardinality(A \cup B) = Cardinality(A) + Cardinality(B) - Cardinality(A \cap B)
    BY <2>6, FS_CardinalityType, FS_Union
  <2>8. Cardinality(B) <= Cardinality(Reserved(ls)) /\ Cardinality(Reserved(ls)) \in Nat
    BY <1>4, <2>3, <2>4
  <2>9. Cardinality(Mapped) + Cardinality(A) + Cardinality(Reserved(ls)) >= page_num
    BY <1>2, <1>3, <1>6, <2>5, <2>7, <2>8
  <2> QED BY <2>1, <2>2, <2>4, <2>9
<1> QED BY <1>5, <1>6 DEF OnlyStarvedFails

-----------------------------------------------------------------------------
LEMMA CacheAlways == CacheSpec => []CacheInv
<1>1. CacheInv /\ [CacheNext]_cacheVars => CacheInv'
  BY CacheInvNext
<1> QED BY CacheInvInit, <1>1, PTL DEF CacheSpec

\* Every page handed out is free, the page of one node or in the list of one
\* level: get_page and map_internal_node_page never use a stolen page twice.
THEOREM CachePagesAccounted == CacheSpec => []PagesAccounted
  BY CacheAlways, CacheInvAccounts, PTL

\* The assertion of get_page: map, list and count of every level agree.
THEOREM CacheIndexMatchesLru == CacheSpec => []IndexMatchesLru
  BY CacheAlways, CacheInvIsIndex, PTL

\* A flag that an earlier owner of a page left never makes the page pass for the
\* data of another leaf.
THEOREM CacheDataIsOfItsOwner == CacheSpec => []DataIsOfItsOwner
  BY CacheAlways, CacheInvIsData, PTL

\* No level is drained below its minimum by other levels or internal nodes.
THEOREM CacheMinimumKept == CacheSpec => MinimumKept
<1>1. CacheInv /\ [CacheNext]_cacheVars =>
        [\A l \in Levels : Len(lru[l]) >= min_pages[l] => Len(lru'[l]) >= min_pages[l]]_cacheVars
  BY CacheInvNext DEF NoneDrained
<1> QED BY CacheAlways, <1>1, PTL DEF CacheSpec, MinimumKept

\* get_page follows a NULL only when the internal nodes and the earlier levels hold
\* all pages but those the later levels may keep, and the assertion of
\* map_internal_node_page fails only when the nodes and the minima of all levels
\* take up all pages.
THEOREM CacheOnlyStarvedFails == CacheSpec => []OnlyStarvedFails
<1>1. CacheInit => StoppedInv
  BY DEF CacheInit, StoppedInv
<1>2. CacheInv /\ StoppedInv /\ [CacheNext]_cacheVars => StoppedInv'
  BY StoppedNext
<1> QED BY CacheAlways, <1>1, <1>2, StoppedIsStarved, PTL DEF CacheSpec

\* Every variable of the cache keeps its type.
THEOREM CacheTypesKept == CacheSpec => []CacheTypeOK
<1>1. CacheInv => CacheTypeOK
  BY DEF CacheInv
<1> QED BY CacheAlways, <1>1, PTL
=============================================================================
