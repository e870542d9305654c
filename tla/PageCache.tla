------------------------------ MODULE PageCache ------------------------------
(***************************************************************************)
(* The page cache of the B+ tree index (src/pagecache.c): page_num pages    *)
(* shared by the levels of leaves, each with its own LRU list and its own   *)
(* map from hashes to pages, and by the internal nodes, which are never     *)
(* evicted.  One worker owns the cache: its operations are atomic.          *)
(*                                                                          *)
(* A struct lru is identified with its page: used_pages[p].  The code of    *)
(* add_page_in_lru and bump_page_in_lru is not in the repository: as their   *)
(* calls require, the first puts a page at the newest end of a level's list *)
(* and counts it, the second moves it there.  The btree behind hash_to_page *)
(* is a map (src/btree/btree.cc over the vendored cpp-btree).               *)
(***************************************************************************)
EXTENDS Integers, Sequences, FiniteSets, FiniteSetsExt, SequencesExt

CONSTANTS
  nlevel,       \* levels of leaves, 0 the first to be served
  page_num,     \* pages of cached_data
  min_pages,    \* the pages a level keeps once it has them
  Hashes,       \* hashes of leaves
  Nodes,        \* indices of internal nodes
  None

Levels == 0 .. nlevel - 1
Pages  == 0 .. page_num - 1

ASSUME PageCacheAssumption ==
  /\ nlevel \in Nat \ {0} /\ page_num \in Nat
  /\ min_pages \in [Levels -> Nat \ {0}]
  /\ None \notin Pages /\ None \notin Hashes

VARIABLES
  used_page_num,  \* pages ever handed out
  freelist,       \* pages given back, freelisthead first
  internel_node,  \* the page of each internal node
  lru,            \* the list of each level, newest_page first
  usedlru,        \* the count each level keeps of its list
  hash_to_page,   \* the map of each level
  used_pages,     \* struct lru: hash and flags of each page
  bytes,          \* whose data the memory of a page holds
  halted          \* the process stopped here, or "no"

lists == <<lru, usedlru, hash_to_page, used_pages>>
cacheVars  == <<used_page_num, freelist, internel_node, lists, bytes, halted>>

Content == (Levels \X Hashes) \cup Nodes \cup {None}

CacheTypeOK ==
  /\ used_page_num \in 0 .. page_num
  /\ freelist \in Seq(Pages)
  /\ internel_node \in [Nodes -> Pages \cup {None}]
  /\ lru \in [Levels -> Seq(Pages)]
  /\ usedlru \in [Levels -> Nat]
  /\ hash_to_page \in [Levels -> [Hashes -> Pages \cup {None}]]
  /\ used_pages \in [Pages -> [hash : Hashes \cup {None}, contains_data : BOOLEAN,
                               dirty : BOOLEAN]]
  /\ bytes \in [Pages -> Content]
  /\ halted \in {"no", "null_oldest", "assert"}

CacheInit ==
  /\ used_page_num = 0 /\ freelist = << >>
  /\ internel_node = [n \in Nodes |-> None]
  /\ lru = [l \in Levels |-> << >>] /\ usedlru = [l \in Levels |-> 0]
  /\ hash_to_page = [l \in Levels |-> [h \in Hashes |-> None]]
  /\ used_pages = [p \in Pages |-> [hash |-> None, contains_data |-> FALSE,
                                    dirty |-> FALSE]]
  /\ bytes = [p \in Pages |-> None]
  /\ halted = "no"

-----------------------------------------------------------------------------
(* The map of a level, by its operations.                                   *)

TreeLookup(tree, h) == tree[h]

TreeDelete(tree, h) == [tree EXCEPT ![h] = None]

\* The insert of the btree map keeps the entry of a hash that it has.
TreeInsert(tree, h, p) == IF tree[h] = None THEN [tree EXCEPT ![h] = p] ELSE tree

-----------------------------------------------------------------------------
(* Where a page comes from, in the order the code tries.                    *)

\* Bug: freelistnum is not brought down, and the head is given again.
FindInFreelistAgain(p) ==
  /\ freelist # << >> /\ p = Head(freelist)
  /\ UNCHANGED <<freelist, used_page_num>>

FindInFreelist(p) ==
  /\ freelist # << >> /\ p = Head(freelist)
  /\ freelist' = Tail(freelist)
  /\ UNCHANGED used_page_num

\* Bug: the page is counted by add_page_in_lru and again by its caller.
NeverUsedTwice(p) ==
  /\ freelist = << >> /\ used_page_num < page_num /\ p = used_page_num
  /\ used_page_num' = used_page_num + 2
  /\ UNCHANGED freelist

NeverUsed(p) ==
  /\ freelist = << >> /\ used_page_num < page_num /\ p = used_page_num
  /\ used_page_num' = used_page_num + 1
  /\ UNCHANGED freelist

NewPage(p) == FindInFreelist(p) \/ NeverUsed(p)

NoNewPage == freelist = << >> /\ used_page_num >= page_num /\ UNCHANGED <<used_page_num, freelist>>

\* Bugs: a level gives a page of its minimum; the deeper levels are not asked.
DonorsAtMinimum(level) == {l \in Levels : l >= level /\ usedlru[l] >= min_pages[l]}
DonorsHere(level) == {l \in {level} : usedlru[l] > min_pages[l]}

\* find_in_lower_level asks the deepest level first, down to the given one.
Donors(level) == {l \in Levels : l >= level /\ usedlru[l] > min_pages[l]}

Oldest(l) == Last(lru[l])

\* Bug: the map keeps the evicted hash.
LoseKeepsHash(l) == [list  |-> [lru EXCEPT ![l] = Front(@)],
                     count |-> [usedlru EXCEPT ![l] = @ - 1],
                     map   |-> hash_to_page]

\* The lists once level l has lost its oldest page, dirty or not: writing it
\* back is "to do".
Lose(l) == [list  |-> [lru EXCEPT ![l] = Front(@)],
            count |-> [usedlru EXCEPT ![l] = @ - 1],
            map   |-> [hash_to_page EXCEPT ![l] = TreeDelete(@, used_pages[Oldest(l)].hash)]]

Keep == [list |-> lru, count |-> usedlru, map |-> hash_to_page]

-----------------------------------------------------------------------------
(* get_page *)

Cached(l, h) == TreeLookup(hash_to_page[l], h) # None

\* External: bump_page_in_lru.
ToFront(s, p) == <<p>> \o RemoveAt(s, CHOOSE i \in DOMAIN s : s[i] = p)

Bumped(list, l, p) == [list EXCEPT ![l] = ToFront(@, p)]

GetCached(l, h) ==
  /\ Cached(l, h)
  /\ lru' = Bumped(lru, l, hash_to_page[l][h])
  /\ UNCHANGED <<used_page_num, freelist, internel_node, usedlru, hash_to_page,
                 used_pages, bytes, halted>>

\* Bug: the flags of the page are left as its last owner set them.
CleanHashOnly(p, h) == [used_pages EXCEPT ![p].hash = h]

\* contains_data and dirty are reset, whatever the page was used for.
Clean(p, h) == [used_pages EXCEPT ![p] = [hash |-> h, contains_data |-> FALSE,
                                          dirty |-> FALSE]]

\* add_page_in_lru (external) and tree_insert.
Enter(at, l, h, p) ==
  /\ lru' = [at.list EXCEPT ![l] = <<p>> \o @]
  /\ usedlru' = [at.count EXCEPT ![l] = @ + 1]
  /\ hash_to_page' = [at.map EXCEPT ![l] = TreeInsert(@, h, p)]
  /\ used_pages' = Clean(p, h)

GetFresh(l, h) ==
  /\ ~Cached(l, h)
  /\ \E p \in Pages : NewPage(p) /\ Enter(Keep, l, h, p)
  /\ UNCHANGED <<internel_node, bytes, halted>>

GetFromLevel(l, h) ==
  /\ ~Cached(l, h) /\ NoNewPage /\ Donors(l) # {}
  /\ LET d == Max(Donors(l)) IN Enter(Lose(d), l, h, Oldest(d))
  /\ UNCHANGED <<internel_node, bytes, halted>>

\* The level is at its minimum, and reuses its own oldest page in place.
GetOldest(l, h) ==
  /\ ~Cached(l, h) /\ NoNewPage /\ Donors(l) = {} /\ lru[l] # << >>
  /\ LET p == Oldest(l)
     IN  /\ lru' = Bumped(lru, l, p)
         /\ hash_to_page' = [hash_to_page EXCEPT ![l] =
              TreeInsert(TreeDelete(@, used_pages[p].hash), h, p)]
         /\ used_pages' = Clean(p, h)
  /\ UNCHANGED <<usedlru, internel_node, bytes, halted>>

\* plevel->oldest_page is NULL and is followed.
GetNull(l, h) ==
  /\ ~Cached(l, h) /\ NoNewPage /\ Donors(l) = {} /\ lru[l] = << >>
  /\ halted' = "null_oldest"
  /\ UNCHANGED <<internel_node, lists, bytes>>

GetPage(l, h) ==
  GetCached(l, h) \/ GetFresh(l, h) \/ GetFromLevel(l, h) \/ GetOldest(l, h) \/ GetNull(l, h)

\* External: the caller of get_page, told that the page lacks the data, reads
\* it before the worker does anything else with the cache; later it may write.
Fill(l, h) ==
  LET p == hash_to_page[l][h]
  IN  /\ p # None /\ ~used_pages[p].contains_data
      /\ bytes' = [bytes EXCEPT ![p] = <<l, h>>]
      /\ used_pages' = [used_pages EXCEPT ![p].contains_data = TRUE]
      /\ UNCHANGED <<used_page_num, freelist, internel_node, lru, usedlru,
                     hash_to_page, halted>>

Write(l, h) ==
  LET p == hash_to_page[l][h]
  IN  /\ p # None /\ used_pages[p].contains_data /\ ~used_pages[p].dirty
      /\ used_pages' = [used_pages EXCEPT ![p].dirty = TRUE]
      /\ UNCHANGED <<used_page_num, freelist, internel_node, lru, usedlru,
                     hash_to_page, bytes, halted>>

-----------------------------------------------------------------------------
(* Internal nodes: map_internal_node_page, and map_internal_node (bpt.c),   *)
(* which reads the node when its page is new.  A node that is mapped stays   *)
(* as it is, so the call that finds it changes nothing.                      *)

InternelNodeGet(n) == internel_node[n]

\* The node is inserted first, and read next: the read may fail.
Insert(n, p) ==
  /\ internel_node' = [internel_node EXCEPT ![n] = p]
  /\ bytes' \in {bytes, [bytes EXCEPT ![p] = n]}

MapFresh(n) ==
  /\ InternelNodeGet(n) = None
  /\ \E p \in Pages : NewPage(p) /\ Insert(n, p)
  /\ UNCHANGED <<lists, halted>>

MapFromLevel(n) ==
  /\ InternelNodeGet(n) = None /\ NoNewPage /\ Donors(0) # {}
  /\ LET d == Max(Donors(0))
     IN  /\ Insert(n, Oldest(d))
         /\ lru' = Lose(d).list /\ usedlru' = Lose(d).count /\ hash_to_page' = Lose(d).map
  /\ UNCHANGED <<used_pages, halted>>

\* assert(0)
MapAsserts(n) ==
  /\ InternelNodeGet(n) = None /\ NoNewPage /\ Donors(0) = {}
  /\ halted' = "assert"
  /\ UNCHANGED <<internel_node, lists, bytes>>

MapInternalNode(n) == MapFresh(n) \/ MapFromLevel(n) \/ MapAsserts(n)

\* External: the tree drops a node and gives its page to the free list.
FreeNode(n) ==
  /\ internel_node[n] # None
  /\ freelist' = <<internel_node[n]>> \o freelist
  /\ internel_node' = [internel_node EXCEPT ![n] = None]
  /\ UNCHANGED <<used_page_num, lists, bytes, halted>>

-----------------------------------------------------------------------------
CacheNext ==
  /\ halted = "no"
  /\ \/ \E l \in Levels, h \in Hashes : GetPage(l, h) \/ Fill(l, h) \/ Write(l, h)
     \/ \E n \in Nodes : MapInternalNode(n) \/ FreeNode(n)

CacheSpec == CacheInit /\ [][CacheNext]_cacheVars

-----------------------------------------------------------------------------
OfLevels == {e \in Levels \X (1 .. page_num) : e[2] <= Len(lru[e[1]])}
Mapped   == {n \in Nodes : internel_node[n] # None}

\* The pages that the levels ls may keep, one by one.
Reserved(ls) == UNION {{l} \X (1 .. min_pages[l]) : l \in ls}

\* Every page handed out is at exactly one place: free, the page of one internal
\* node, or in the list of one level.  A page stolen from a level by get_page or
\* map_internal_node_page is never in use twice.
PagesAccounted ==
  LET listed == {lru[e[1]][e[2]] : e \in OfLevels}
      mapped == {internel_node[n] : n \in Mapped}
      free   == ToSet(freelist)
  IN  /\ free \cup mapped \cup listed = 0 .. used_page_num - 1
      /\ Len(freelist) + Cardinality(Mapped) + Cardinality(OfLevels) = used_page_num

\* The map, the list and the count of a level agree: get_page finds a hash
\* exactly when a page of the level's list bears it (the assertion of get_page),
\* whichever level the page was taken from.
IndexMatchesLru ==
  \A l \in Levels :
    /\ usedlru[l] = Len(lru[l])
    /\ \A h \in Hashes, p \in Pages :
         hash_to_page[l][h] = p <=> p \in ToSet(lru[l]) /\ used_pages[p].hash = h

\* A page of a level that is said to contain data, or to be dirty, holds the data
\* of its own hash and not of an earlier owner.
DataIsOfItsOwner ==
  \A l \in Levels, h \in Hashes :
    LET p == hash_to_page[l][h]
    IN  p # None /\ (used_pages[p].contains_data \/ used_pages[p].dirty)
          => bytes[p] = <<l, h>>

\* What it takes for a request to get no page.  An earlier level is never asked,
\* however many pages it has, so get_page follows a NULL when the internal nodes
\* and the earlier levels hold all pages but those the later ones may keep.  The
\* assertion fails when the nodes and the minima of the levels take up all pages.
\* So a cache with more pages than that always serves its nodes and first level.
OnlyStarvedFails ==
  /\ halted = "assert" =>
       Cardinality(Mapped) + Cardinality(Reserved(Levels)) >= page_num
  /\ halted = "null_oldest" =>
       \E l \in Levels :
         /\ lru[l] = << >>
         /\ Cardinality(Mapped) + Cardinality({e \in OfLevels : e[1] < l})
              + Cardinality(Reserved(l + 1 .. nlevel - 1)) >= page_num

\* A level that has its minimum of pages never falls below it, whatever the other
\* levels and the internal nodes take.
MinimumKept ==
  [][\A l \in Levels : Len(lru[l]) >= min_pages[l] => Len(lru'[l]) >= min_pages[l]]_cacheVars

-----------------------------------------------------------------------------
(* What pagecache.c says; the code does otherwise.                          *)

\* "Otherwise allocate a new page, either a free one, or reuse the oldest":
\* a level without pages has no oldest one, and its NULL is followed.
PageFound == halted # "null_oldest"
=============================================================================
