-------------------------------- MODULE Pool --------------------------------
(***************************************************************************)
(* The fixed-size object pool of src/pool.c: a free list threaded through  *)
(* free_node_array, whose entry number count is the list head.  Every pool *)
(* of the store (requests, chunk misses, page and cache I/O) is one.       *)
(*                                                                         *)
(* next and nb_frees are the fields of struct object_cache_pool; out is    *)
(* not in the code: it records which objects the callers hold, and ret     *)
(* what pool_get last returned.                                            *)
(***************************************************************************)
EXTENDS Integers, FiniteSets

CONSTANTS count,   \* pool->count
          MAX      \* UINT64_MAX: "no next node", and NULL for a returned object

\* pool_header_size asserts count < UINT64_MAX; a pool of no objects is never
\* made (its initialisation would write entry -1).
ASSUME CountAssumption == count \in Nat \ {0} /\ MAX \in Nat /\ count < MAX

VARIABLES next, nb_frees, out, ret

poolVars == <<next, nb_frees, out, ret>>

Objects == 0 .. count - 1
HeadNode == count                \* the index of the list head
ListNodes == Objects \cup {HeadNode}
Links == Objects \cup {MAX}

PoolTypeOK ==
  /\ next \in [ListNodes -> Links]
  /\ nb_frees \in 0 .. count
  /\ out \subseteq Objects
  /\ ret \in Links

-----------------------------------------------------------------------------
\* Bug: the list head is counted as an object.
InitCountsHead ==
  /\ next = [i \in ListNodes |-> CASE i = HeadNode  -> 0
                               [] i = count - 1 -> MAX
                               [] OTHER         -> i + 1]
  /\ nb_frees = count + 1
  /\ out = {}
  /\ ret = MAX

\* pool_header_init: object i is linked to i + 1, the last one to nothing.
PoolInit ==
  /\ next = [i \in ListNodes |-> CASE i = HeadNode  -> 0
                               [] i = count - 1 -> MAX
                               [] OTHER         -> i + 1]
  /\ nb_frees = count
  /\ out = {}
  /\ ret = MAX

\* Bug: the object handed out keeps its link into the free list.
PoolGetKeepsLink ==
  /\ nb_frees # 0
  /\ LET free_idx == next[HeadNode]
     IN  /\ next' = [next EXCEPT ![HeadNode] = next[free_idx]]
         /\ out' = out \cup {free_idx}
         /\ ret' = free_idx
  /\ nb_frees' = nb_frees - 1

\* Bug: the second node is handed out, the first is unlinked.
PoolGetSecond ==
  /\ nb_frees # 0
  /\ LET first == next[HeadNode]
         free_idx == IF next[first] = MAX THEN first ELSE next[first]
     IN  /\ next' = [next EXCEPT ![HeadNode] = next[first], ![first] = MAX]
         /\ out' = out \cup {free_idx}
         /\ ret' = free_idx
  /\ nb_frees' = nb_frees - 1

\* pool_get while an object is free: unlink the first one.
PoolGet ==
  /\ nb_frees # 0
  /\ LET free_idx == next[HeadNode]
     IN  /\ next' = [next EXCEPT ![HeadNode] = next[free_idx], ![free_idx] = MAX]
         /\ out' = out \cup {free_idx}
         /\ ret' = free_idx
  /\ nb_frees' = nb_frees - 1

\* pool_get on an exhausted pool.
PoolGetNone == nb_frees = 0 /\ ret' = MAX /\ UNCHANGED <<next, nb_frees, out>>

\* The assertion of pool_release: "object is not valid" unless this holds.
Releasable(o) == o \in Objects /\ next[o] = MAX

\* Bug: the head is moved before its old value is copied, so that o points to
\* itself.
LinkHeadFirst(o) ==
  /\ next' = [next EXCEPT ![HeadNode] = o, ![o] = o]
  /\ nb_frees' = nb_frees + 1
  /\ out' = out \ {o}
  /\ UNCHANGED ret

\* The list surgery of pool_release.
Link(o) ==
  /\ next' = [next EXCEPT ![o] = next[HeadNode], ![HeadNode] = o]
  /\ nb_frees' = nb_frees + 1
  /\ out' = out \ {o}
  /\ UNCHANGED ret

PoolRelease(o) == Releasable(o) /\ Link(o)

\* The callers release what they hold.
PoolNext == PoolGet \/ PoolGetNone \/ \E o \in out : PoolRelease(o)

PoolBehavior == PoolInit /\ [][PoolNext]_poolVars

-----------------------------------------------------------------------------
(***************************************************************************)
(* The shape of the free list.  Numbering the free objects so that number  *)
(* nb_frees is the first of the list and number 1 the last, the head       *)
(* points to number nb_frees, each one to the one numbered below it, and   *)
(* number 1 to nothing.                                                    *)
(***************************************************************************)
Lists(f) ==
  /\ \A i, j \in 1 .. nb_frees : f[i] = f[j] => i = j
  /\ {f[i] : i \in 1 .. nb_frees} = Objects \ out
  /\ next[HeadNode] = IF nb_frees = 0 THEN MAX ELSE f[nb_frees]
  /\ \A i \in 1 .. nb_frees :
       next[f[i]] = IF i = 1 THEN MAX ELSE f[i - 1]

\* The free list is acyclic and links exactly the objects nobody holds: after
\* any sequence of pool_get and pool_release, no object is lost or linked
\* twice.
FreeListOK == \E f \in [1 .. nb_frees -> Objects] : Lists(f)

\* The validity assertion of pool_release never fails for an object the caller
\* holds.
HeldReleasable == \A o \in out : Releasable(o)

\* nb_frees, which the worker's poller reads to size its batch, counts exactly
\* the objects nobody holds.
CountsFree == nb_frees = count - Cardinality(out)

\* The pool as its callers see it.
Abstract == INSTANCE PoolSpec WITH NULL <- MAX

\* Every call does what PoolSpec promises: no object is handed out twice, and
\* NULL comes back only when all objects are held.
RefinesPoolSpec == Abstract!Spec

=============================================================================
