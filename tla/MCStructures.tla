---------------------------- MODULE MCStructures ----------------------------
(***************************************************************************)
(* The data structures of a worker: the pool of its internal requests, the *)
(* page cache of its index, the heap of an iterator, and the map of        *)
(* btree.cc.  Each is modelled by itself and is used by one thread, so a   *)
(* behaviour is about one of them, and the others stay as they are.        *)
(***************************************************************************)
EXTENDS MCContainers, MCPageCache, Pool

VARIABLE structure       \* the one the behaviour is about

StructuresInit ==
  /\ structure \in {"pool", "page cache", "container"}
  /\ PoolInit /\ CacheInit
  /\ \/ structure = "container" /\ ContainersInit
     \/ /\ structure # "container" /\ tree = EmptyTree /\ held = 0
        /\ a = <<>> /\ len = 0 /\ phase = "unused" /\ keys = Counts(a, len)

StructuresNext ==
  /\ UNCHANGED structure
  /\ \/ structure = "pool" /\ PoolNext /\ UNCHANGED <<cacheVars, containerVars>>
     \/ structure = "page cache" /\ CacheNext /\ UNCHANGED <<poolVars, containerVars>>
     \/ structure = "container" /\ ContainersNext /\ UNCHANGED <<poolVars, cacheVars>>

StructuresSpec ==
  StructuresInit /\ [][StructuresNext]_<<structure, poolVars, cacheVars, containerVars>>
=============================================================================
