------------------------------ MODULE PoolSpec ------------------------------
(***************************************************************************)
(* What an object_cache_pool (src/pool.c) promises its callers: pool_get   *)
(* hands out an object nobody holds, and returns NULL only when every      *)
(* object is held; pool_release takes back an object somebody holds.       *)
(* Which free object is chosen, and how the free ones are linked, is left  *)
(* open.                                                                   *)
(***************************************************************************)
CONSTANTS Objects,   \* the objects of the pool
          NULL       \* what pool_get returns when the pool is exhausted

VARIABLES out,       \* the objects the callers hold
          ret        \* what the last call of pool_get returned

Init == out = {} /\ ret = NULL

Get == \E o \in Objects \ out : out' = out \cup {o} /\ ret' = o

GetNone == out = Objects /\ ret' = NULL /\ UNCHANGED out

Release == \E o \in out : out' = out \ {o} /\ UNCHANGED ret

Next == Get \/ GetNone \/ Release

Spec == Init /\ [][Next]_<<out, ret>>
=============================================================================
