------------------------------ MODULE Iterator ------------------------------
(***************************************************************************)
(* The iterator of src/kvs.c: a user thread that merges, in a heap, the    *)
(* sorted batches of keys the workers load for it.  The workers answer     *)
(* asynchronously: their callbacks fill the iterator while the user        *)
(* thread spins on the completed flags.                                    *)
(*                                                                         *)
(* The worker side of the scans is external (worker_process_seek, _first   *)
(* and _next are not in the repository): a worker answers its requests in  *)
(* order, with its keys in order.  The store does not change during the    *)
(* scan.  Failing scan requests are possible when MayFail.                 *)
(***************************************************************************)
EXTENDS Integers, Sequences, FiniteSets, SequencesExt

CONSTANTS
  NbWorkers,   \* it->nb_workers
  BatchSize,   \* it->batch_size
  MaxKey,      \* the keys are 1 .. MaxKey, in memcmp order
  Commands,    \* what the user does: subset of {"seek", "first"}
  MaxCommands, \* bound on the number of seeks and firsts
  MayFail,     \* whether a worker's scan may fail
  NULL

ASSUME IteratorAssumption ==
  /\ NbWorkers \in Nat \ {0} /\ BatchSize \in Nat \ {0} /\ MaxKey \in Nat \ {0}
  /\ Commands \subseteq {"seek", "first"} /\ MaxCommands \in Nat /\ MayFail \in BOOLEAN
  /\ NULL \notin [items : Seq(1 .. MaxKey), batch : Nat]

Workers == 0 .. NbWorkers - 1
Keys == 1 .. MaxKey
DONE == MaxKey + 1            \* UINT64_MAX in per_worker_idx: above every index

VARIABLES
  stored,          \* the keys in the store
  shard,           \* the worker of each key, stored or not
  queue,           \* the scan requests each worker has not answered
  pc,              \* where the user thread is
  nb_commands,
  start,           \* the sought key; 0 for kv_iterator_first
  seek_key,        \* it->seek_item, the buffer for the sought or last item
  item_array,      \* the heap: the worker, the key, and whether the item pointer
                   \* is that of seek_item; nb_items is its length
  per_worker_idx, completed, kverrno, scan_res,
  seen,            \* history: the keys the scan has returned so far
  joined,          \* history: the workers whose batch the merge took in
  live,            \* history: the batches the workers made that are not freed
  abandoned        \* history: a scan began while a request of an earlier one
                   \* was not answered

cursor == <<start, seek_key, item_array, per_worker_idx>>
swctx == <<completed, kverrno, scan_res>>
history == <<seen, joined, live, abandoned>>
vars == <<stored, shard, queue, pc, nb_commands, cursor, swctx, history>>

Batches == [items : Seq(Keys), batch : Nat]
Requests == [op : {"seek", "first", "next"}, base : Keys \cup {0}, batch : Nat]

TypeOK ==
  /\ stored \subseteq Keys /\ shard \in [Keys -> Workers]
  /\ queue \in [Workers -> Seq(Requests)]
  /\ pc \in {"idle", "seek_wait", "seek_load", "seek_merge", "first_load",
            "first_merge", "next_wait", "released", "crashed"}
  /\ nb_commands \in 0 .. MaxCommands
  /\ start \in Keys \cup {0} /\ seek_key \in Keys
  /\ item_array \in Seq([wid : Workers, key : Keys, own : BOOLEAN])
  /\ \A i, j \in DOMAIN item_array : item_array[i].wid = item_array[j].wid => i = j
  /\ per_worker_idx \in [Workers -> 0 .. DONE]
  /\ completed \in [Workers -> BOOLEAN] /\ kverrno \in [Workers -> BOOLEAN]
  /\ scan_res \in [Workers -> Batches \cup {NULL}]
  /\ seen \in Seq(Keys) /\ joined \subseteq Workers 
  /\ live \in Nat /\ abandoned \in BOOLEAN

-----------------------------------------------------------------------------
(* The heap, on the sequence item_array. *)

ByKey(x, y) == x.key < y.key
Heap == INSTANCE ItemHeap WITH Less <- ByKey

ToArray(s) == [i \in 0 .. Len(s) - 1 |-> s[i + 1]]
ToSequence(a, len) == [i \in 1 .. len |-> a[i - 1]]

Made(s) == ToSequence(Heap!MakeHeap(ToArray(s), Len(s)), Len(s))
Adjusted(s) == ToSequence(Heap!HeapAdjust(ToArray(s), 0, Len(s)), Len(s))

-----------------------------------------------------------------------------
(* What a worker answers (external). *)

KeysOf(w) == {k \in stored : shard[k] = w}

\* The n smallest of the numbers ns, in order.
Smallest(ns, n) ==
  CHOOSE s \in [1 .. n -> ns] :
    /\ \A i, j \in 1 .. n : i < j => s[i] < s[j]
    /\ \A k \in ns : k \in ToSet(s) \/ \A i \in 1 .. n : s[i] < k

\* The first batch keys of worker w above base.
Load(w, base, batch) ==
  LET above == {k \in KeysOf(w) : k > base}
      n     == Cardinality(above)
  IN  [items |-> Smallest(above, IF batch < n THEN batch ELSE n), batch |-> batch]

-----------------------------------------------------------------------------
\* kv_iterator_alloc, for any store.  completed and kverrno are not initialised
\* there.
Init ==
  /\ stored \in SUBSET Keys /\ shard \in [Keys -> Workers]
  /\ queue = [w \in Workers |-> << >>]
  /\ pc = "idle" /\ nb_commands = 0
  /\ start = 0 /\ seek_key = 1 /\ item_array = << >>
  /\ per_worker_idx = [w \in Workers |-> 0]
  /\ completed \in [Workers -> BOOLEAN]
  /\ kverrno \in [Workers -> BOOLEAN]
  /\ scan_res = [w \in Workers |-> NULL]
  /\ seen = << >> /\ joined = {} /\ live = 0 /\ abandoned = FALSE

\* The batches that ws hold.
Held(ws) == {w \in ws : scan_res[w] # NULL}

\* Bug: the batch is forgotten before it is freed.
ResetScanResLeaks(ws) ==
  /\ completed' = [w \in Workers |-> w \notin Held(ws) /\ completed[w]]
  /\ kverrno' = [w \in Workers |-> w \notin Held(ws) /\ kverrno[w]]
  /\ scan_res' = [w \in Workers |-> IF w \in ws THEN NULL ELSE scan_res[w]]
  /\ UNCHANGED live

\* _reset_scan_res: the flags are cleared only when there is a batch to free.
ResetScanRes(ws) ==
  /\ completed' = [w \in Workers |-> w \notin Held(ws) /\ completed[w]]
  /\ kverrno' = [w \in Workers |-> w \notin Held(ws) /\ kverrno[w]]
  /\ scan_res' = [w \in Workers |-> IF w \in ws THEN NULL ELSE scan_res[w]]
  /\ live' = live - Cardinality(Held(ws))

Send(w, op, base, batch) ==
  queue' = [queue EXCEPT ![w] = Append(@, [op |-> op, base |-> base, batch |-> batch])]

SendAll(op, base, batch) ==
  queue' = [w \in Workers |->
              Append(queue[w], [op |-> op, base |-> base, batch |-> batch[w]])]

\* kv_iterator_item: NULL when nothing is left.
Item == IF item_array = << >> THEN NULL ELSE item_array[1].key

-----------------------------------------------------------------------------
(* The callbacks, on the workers' threads.                                  *)

Alive == pc \notin {"released", "crashed"}

\* _seek_cb_fn.  Looking for a key the store lacks fails.
SeekCb(w) ==
  /\ Alive /\ queue[w] # << >> /\ Head(queue[w]).op = "seek"
  /\ kverrno' = [kverrno EXCEPT ![w] = Head(queue[w]).base \notin KeysOf(w)]
  /\ completed' = [completed EXCEPT ![w] = TRUE]
  /\ queue' = [queue EXCEPT ![w] = Tail(@)]
  /\ UNCHANGED <<stored, shard, pc, nb_commands, cursor, scan_res, history>>

\* Bug: a failed answer is not announced.
IterCbQuiet(w) ==
  /\ Alive /\ queue[w] # << >> /\ Head(queue[w]).op # "seek"
  /\ \E fails \in {FALSE, MayFail} :
       /\ scan_res' = IF fails THEN scan_res
                      ELSE [scan_res EXCEPT ![w] =
                              Load(w, Head(queue[w]).base, Head(queue[w]).batch)]
       /\ kverrno' = [kverrno EXCEPT ![w] = fails]
       /\ live' = IF fails THEN live ELSE live + 1
       /\ completed' = IF fails THEN completed ELSE [completed EXCEPT ![w] = TRUE]
  /\ queue' = [queue EXCEPT ![w] = Tail(@)]
  /\ UNCHANGED <<stored, shard, pc, nb_commands, cursor, seen, joined, abandoned>>

\* _iter_cb_fn.
IterCb(w) ==
  /\ Alive /\ queue[w] # << >> /\ Head(queue[w]).op # "seek"
  /\ \E fails \in {FALSE, MayFail} :
       /\ scan_res' = IF fails THEN scan_res
                      ELSE [scan_res EXCEPT ![w] =
                              Load(w, Head(queue[w]).base, Head(queue[w]).batch)]
       /\ kverrno' = [kverrno EXCEPT ![w] = fails]
       /\ live' = IF fails THEN live ELSE live + 1
  /\ completed' = [completed EXCEPT ![w] = TRUE]
  /\ queue' = [queue EXCEPT ![w] = Tail(@)]
  /\ UNCHANGED <<stored, shard, pc, nb_commands, cursor, seen, joined, abandoned>>

-----------------------------------------------------------------------------
(* kv_iterator_seek                                                         *)

Command(c) == pc = "idle" /\ c \in Commands /\ nb_commands < MaxCommands
              /\ nb_commands' = nb_commands + 1
              /\ abandoned' = (abandoned \/ \E w \in Workers : queue[w] # << >>)

SeekSubmit(k) ==
  /\ Command("seek")
  /\ ResetScanRes(Workers)
  /\ Send(shard[k], "seek", k, 0)
  /\ start' = k /\ item_array' = << >> /\ UNCHANGED seek_key
  /\ per_worker_idx' = [w \in Workers |-> 0]
  /\ seen' = << >> /\ joined' = {}
  /\ pc' = "seek_wait"
  /\ UNCHANGED <<stored, shard>>

\* The seek failed.
SeekFails ==
  /\ pc = "seek_wait" /\ completed[shard[start]] /\ kverrno[shard[start]]
  /\ pc' = "idle"
  /\ UNCHANGED <<stored, shard, queue, nb_commands, cursor, swctx, history>>

\* The sought item is the first of the heap; every worker pre-loads a batch.
SeekFound ==
  LET wid == shard[start]
  IN  /\ pc = "seek_wait" /\ completed[wid] /\ ~kverrno[wid]
      /\ seek_key' = start
      /\ item_array' = <<[wid |-> wid, key |-> start, own |-> TRUE]>>
      /\ completed' = [w \in Workers |-> FALSE]
      /\ kverrno' = [w \in Workers |-> FALSE]
      /\ SendAll("next", start,
                 [w \in Workers |-> IF w = wid THEN BatchSize - 1 ELSE BatchSize])
      /\ pc' = "seek_load"
      /\ UNCHANGED <<stored, shard, nb_commands, start, per_worker_idx, scan_res,
                     history>>

\* The waiting loop is left as soon as a round finds a worker that has not
\* completed; if all have, it goes round for ever.  A round reads the flags one
\* by one, but they only rise: it finds one down iff one is down when it reads it.
LeavesWaitLoop == \E w \in Workers : ~completed[w]

LeaveLoad ==
  /\ LeavesWaitLoop
  /\ \/ pc = "seek_load" /\ pc' = "seek_merge"
     \/ pc = "first_load" /\ pc' = "first_merge"
  /\ UNCHANGED <<stored, shard, queue, nb_commands, cursor, swctx, history>>

\* The worker has answered, with at least one item.
HasItems(w) == scan_res[w] # NULL /\ scan_res[w].items # << >>

\* The first items of the given workers, in the order of the workers.
FirstItems(ws) ==
  LET order == Smallest(ws, Cardinality(ws))
  IN  [i \in 1 .. Cardinality(ws) |-> [wid |-> order[i], own |-> FALSE,
                                       key |-> scan_res[order[i]].items[1]]]

\* Appends the first items of ws, and makes the heap.
MergeFirstItems(ws) ==
  /\ item_array' = Made(item_array \o FirstItems(ws))
  /\ per_worker_idx' = [w \in Workers |-> IF ~HasItems(w) THEN DONE
                                          ELSE IF w \in ws THEN per_worker_idx[w] + 1
                                          ELSE per_worker_idx[w]]
  /\ seen' = IF item_array' = << >> THEN << >> ELSE <<Item'>>
  /\ joined' = {w \in Workers : HasItems(w)}
  /\ pc' = "idle"
  /\ UNCHANGED <<stored, shard, queue, nb_commands, start, seek_key, swctx, live, abandoned>>

\* A worker without an answer counts as one without items; the worker of the
\* sought item is represented by that item.
SeekMerge ==
  /\ pc = "seek_merge"
  /\ MergeFirstItems({w \in Workers : HasItems(w)} \ {shard[start]})

-----------------------------------------------------------------------------
(* kv_iterator_first                                                        *)

FirstSubmit ==
  /\ Command("first")
  /\ scan_res' = [w \in Workers |-> NULL]
  /\ live' = live - Cardinality(Held(Workers))
  /\ completed' = [w \in Workers |-> FALSE]
  /\ kverrno' = [w \in Workers |-> FALSE]
  /\ SendAll("first", 0, [w \in Workers |-> BatchSize \div NbWorkers])
  /\ start' = 0 /\ item_array' = << >> /\ UNCHANGED seek_key
  /\ per_worker_idx' = [w \in Workers |-> 0]
  /\ seen' = << >> /\ joined' = {}
  /\ pc' = "first_load"
  /\ UNCHANGED <<stored, shard>>

\* Here a worker without an answer is a NULL pointer that is followed.
FirstMerge ==
  /\ pc = "first_merge" /\ \A w \in Workers : scan_res[w] # NULL
  /\ MergeFirstItems({w \in Workers : HasItems(w)})

Crash ==
  /\ pc' = "crashed"
  /\ UNCHANGED <<stored, shard, queue, nb_commands, cursor, swctx, history>>

FirstMergeCrash ==
  pc = "first_merge" /\ (\E w \in Workers : scan_res[w] = NULL) /\ Crash

-----------------------------------------------------------------------------
(* kv_iterator_next                                                         *)

\* Bug: a batch is taken to be the last when it is as long as it may be.
NeedsLoadNever(wid) == FALSE

\* The batch is used up, and was as long as it may be: there may be more.
NeedsLoad(wid) ==
  /\ per_worker_idx[wid] >= Len(scan_res[wid].items)
  /\ Len(scan_res[wid].items) = scan_res[wid].batch

\* The last item of the batch becomes the base of the next one; it is copied
\* over seek_item, which item_array may still point to.
NextLoad ==
  LET wid == item_array[1].wid
      last == Last(scan_res[wid].items)
  IN  /\ pc = "idle" /\ item_array # << >>
      /\ scan_res[wid] # NULL /\ NeedsLoad(wid) /\ scan_res[wid].items # << >>
      /\ seek_key' = last
      /\ item_array' = [i \in DOMAIN item_array |->
                          [item_array[i] EXCEPT !.key = IF item_array[i].own THEN last
                                                        ELSE @]]
      /\ ResetScanRes({wid})
      /\ per_worker_idx' = [per_worker_idx EXCEPT ![wid] = 0]
      /\ Send(wid, "next", last, BatchSize)
      /\ pc' = "next_wait"
      /\ UNCHANGED <<stored, shard, nb_commands, start, seen, joined, abandoned>>

\* The scan result is NULL, or items[-1] of an empty one is used.
NextCrash ==
  LET wid == item_array[1].wid
  IN  /\ item_array # << >>
      /\ \/ pc = "idle" /\ scan_res[wid] = NULL
         \/ /\ pc = "idle" /\ scan_res[wid] # NULL
            /\ scan_res[wid].items = << >> /\ NeedsLoad(wid)
         \/ pc = "next_wait" /\ completed[wid] /\ scan_res[wid] = NULL
      /\ Crash

\* Bug: the index of the worker is left alone.
TakeStuck(wid) ==
  /\ per_worker_idx[wid] < Len(scan_res[wid].items)
  /\ item_array' = Adjusted([item_array EXCEPT ![1] =
                      [wid |-> wid, own |-> FALSE,
                       key |-> scan_res[wid].items[per_worker_idx[wid] + 1]]])
  /\ UNCHANGED per_worker_idx

\* The next item of the worker takes the top of the heap.
Take(wid) ==
  /\ per_worker_idx[wid] < Len(scan_res[wid].items)
  /\ item_array' = Adjusted([item_array EXCEPT ![1] =
                      [wid |-> wid, own |-> FALSE,
                       key |-> scan_res[wid].items[per_worker_idx[wid] + 1]]])
  /\ per_worker_idx' = [per_worker_idx EXCEPT ![wid] = @ + 1]

\* Bug: the exhausted worker's item stays on top, and the last one is lost.
DropKeepsTop(wid) ==
  /\ per_worker_idx[wid] >= Len(scan_res[wid].items)
  /\ IF Len(item_array) > 1
     THEN /\ item_array' = Adjusted(Front(item_array))
          /\ per_worker_idx' = [per_worker_idx EXCEPT ![wid] = DONE]
     ELSE item_array' = << >> /\ UNCHANGED per_worker_idx

\* Bug: nb_items is not decreased.
DropKeepsCount(wid) ==
  /\ per_worker_idx[wid] >= Len(scan_res[wid].items)
  /\ IF Len(item_array) > 1
     THEN /\ item_array' = Adjusted([item_array EXCEPT ![1] = Last(item_array)])
          /\ per_worker_idx' = [per_worker_idx EXCEPT ![wid] = DONE]
     ELSE item_array' = << >> /\ UNCHANGED per_worker_idx

\* No item is left for the worker, or for the whole database.
Drop(wid) ==
  /\ per_worker_idx[wid] >= Len(scan_res[wid].items)
  /\ IF Len(item_array) > 1
     THEN /\ item_array' = Adjusted(Front([item_array EXCEPT ![1] = Last(item_array)]))
          /\ per_worker_idx' = [per_worker_idx EXCEPT ![wid] = DONE]
     ELSE item_array' = << >> /\ UNCHANGED per_worker_idx

NextItem ==
  LET wid == item_array[1].wid
  IN  /\ item_array # << >> /\ scan_res[wid] # NULL
      /\ \/ pc = "idle" /\ ~NeedsLoad(wid)
         \/ pc = "next_wait" /\ completed[wid]
      /\ Take(wid) \/ Drop(wid)
      /\ seen' = IF item_array' = << >> THEN seen ELSE Append(seen, Item')
      /\ pc' = "idle"
      /\ UNCHANGED <<stored, shard, queue, nb_commands, start, seek_key, swctx, joined, live, abandoned>>

-----------------------------------------------------------------------------
\* kv_iterator_release.  Nothing keeps a user from it while a worker still has
\* to answer: the callback then writes into freed memory.
Release ==
  /\ pc = "idle" /\ pc' = "released"
  /\ ResetScanRes(Workers)
  /\ per_worker_idx' = [w \in Workers |-> 0] /\ item_array' = << >>
  /\ UNCHANGED <<stored, shard, queue, nb_commands, start, seek_key, seen, joined, abandoned>>

LateCallback(w) == pc = "released" /\ queue[w] # << >> /\ Crash

-----------------------------------------------------------------------------
User ==
  \/ \E k \in Keys : SeekSubmit(k)
  \/ SeekFails \/ SeekFound \/ SeekMerge
  \/ FirstSubmit \/ FirstMerge \/ FirstMergeCrash \/ LeaveLoad
  \/ NextLoad \/ NextItem \/ NextCrash \/ Release

Next == User \/ \E w \in Workers : SeekCb(w) \/ IterCb(w) \/ LateCallback(w)

Spec == Init /\ [][Next]_vars

\* The workers answer, and the user thread goes on.
FairSpec == Spec /\ WF_vars(User) /\ \A w \in Workers : WF_vars(SeekCb(w) \/ IterCb(w))

-----------------------------------------------------------------------------
\* No further batch has overwritten the item a seek began with.  When one has,
\* the heap holds the last key of that batch in its place.
SeekKeyKept == start = 0 \/ seek_key = start

\* A scan returns the sought key and stored keys above it, none of them twice.
SeenOnce ==
  SeekKeyKept /\ ~abandoned =>
    /\ IsInjective(seen)
    /\ \A i \in DOMAIN seen : seen[i] = start \/ (seen[i] \in stored /\ seen[i] > start)

\* When the iterator says that all items have been iterated, every key of a
\* worker that was merged has been returned: none is lost between two batches.
NothingSkipped ==
  SeekKeyKept /\ ~abandoned /\ pc = "idle" /\ item_array = << >> =>
    \A w \in joined : {k \in KeysOf(w) : k >= start} \subseteq ToSet(seen)

\* Every item of the heap, which kv_iterator_item gives to the user, is the
\* iterator's own copy or the current one of a batch that has not been freed.
ItemsAlive ==
  pc = "idle" /\ ~abandoned =>
    \A i \in DOMAIN item_array :
      LET e == item_array[i]
      IN  ~e.own => /\ scan_res[e.wid] # NULL
                    /\ per_worker_idx[e.wid] \in DOMAIN scan_res[e.wid].items
                    /\ e.key = scan_res[e.wid].items[per_worker_idx[e.wid]]

\* Every batch a worker made is freed or still reachable from the iterator,
\* whatever answers fail or come late: after its release none is left.
BatchesOwned == ~abandoned => live = Cardinality(Held(Workers))

\* The worker of the top item has raised its flag without a batch: its scan
\* failed, or what it answered is a seek that nobody waited for.
NoBatchCame ==
  \E i \in DOMAIN item_array \cap {1} :
    LET wid == item_array[i].wid
    IN  completed[wid] /\ scan_res[wid] = NULL /\ (kverrno[wid] \/ queue[wid] # << >>)

\* kv_iterator_next, once it waits for a worker, returns; it does not when the
\* scan fails, or an earlier answer is taken for it: then it follows a NULL
\* result.
NextReturns == pc = "next_wait" ~> pc = "idle" \/ (pc = "crashed" /\ NoBatchCame)

-----------------------------------------------------------------------------
(* What a comment of kvs.c says; the code does otherwise.                   *)

\* "All items have been loaded. Make heap"
AllLoadedWhenMerged == [][SeekMerge => \A w \in Workers : completed[w]]_vars
=============================================================================
