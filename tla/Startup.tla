------------------------------ MODULE Startup ------------------------------
(***************************************************************************)
(* The start of the store, src/kvs_startup.c: it opens what the formatter  *)
(* left on the device, starts the workers and waits until each has         *)
(* recovered.  Afterwards users may call; the user's thread picks the      *)
(* worker of a key's shard as in src/kvs.c.                                *)
(*                                                                         *)
(* The recovery of a worker and the _unload_bs of the store are external:  *)
(* their code is not in the repository.                                    *)
(***************************************************************************)
EXTENDS Blobstore, KvHash

CONSTANT WorkerCounts     \* the values of nb_works that are tried

ASSUME WorkerCountsAssumption == WorkerCounts \subseteq {1, 2, 4, 8, 16, 32, 64, 128}

VARIABLES
  nb_works,   \* opts->nb_works
  slab_set,   \* kvs->shards[i].slab_set[j]: the blob of each slab; the domain is
              \* the shards of the store
  reclaim,    \* the shards each worker reclaims
  ready,      \* the workers that have recovered
  waited,     \* the workers the start has seen ready
  g_kvs       \* whether users can find the store

runtimeVars == <<nb_works, slab_set, reclaim, ready, waited, g_kvs>>
kvsVars == <<blobVars, runtimeVars>>

Shards == DOMAIN slab_set
NbShards == Cardinality(Shards)
Workers == 0 .. nb_works - 1

TypeOKRuntime ==
  /\ nb_works \in WorkerCounts \cup {1}
  /\ slab_set \in [Shards -> [0 .. NbSlabsPerShard - 1 -> Blobs \cup {NONE}]]
  /\ Shards = 0 .. NbShards - 1
  /\ DOMAIN reclaim = Workers /\ \A w \in Workers : reclaim[w] \subseteq Int
  /\ ready \subseteq Workers /\ waited \in 0 .. nb_works
  /\ g_kvs \in BOOLEAN

InitRuntime ==
  /\ nb_works = 1
  /\ slab_set = << >>
  /\ reclaim = [w \in {0} |-> {}] /\ ready = {} /\ waited = 0 /\ g_kvs = FALSE

\* The memory of a program is gone when it exits.
ForgetRuntime ==
  /\ slab_set' = << >>
  /\ nb_works' = 1 /\ reclaim' = [w \in {0} |-> {}]
  /\ ready' = {} /\ waited' = 0 /\ g_kvs' = FALSE

\* The _unload_bs of the store (external).
KvsUnload ==
  /\ pc' = "unload" /\ failed' = TRUE
  /\ UNCHANGED <<disk, bs, app, sl, kctx, slab_idx, rc>>

KvsUnloadComplete ==
  /\ app = "kvs" /\ pc = "unload"
  /\ IF CanUnload THEN Unload ELSE UNCHANGED storeVars
  /\ Stop("error") /\ UNCHANGED runtimeVars

KvsFails(op) == pc = op /\ KvsUnload

-----------------------------------------------------------------------------
\* kvs_start_loop and _kvs_start.
KvsStart ==
  /\ Run("kvs", "load", NoContext, NoLayout) /\ nb_works' \in WorkerCounts
  /\ reclaim' = [w \in 0 .. nb_works' - 1 |-> {}]
  /\ ready' = {} /\ waited' = 0 /\ g_kvs' = FALSE
  /\ UNCHANGED <<storeVars, slab_set>>

\* An error stands for any check of the device that fails.
LoadBsComplete ==
  /\ app = "kvs" /\ pc = "load"
  /\ \/ /\ Load
        /\ kctx' = [kctx EXCEPT !.bs = TRUE] /\ pc' = "get_super"
        /\ UNCHANGED <<app, sl, slab_idx, rc, failed>>
     \/ Stop("error") /\ UNCHANGED storeVars
  /\ UNCHANGED runtimeVars

GetSuperComplete ==
  /\ app = "kvs" /\ pc = "get_super"
  /\ \/ bs.super # NONE /\ Await("open_super") /\ UNCHANGED storeVars
     \/ KvsFails("get_super")
  /\ UNCHANGED runtimeVars

\* A root blob of no clusters is bad.
SuperOpenComplete ==
  /\ app = "kvs" /\ pc = "open_super"
  /\ \/ Open(bs.super) /\ bs.size[bs.super] # 0 /\ Await("read_page")
     \/ /\ Open(bs.super) /\ bs.size[bs.super] = 0
        /\ pc' = "unload" /\ failed' = TRUE /\ UNCHANGED <<app, sl, kctx, slab_idx, rc>>
     \/ KvsFails("open_super")
  /\ UNCHANGED runtimeVars

\* Bug: the number of workers is not compared.
ReadSuperPageAnyWorkers ==
  /\ app = "kvs" /\ pc = "read_page"
  /\ \/ disk.page # NONE /\ Await("read_all") /\ UNCHANGED storeVars
     \/ disk.page = NONE /\ KvsUnload
     \/ KvsFails("read_page")
  /\ UNCHANGED runtimeVars

\* The page must have the pin, and its shards must divide among the workers.
ReadSuperPageComplete ==
  LET valid == disk.page # NONE /\ disk.page.nb_shards % nb_works = 0
  IN  /\ app = "kvs" /\ pc = "read_page"
      /\ \/ valid /\ Await("read_all") /\ UNCHANGED storeVars
         \/ ~valid /\ KvsUnload
         \/ KvsFails("read_page")
      /\ UNCHANGED runtimeVars

\* The layout, with the addresses of the process that wrote it.
ReadAllSuperPagesComplete ==
  /\ app = "kvs" /\ pc = "read_all"
  /\ \/ /\ sl' = (IF disk.page = NONE THEN NoLayout ELSE disk.page)
        /\ pc' = "open" /\ slab_idx' = 1
        /\ UNCHANGED <<storeVars, app, kctx, rc, failed>>
     \/ KvsFails("read_all")
  /\ UNCHANGED runtimeVars

\* The test of the waiting loop reads nb_works in freed memory and finds any
\* number: it waits for worker i, goes on, or looks for a worker that is not
\* there.
TestAfterFree(i) ==
  \/ pc' \in {"serving", "crashed"}
  \/ pc' = "recovery" /\ i < nb_works

\* Slab j of shard i, and the shards of each worker, which is started; users
\* can find the store.
SetRuntime(layout) ==
  LET nb_reclaim_shards == layout.nb_shards \div nb_works
  IN  /\ slab_set' = [i \in 0 .. layout.nb_shards - 1 |->
                        [j \in 0 .. NbSlabsPerShard - 1 |->
                           layout.slab[i * NbSlabsPerShard + j + 1].resv]]
      /\ reclaim' = [w \in Workers |-> w * nb_reclaim_shards
                                         .. (w + 1) * nb_reclaim_shards - 1]
      /\ waited' = 0 /\ ready' = {} /\ g_kvs' = TRUE /\ UNCHANGED nb_works

\* _kvs_start_create_kvs_runtime and _kvs_worker_init.  The assertion on the
\* clusters of a slab divides by a field that is never set.
CreateRuntime(layout) ==
  /\ \/ SetRuntime(layout) /\ TestAfterFree(0)
     \/ pc' = "crashed" /\ UNCHANGED runtimeVars
  /\ UNCHANGED <<app, kctx, slab_idx, rc, failed>>

OpenBlobNext ==
  /\ app = "kvs" /\ pc = "open"
  /\ \/ LET blob == sl.slab[slab_idx].blob_id
            layout == [sl EXCEPT !.slab[slab_idx].resv = blob]
        IN  /\ blob \in disk.blobs /\ Open(blob) /\ sl' = layout
            /\ \/ slab_idx = TotalSlabs /\ CreateRuntime(layout)
               \/ /\ slab_idx < TotalSlabs /\ slab_idx' = slab_idx + 1
                  /\ UNCHANGED <<app, pc, kctx, rc, failed, runtimeVars>>
     \/ KvsFails("open") /\ UNCHANGED runtimeVars

\* A worker has recovered (external).
WorkerReady(w) ==
  /\ pc = "recovery" /\ w \in Workers \ ready /\ ready' = ready \cup {w}
  /\ UNCHANGED <<blobVars, nb_works, slab_set, reclaim, waited, g_kvs>>

\* The busy wait for one worker after the other; then startup_fn is called.
WaitReady ==
  /\ app = "kvs" /\ pc = "recovery" /\ waited \in ready
  /\ waited' = waited + 1 /\ TestAfterFree(waited')
  /\ UNCHANGED <<storeVars, app, sl, kctx, slab_idx, rc, failed, nb_works, slab_set, reclaim, ready, g_kvs>>

\* _hash_shard_to_worker of src/kvs.c.
HashShardToWorker(shard) == shard \div (NbShards \div nb_works)

\* kv_get_async and its like: the shard and the worker a key's calls go to.
Route(draw) == LET shard == Hash(draw, NbShards)
               IN  [shard |-> shard, worker |-> HashShardToWorker(shard)]

-----------------------------------------------------------------------------
StartupNext ==
  \/ LoadBsComplete \/ GetSuperComplete \/ SuperOpenComplete
  \/ ReadSuperPageComplete \/ ReadAllSuperPagesComplete \/ OpenBlobNext
  \/ KvsUnloadComplete \/ WaitReady
  \/ \E w \in Workers : WorkerReady(w)
=============================================================================
