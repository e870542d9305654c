----------------------------- MODULE Lifecycle -----------------------------
(***************************************************************************)
(* A device over its life: formatter, dump and store run on it one after   *)
(* the other, in any order; each may meet errors, and may die anywhere.    *)
(***************************************************************************)
EXTENDS Format, Startup

vars == kvsVars

Init == InitBlobs /\ InitRuntime

TypeOK ==
  /\ TypeOKBlobs /\ TypeOKRuntime
  /\ pc \in {"none", "bs_init", "create_super", "set_super", "open_super", "resize_super",
            "create", "open", "resize", "write", "sync", "close_super", "close", "load",
            "get_super", "read_page", "read_all", "dump_close_super", "unload", "stopped",
            "crashed", "recovery", "serving", "idle"}

Steps == (FormatNext /\ UNCHANGED runtimeVars) \/ (DumpNext /\ UNCHANGED runtimeVars)
         \/ StartupNext

Next ==
  \/ (KvsCreate \/ KvsDump) /\ UNCHANGED runtimeVars
  \/ KvsStart
  \/ Steps
  \/ Exit /\ ForgetRuntime

Spec == Init /\ [][Next]_vars

\* SPDK completes what it is asked; the workers recover.
FairSpec == Spec /\ WF_vars(Steps)

-----------------------------------------------------------------------------
\* A layout that is complete: the super page records an existing blob of its
\* own for every slab, all with the clusters that this number of initial nodes
\* gives, as 32 bits hold them (InitClusters: it may be 0 or cut off).
CompleteFor(nodes) ==
  LET total == disk.page.nb_shards * NbSlabsPerShard
      blob(s) == disk.page.slab[s].blob_id
  IN  /\ total \in Slabs
      /\ \A s \in 1 .. total :
           /\ blob(s) \in disk.blobs \ {0}
           /\ disk.size[blob(s)] = InitClusters(nodes, disk.page.nb_chunks)
           /\ \A t \in 1 .. total \ {s} : blob(s) # blob(t)

\* A device is never taken for a store when its format failed or died, or when
\* its number of shards or of initial nodes was cut off to 0: the dump and the
\* start only follow a layout that one format wrote from end to end, for one
\* number of nodes; and every slab the workers get is an open blob, a different
\* one for every slab.
AcceptedIsComplete ==
  /\ app \in {"dump", "kvs"} /\ pc \in {"open", "dump_close_super", "recovery", "serving"}
       => disk.page # NONE /\ \E nodes \in Uint \ {0} : CompleteFor(nodes)
  /\ app = "kvs" /\ pc \in {"recovery", "serving"} =>
       /\ NbShards = disk.page.nb_shards
       /\ \A i \in Shards, j \in 0 .. NbSlabsPerShard - 1 :
            /\ slab_set[i][j] = disk.page.slab[i * NbSlabsPerShard + j + 1].blob_id
            /\ slab_set[i][j] \in bs.open

\* The other way round: a format during which nothing failed leaves a device
\* that the dump and the start will follow to a complete layout, with the
\* clusters that the 32-bit product of the numbers it was given comes to.
SuccessIsComplete ==
  app = "format" /\ pc = "stopped" /\ ~failed =>
    /\ disk.page # NONE /\ CompleteFor(kctx.nodes)
    /\ disk.super # NONE /\ disk.size[disk.super] # 0

\* "When all slabs have been created, echo slab should be resized equal to the
\* init size" (kvs_format.c:545): the nodes times the chunks of each.
SlabsHaveInitSize ==
  app = "format" /\ pc = "stopped" /\ ~failed =>
    \A s \in 1 .. disk.page.nb_shards * NbSlabsPerShard :
      disk.size[disk.page.slab[s].blob_id] = kctx.nodes * disk.page.nb_chunks

\* No operation uses an address of a blob that is not open now, such as the
\* ones the formatter leaves in the super page.
AddressesOpen == pc \in {"resize", "close"} => sl.slab[slab_idx].resv \in bs.open

\* When users are let in, the calls on every key go to a worker that exists,
\* with a shard that exists, and that worker alone reclaims the shard.
OwnerReclaims ==
  app = "kvs" /\ pc \in {"recovery", "serving"} =>
    /\ nb_works <= NbShards
    /\ \A draw \in Draws(NbShards) :
         /\ Route(draw).shard \in Shards /\ Route(draw).worker \in Workers
         /\ \A w \in Workers : Route(draw).shard \in reclaim[w] <=> w = Route(draw).worker

\* Every program ends, unless it is the store that came to serve, or a
\* formatter whose number of initial nodes overflowed to 0: that one idles.
\* A crash is an end too: a layout of 0 shards, a channel that was never set,
\* a field that was never set, a loop that reads freed memory.
ProgramEnds ==
  app # "none" ~> \/ app = "none" \/ pc \in {"stopped", "crashed", "serving"}
                  \/ app = "format" /\ pc = "idle" /\ kctx.nodes = 0

\* "KVS FORMAT SUCCESS!": what failed is reported by the formatter's result.
SuccessIsTrue == app = "format" /\ pc = "stopped" /\ rc = "ok" => ~failed
=============================================================================
