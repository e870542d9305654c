------------------------------ MODULE Format ------------------------------
(***************************************************************************)
(* The formatter of src/apps/format/kvs_format.c: it makes a blobstore     *)
(* with a root blob and one blob per slab, and its dump reads them back.   *)
(* Each callback is an action, in a failing and a successful form.         *)
(***************************************************************************)
EXTENDS Blobstore

CONSTANTS ShardArgs, ChunkArgs, NodeArgs   \* the numbers tried as -S, -C and -N

\* _unload_bs: the blobstore is unloaded if it was made or loaded.  A channel
\* that was never set is released all the same.
UnloadBs(error) ==
  /\ IF ~kctx.bs THEN pc' = "stopped" /\ rc' = IF error THEN "error" ELSE "ok"
     ELSE /\ pc' = IF kctx.channel = "wild" THEN "crashed" ELSE "unload"
          /\ UNCHANGED rc
  /\ kctx' = [kctx EXCEPT !.channel = "none"]
  /\ sl' = NoLayout /\ failed' = (failed \/ error)
  /\ UNCHANGED <<app, slab_idx>>

\* _unload_complete: what failed before is not reported, only the unload is.
UnloadComplete ==
  /\ app \in {"format", "dump"} /\ pc = "unload"
  /\ \/ CanUnload /\ Unload /\ Stop("ok")
     \/ UNCHANGED storeVars /\ Stop("error")

\* Any callback that gets an error: the operation had no effect.
Fails(op) == pc = op /\ UnloadBs(TRUE) /\ UNCHANGED storeVars

-----------------------------------------------------------------------------
(* The iteration over all slabs: _slab_iter_foreach.                        *)

Foreach(op) ==
  pc' = op /\ slab_idx' = 1 /\ UNCHANGED <<app, kctx, rc, failed>>

NextSlab == slab_idx' = slab_idx + 1 /\ UNCHANGED <<app, pc, kctx, rc, failed>>

\* Bug: one slab more.
ForeachNextLate(finished) ==
  \/ slab_idx = TotalSlabs + 1 /\ finished
  \/ slab_idx < TotalSlabs + 1 /\ NextSlab

\* The next slab, or finished_cb after the last one.  The last of 0 slabs is
\* never met: the iteration leaves the buffer of the layout.
ForeachNext(finished) ==
  \/ slab_idx = TotalSlabs /\ finished
  \/ slab_idx # TotalSlabs /\ slab_idx < BufferSlabs /\ NextSlab
  \/ slab_idx # TotalSlabs /\ slab_idx = BufferSlabs
     /\ pc' = "crashed" /\ UNCHANGED <<app, kctx, slab_idx, rc, failed>>

-----------------------------------------------------------------------------
(* Format.                                                                  *)

\* _kvs_parse_arg: -S, -C and -N are compared as long and kept as uint32_t.
AcceptsShards(arg) == arg > 0 /\ \E i \in 0 .. arg : arg = 2 ^ i
AcceptsChunks(arg) == arg > 0
AcceptsNodes(arg) == arg > 0

\* A power of two is a divisor of 2 ^ Width, or is 0 in Width bits.
ASSUME ArgsAssumption ==
  /\ ShardArgs \cup ChunkArgs \cup NodeArgs \subseteq Int
  /\ \A arg \in ShardArgs : AcceptsShards(arg) =>
       ToUint(arg) = 0 \/ 2 ^ Width % ToUint(arg) = 0

\* main, _kvs_create and _fill_super_parameters.  A refused option is the end
\* before the start.
KvsCreate ==
  \E shards \in ShardArgs, chunks \in ChunkArgs, nodes \in NodeArgs :
    /\ AcceptsShards(shards) /\ AcceptsChunks(chunks) /\ AcceptsNodes(nodes)
    /\ Run("format", "bs_init", [NoContext EXCEPT !.nodes = ToUint(nodes)],
           NewLayout(ToUint(shards), ToUint(chunks)))
    /\ UNCHANGED storeVars

\* A check of the device fails.
KvsCreateFails ==
  /\ app = "format" /\ pc = "bs_init" /\ Stop("error") /\ UNCHANGED storeVars

\* The new blobstore replaces whatever was on the device.
BsInitComplete ==
  /\ app = "format" /\ pc = "bs_init"
  /\ disk' = Blank /\ bs' = Unloaded
  /\ kctx' = [kctx EXCEPT !.bs = TRUE]
  /\ \/ pc' = "create_super" /\ UNCHANGED <<app, sl, slab_idx, rc, failed>>
     \/ \* the I/O unit has the wrong size: stopped, not unloaded
        pc' = "stopped" /\ rc' = "error" /\ failed' = TRUE /\ UNCHANGED <<app, sl, slab_idx>>

BsInitFails ==
  /\ app = "format" /\ pc = "bs_init" /\ UnloadBs(TRUE)
  /\ disk' \in {disk, Blank} /\ UNCHANGED bs

SuperBlobCreateComplete ==
  /\ app = "format" /\ pc = "create_super"
  /\ \/ /\ disk' = [disk EXCEPT !.blobs = @ \cup {0}]
        /\ Await("set_super") /\ UNCHANGED bs
     \/ Fails("create_super")

SetSuperRootComplete ==
  /\ app = "format" /\ pc = "set_super"
  /\ \/ bs' = [bs EXCEPT !.super = 0] /\ Await("open_super") /\ UNCHANGED disk
     \/ Fails("set_super")

\* Without a channel it gives up, with the root blob open.
SuperBlobOpenComplete ==
  /\ app = "format" /\ pc = "open_super"
  /\ \/ /\ Open(0)
        /\ \/ /\ kctx' = [kctx EXCEPT !.channel = "held"]
              /\ pc' = "resize_super" /\ UNCHANGED <<app, sl, slab_idx, rc, failed>>
           \/ UnloadBs(TRUE)
     \/ Fails("open_super")

\* The super pages fill a cluster.
SuperResizeComplete ==
  /\ app = "format" /\ pc = "resize_super"
  /\ \/ Resize(0, 1) /\ Foreach("create") /\ UNCHANGED sl
     \/ Fails("resize_super")

\* Bug: the super blob is written at once.
AfterCreateWrites == pc' = "write" /\ UNCHANGED <<app, kctx, slab_idx, rc, failed>>

\* _slab_all_create_complete: the slabs are only opened to be resized.
AfterCreate ==
  IF kctx.nodes > 0 THEN Foreach("open")
  ELSE pc' = "write" /\ UNCHANGED <<app, kctx, slab_idx, rc, failed>>

\* The blob of the slab is recorded.
ForeachCreateCb ==
  /\ app = "format" /\ pc = "create"
  /\ \/ \E b \in Blobs \ disk.blobs :
          /\ disk' = [disk EXCEPT !.blobs = @ \cup {b}]
          /\ sl' = [sl EXCEPT !.slab[slab_idx].blob_id = b]
          /\ ForeachNext(AfterCreate)
          /\ UNCHANGED bs
     \/ Fails("create")

\* Bug: the slabs are not resized.
AfterOpenWrites ==
  IF app = "format" THEN Foreach("write") ELSE Foreach("dump_close_super")

\* _slab_all_open_complete, _kvs_dump_real_data.
AfterOpen ==
  IF app = "format" THEN Foreach("resize") ELSE Foreach("dump_close_super")

ForeachOpenCb ==
  /\ app \in {"format", "dump"} /\ pc = "open"
  /\ \/ /\ sl.slab[slab_idx].blob_id \in disk.blobs /\ Open(sl.slab[slab_idx].blob_id)
        /\ sl' = [sl EXCEPT !.slab[slab_idx].resv = sl.slab[slab_idx].blob_id]
        /\ ForeachNext(AfterOpen)
     \/ Fails("open")

\* The clusters a slab starts with: a product of two uint32_t, which may be 0
\* or cut off although neither factor is 0.
InitClusters(nodes, chunks) == ToUint(nodes * chunks)

\* When all slabs are resized, the super blob is written.  A size of 0 is as
\* good as any to the blobstore; one that is too large fails.
ForeachResizeCb ==
  /\ app = "format" /\ pc = "resize"
  /\ \/ /\ Resize(sl.slab[slab_idx].resv, InitClusters(kctx.nodes, sl.nb_chunks))
        /\ ForeachNext(Foreach("write")) /\ UNCHANGED sl
     \/ Fails("resize")

SuperWriteComplete ==
  /\ app = "format" /\ pc = "write"
  /\ \/ disk' = [disk EXCEPT !.page = sl] /\ Await("sync") /\ UNCHANGED bs
     \/ pc = "write" /\ UnloadBs(TRUE) /\ disk' \in TornWrites /\ UNCHANGED bs

SuperSyncComplete ==
  /\ app = "format" /\ pc = "sync"
  /\ \/ Sync(0) /\ Await("close_super")
     \/ Fails("sync")

\* Bug: nothing follows, as without initial nodes.
SuperBlobCloseEnds ==
  /\ app = "format" /\ pc = "close_super"
  /\ \/ Close(0) /\ Await("idle")
     \/ Fails("close_super")

\* Without initial nodes nothing follows: the formatter idles.
SuperBlobCloseComplete ==
  /\ app = "format" /\ pc = "close_super"
  /\ \/ Close(0) /\ kctx.nodes > 0 /\ Foreach("close") /\ UNCHANGED sl
     \/ Close(0) /\ kctx.nodes = 0 /\ Await("idle")
     \/ Fails("close_super")

\* When all slabs are closed, the blobstore is unloaded.
ForeachCloseCb ==
  /\ app \in {"format", "dump"} /\ pc = "close"
  /\ \/ /\ Close(sl.slab[slab_idx].resv)
        /\ \/ slab_idx = TotalSlabs /\ UnloadBs(FALSE)
           \/ slab_idx < TotalSlabs /\ NextSlab /\ UNCHANGED sl
     \/ Fails("close")

-----------------------------------------------------------------------------
(* Dump.                                                                    *)

\* main and _kvs_dump.
KvsDump == Run("dump", "load", NoContext, NoLayout) /\ UNCHANGED storeVars

\* The context is not initialised: channel is what the memory holds.
DumpLoadComplete ==
  /\ app = "dump" /\ pc = "load"
  /\ \/ /\ Load
        /\ \E channel \in {"none", "wild"} : kctx' = [NoContext EXCEPT !.bs = TRUE, !.channel = channel]
        /\ pc' = "get_super" /\ UNCHANGED <<app, sl, slab_idx, rc, failed>>
     \/ Stop("error") /\ UNCHANGED storeVars

DumpGetSuperComplete ==
  /\ app = "dump" /\ pc = "get_super"
  /\ \/ bs.super # NONE /\ Await("open_super") /\ UNCHANGED storeVars
     \/ Fails("get_super")

DumpSuperComplete ==
  /\ app = "dump" /\ pc = "open_super"
  /\ \/ /\ Open(bs.super)
        /\ kctx' = [kctx EXCEPT !.channel = "held"]
        /\ pc' = "read_page" /\ UNCHANGED <<app, sl, slab_idx, rc, failed>>
     \/ Fails("open_super")

\* A page without the pin is not followed, but no error is passed on.
DumpReadSuperPageComplete ==
  /\ app = "dump" /\ pc = "read_page"
  /\ \/ disk.page # NONE /\ Await("read_all") /\ UNCHANGED storeVars
     \/ disk.page = NONE /\ UnloadBs(FALSE) /\ UNCHANGED storeVars
     \/ Fails("read_page")

\* Bug: the addresses of the open blobs are taken from the page.
DumpSuperPagesTrusted ==
  /\ app = "dump" /\ pc = "read_all"
  /\ \/ sl' = disk.page /\ Foreach("dump_close_super") /\ UNCHANGED storeVars
     \/ Fails("read_all")

\* _blob_dump_super_complete.
DumpSuperPagesComplete ==
  /\ app = "dump" /\ pc = "read_all"
  /\ \/ sl' = disk.page /\ Foreach("open") /\ UNCHANGED storeVars
     \/ Fails("read_all")

KvsCloseSuperComplete ==
  /\ app = "dump" /\ pc = "dump_close_super"
  /\ \/ Close(bs.super) /\ Foreach("close") /\ UNCHANGED sl
     \/ Fails("dump_close_super")

-----------------------------------------------------------------------------
FormatNext ==
  \/ KvsCreateFails \/ BsInitComplete \/ BsInitFails
  \/ SuperBlobCreateComplete \/ SetSuperRootComplete \/ SuperBlobOpenComplete
  \/ SuperResizeComplete \/ ForeachCreateCb \/ ForeachOpenCb \/ ForeachResizeCb
  \/ SuperWriteComplete \/ SuperSyncComplete \/ SuperBlobCloseComplete
  \/ ForeachCloseCb \/ UnloadComplete

DumpNext ==
  \/ DumpLoadComplete \/ DumpGetSuperComplete \/ DumpSuperComplete
  \/ DumpReadSuperPageComplete \/ DumpSuperPagesComplete \/ KvsCloseSuperComplete
=============================================================================
