----------------------------- MODULE Blobstore -----------------------------
(***************************************************************************)
(* What the programs of the store share: the device, SPDK's blobstore on   *)
(* it, and the one program that runs (the formatter, its dump, or the      *)
(* store itself).  A program is a chain of callbacks: pc names the         *)
(* operation whose completion it awaits.                                   *)
(*                                                                         *)
(* SPDK is external.  A created blob lasts; its size lasts once it is      *)
(* synced or closed; the root blob (spdk_bs_set_super) lasts once the      *)
(* blobstore is unloaded, which fails while a blob is open.  An operation  *)
(* on metadata that fails changes nothing; a write that fails, or that a   *)
(* crash cuts off, leaves any part of its data on the device.              *)
(***************************************************************************)
EXTENDS Integers, Sequences, FiniteSets

CONSTANTS NbSlabsPerShard,
          BufferSlabs,      \* bound: the slabs that fit in the pages of a layout
          Width,            \* the bits of a uint32_t
          NONE

\* A number of 32 bits is large beside the buffer of a layout.
ASSUME SizesAssumption ==
  /\ NbSlabsPerShard \in Nat \ {0} /\ BufferSlabs \in Nat \ {0} /\ Width \in Nat \ {0}
  /\ 2 ^ Width \in Nat \ {0, 1} /\ BufferSlabs * NbSlabsPerShard <= 2 ^ Width

Slabs == 1 .. BufferSlabs
Blobs == 0 .. BufferSlabs
Uint == 0 .. 2 ^ Width - 1
ToUint(n) == n % 2 ^ Width

VARIABLES
  disk,      \* what a crash leaves: the root blob, the blobs and their sizes in
             \* clusters, and the super page (NONE when it has no valid pin)
  bs,        \* the loaded blobstore: its root, the open blobs, their sizes
  app,       \* the running program
  pc,        \* the operation it awaits
  sl,        \* kctx->sl, the super layout in memory: the number of shards and of
             \* chunks per reclaim node (both uint32_t), and per slab its blob
             \* and the address of the open blob (resv)
  kctx,      \* the context: whether bs is set, the state of channel, and
             \* nb_init_nodes_per_slab
  slab_idx,  \* the slab an iteration over all slabs is at
  rc,        \* what the program gave spdk_app_stop
  failed     \* history: an operation of this program failed

storeVars == <<disk, bs>>
appVars == <<app, pc, sl, kctx, slab_idx, rc, failed>>
blobVars == <<storeVars, appVars>>

NoSlab == [blob_id |-> NONE, resv |-> NONE]
Layouts == [nb_shards : Uint, nb_chunks : Uint,
            slab : [Slabs -> [blob_id : Blobs \cup {NONE}, resv : Blobs \cup {NONE}]]]
NewLayout(shards, chunks) ==
  [nb_shards |-> shards, nb_chunks |-> chunks, slab |-> [s \in Slabs |-> NoSlab]]
NoLayout == NewLayout(0, 0)

\* NONE is neither a blob nor a layout.
ASSUME NoneAssumption == NONE \notin Blobs \cup Layouts

\* The product of two uint32_t.
TotalSlabs == ToUint(sl.nb_shards * NbSlabsPerShard)

NoSizes == [b \in Blobs |-> 0]
Blank == [super |-> NONE, blobs |-> {}, size |-> NoSizes, page |-> NONE]
Unloaded == [super |-> NONE, open |-> {}, size |-> NoSizes]
NoContext == [bs |-> FALSE, channel |-> "none", nodes |-> 0]

TypeOKBlobs ==
  /\ disk \in [super : Blobs \cup {NONE}, blobs : SUBSET Blobs, size : [Blobs -> Uint],
               page : Layouts \cup {NONE}]
  /\ bs \in [super : Blobs \cup {NONE}, open : SUBSET Blobs, size : [Blobs -> Uint]]
  /\ app \in {"none", "format", "dump", "kvs"}
  /\ sl \in Layouts /\ slab_idx \in Slabs
  /\ kctx \in [bs : BOOLEAN, channel : {"none", "held", "wild"}, nodes : Uint]
  /\ rc \in {"none", "ok", "error"} /\ failed \in BOOLEAN

\* A new device, or one that holds a blobstore of another application.
InitBlobs ==
  /\ disk \in {Blank, [Blank EXCEPT !.super = 0, !.blobs = {0}, !.size[0] = 1]}
  /\ bs = Unloaded /\ app = "none" /\ pc = "none" /\ sl = NoLayout
  /\ kctx = NoContext /\ slab_idx = 1 /\ rc = "none" /\ failed = FALSE

-----------------------------------------------------------------------------
(* The blobstore (external).                                                *)

Open(b) == bs' = [bs EXCEPT !.open = @ \cup {b}] /\ UNCHANGED disk

Resize(b, clusters) == bs' = [bs EXCEPT !.size[b] = clusters] /\ UNCHANGED disk

Sync(b) == disk' = [disk EXCEPT !.size[b] = bs.size[b]] /\ UNCHANGED bs

Close(b) ==
  /\ disk' = [disk EXCEPT !.size[b] = bs.size[b]]
  /\ bs' = [bs EXCEPT !.open = @ \ {b}]

Load ==
  /\ bs' = [Unloaded EXCEPT !.super = disk.super, !.size = disk.size]
  /\ UNCHANGED disk

CanUnload == bs.open = {}
Unload == disk' = [disk EXCEPT !.super = bs.super] /\ bs' = Unloaded

\* What a write of the layout leaves that is not completed: the first page,
\* with the pin, and the entries of the others in any combination.
TornWrites ==
  {disk} \cup {[disk EXCEPT !.page = [sl EXCEPT !.slab =
                 [s \in Slabs |-> IF s \in written THEN sl.slab[s] ELSE NoSlab]]] :
                   written \in SUBSET Slabs}

\* What the device holds after a crash, by the operation under way.
AfterCrash ==
  {disk} \cup (IF pc = "bs_init" THEN {Blank} ELSE {})
         \cup (IF pc = "write" THEN TornWrites ELSE {})
         \cup (IF pc = "unload" /\ CanUnload THEN {[disk EXCEPT !.super = bs.super]} ELSE {})

-----------------------------------------------------------------------------
(* Programs.                                                                *)

\* spdk_app_start up to the first awaited operation; malloc'd contexts hold
\* whatever was in memory.
Run(program, first, context, layout) ==
  /\ app = "none" /\ app' = program
  /\ pc' = first /\ kctx' = context /\ sl' = layout /\ slab_idx' = 1
  /\ rc' = "none" /\ failed' = FALSE

Await(op) == pc' = op /\ UNCHANGED <<app, sl, kctx, slab_idx, rc, failed>>

Stop(code) ==
  /\ pc' = "stopped" /\ rc' = code /\ failed' = (failed \/ code = "error")
  /\ UNCHANGED <<app, sl, kctx, slab_idx>>

\* After spdk_app_stop the program exits; a crash looks the same to the device.
Exit ==
  /\ app # "none"
  /\ app' = "none" /\ pc' = "none" /\ bs' = Unloaded /\ sl' = NoLayout
  /\ kctx' = NoContext /\ slab_idx' = 1 /\ rc' = "none" /\ failed' = FALSE
  /\ disk' \in AfterCrash
=============================================================================
