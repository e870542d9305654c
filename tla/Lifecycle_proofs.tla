-------------------------- MODULE Lifecycle_proofs --------------------------
(***************************************************************************)
(* For any number of shards, slabs and workers, any widths and options: a  *)
(* device that was not formatted completely is never taken for a store, no *)
(* address of a blob that is not open is used, and every key has its shard *)
(* and its worker.                                                         *)
(***************************************************************************)
EXTENDS Lifecycle, KvHash, NaturalsInduction, WellFoundedInduction, FiniteSetTheorems, TLAPS

(***************************************************************************)
(* The jump hash ends, with a bucket that exists, for every stream of      *)
(* numbers.  Jumps only go upwards, so the recursion has a solution from   *)
(* the last bucket down; the library's theorem on recursive definitions    *)
(* takes an operator, so the solution is built here.                       *)
(***************************************************************************)

LEMMA LeastOf ==
  ASSUME NEW T \in SUBSET Nat, T # {}
  PROVE  \E x \in T : \A y \in T : x <= y
<1>1. PICK x \in T : \A y \in T : ~ (<<y, x>> \in OpToRel(<, Nat))
  BY NatLessThanWellFounded, WFMin
<1>2. \A y \in T : ~(y < x)
  BY <1>1 DEF OpToRel
<1> QED BY <1>2

\* A divisor of at most Scale: the next bucket is above.
LEMMA JumpIsForward ==
  ASSUME NEW n \in Nat, NEW draw \in Draws(n), NEW b \in 0 .. n - 1
  PROVE  Jump(draw, b) \in Nat /\ Jump(draw, b) > b
<1>1. PICK d \in 1 .. Scale : d = draw[b]
  BY DEF Draws
<1>2. ((b + 1) * Scale) \div d >= b + 1 /\ ((b + 1) * Scale) \div d \in Nat
  BY ScaleAssumption
<1> QED BY <1>1, <1>2 DEF Jump

Bucket(draw, n, f, b) == IF Jump(draw, b) < n THEN f[Jump(draw, b)] ELSE b

\* g answers for the buckets from m on.
Solves(draw, n, m, g) ==
  /\ g \in [m .. n - 1 -> 0 .. n - 1]
  /\ \A b \in m .. n - 1 : g[b] = Bucket(draw, n, g, b)

LEMMA SolutionBelow ==
  ASSUME NEW n \in Nat, NEW draw \in Draws(n), NEW m \in 0 .. n - 1,
         NEW g, Solves(draw, n, m + 1, g)
  PROVE  \E h : Solves(draw, n, m, h)
<1> DEFINE h == [b \in m .. n - 1 |-> IF b = m THEN Bucket(draw, n, g, m) ELSE g[b]]
<1>1. \A b \in 0 .. n - 1 : Jump(draw, b) \in Nat /\ Jump(draw, b) > b
  BY JumpIsForward
<1>2. /\ g \in [m + 1 .. n - 1 -> 0 .. n - 1]
      /\ \A b \in m + 1 .. n - 1 : g[b] = Bucket(draw, n, g, b)
  BY DEF Solves
<1>3. Bucket(draw, n, g, m) \in 0 .. n - 1
  BY <1>1, <1>2 DEF Bucket
<1>4. h \in [m .. n - 1 -> 0 .. n - 1]
  BY <1>2, <1>3
<1>5. \A b \in m .. n - 1 : Bucket(draw, n, h, b) = Bucket(draw, n, g, b)
  BY <1>1 DEF Bucket
<1>6. \A b \in m .. n - 1 : h[b] = Bucket(draw, n, h, b)
  <2>1. TAKE b \in m .. n - 1
  <2>2. CASE b = m
    BY <1>5, <2>2
  <2>3. CASE b # m
    BY <1>2, <1>5, <2>3
  <2> QED BY <2>2, <2>3
<1> QED BY <1>4, <1>6 DEF Solves

LEMMA SolutionExists ==
  ASSUME NEW n \in Nat, NEW draw \in Draws(n)
  PROVE  \E g : Solves(draw, n, 0, g)
<1> DEFINE T == {k \in 0 .. n : ~ \E g : Solves(draw, n, n - k, g)}
<1>1. Solves(draw, n, n - 0, [b \in n .. n - 1 |-> 0])
  BY DEF Solves
<1>2. T = {}
  <2> SUFFICES ASSUME T # {} PROVE FALSE
    OBVIOUS
  <2>1. PICK k \in T : \A j \in T : k <= j
    <3>1. T \in SUBSET Nat
      OBVIOUS
    <3> HIDE DEF T
    <3> QED BY <3>1, LeastOf
  <2>2. k \in 1 .. n
    BY <1>1, <2>1
  <2>3. PICK g : Solves(draw, n, n - (k - 1), g)
    BY <2>1, <2>2
  <2>4. n - (k - 1) = n - k + 1 /\ n - k \in 0 .. n - 1
    BY <2>2
  <2>5. \E h : Solves(draw, n, n - k, h)
    BY <2>3, <2>4, SolutionBelow
  <2> QED BY <2>1, <2>5
<1>3. n \in 0 .. n /\ n - n = 0
  OBVIOUS
<1> QED BY <1>2, <1>3

\* kv_hash gives a bucket in range for every key and every positive number of
\* buckets, so a key is never routed past the shards.
THEOREM HashInRange ==
  ASSUME NEW n \in Nat \ {0}, NEW draw \in Draws(n)
  PROVE  Hash(draw, n) \in 0 .. n - 1
<1> DEFINE Rec(f) == [b \in 0 .. n - 1 |-> IF Jump(draw, b) < n THEN f[Jump(draw, b)] ELSE b]
           from == CHOOSE f : f = Rec(f)
           T == {k \in 0 .. n - 1 : from[n - 1 - k] \notin 0 .. n - 1}
<1>1. Hash(draw, n) = from[0]
  BY DEF Hash
<1>2. PICK g : Solves(draw, n, 0, g)
  BY SolutionExists
<1>3. g = Rec(g)
  BY <1>2 DEF Solves, Bucket
<1>4. from = Rec(from)
  BY <1>3
<1>5. \A b \in 0 .. n - 1 : from[b] = IF Jump(draw, b) < n THEN from[Jump(draw, b)] ELSE b
  BY <1>4
<1>6. T = {}
  <2> SUFFICES ASSUME T # {} PROVE FALSE
    OBVIOUS
  <2>1. PICK k \in T : \A j \in T : k <= j
    <3>1. T \in SUBSET Nat
      OBVIOUS
    <3> HIDE DEF T
    <3> QED BY <3>1, LeastOf
  <2>2. PICK b \in 0 .. n - 1 : b = n - 1 - k
    BY <2>1
  <2>3. from[b] \notin 0 .. n - 1
    BY <2>1, <2>2
  <2>4. Jump(draw, b) \in Nat /\ Jump(draw, b) > b /\ Jump(draw, b) < n
    BY <1>5, <2>3, JumpIsForward
  <2>5. from[Jump(draw, b)] \notin 0 .. n - 1
    BY <1>5, <2>3, <2>4
  <2>6. n - 1 - Jump(draw, b) \in T /\ n - 1 - Jump(draw, b) < k
    BY <2>2, <2>4, <2>5
  <2>7. k <= n - 1 - Jump(draw, b)
    <3> HIDE DEF T
    <3> QED BY <2>1, <2>6
  <2> QED BY <2>1, <2>2, <2>4, <2>6, <2>7
<1>7. from[0] \in 0 .. n - 1
  <2>1. n - 1 \in 0 .. n - 1 /\ n - 1 - (n - 1) = 0
    OBVIOUS
  <2> QED BY <1>6, <2>1
<1> QED BY <1>1, <1>7

-----------------------------------------------------------------------------
(* Numbers of slabs. *)

Total(layout) == layout.nb_shards * NbSlabsPerShard

\* The number of shards is 0 or a power of two, as far as it matters here.
Divides(layout) == layout.nb_shards = 0 \/ 2 ^ Width % layout.nb_shards = 0

LEMMA Remainder ==
  ASSUME NEW a \in Nat, NEW p \in Nat \ {0}
  PROVE  (a % p) \in 0 .. p - 1 /\ \E q \in Nat : a = q * p + (a % p)
<1>1. (a \div p) \in Nat /\ a = (a \div p) * p + (a % p) /\ (a % p) \in 0 .. p - 1
  OBVIOUS
<1> QED BY <1>1

LEMMA DivisorIsExact ==
  ASSUME NEW n \in Nat \ {0}, NEW k \in Nat \ {0}, NEW p \in Nat \ {0}, NEW limit \in Nat,
         NEW t \in 1 .. limit,
         p % n = 0, limit * k <= p, t = (n * k) % p
  PROVE  n * k = t
<1>1. PICK m \in Nat : p = m * n
  <2>1. p \in Nat
    OBVIOUS
  <2>2. PICK q \in Nat : p = q * n + (p % n)
    BY <2>1, Remainder
  <2>3. p = q * n
    BY <2>2
  <2> QED BY <2>3
<1>2. PICK q \in Nat : n * k = q * p + t
  <2>1. n * k \in Nat
    OBVIOUS
  <2> QED BY <2>1, Remainder
<1>3. PICK r \in Int : r = k - q * m
  BY <1>1, <1>2
<1>4. t = n * r
  BY <1>1, <1>2, <1>3
<1>5. r >= 1
  BY <1>4
<1>6. n <= t
  BY <1>4, <1>5
<1>7. n * k <= limit * k
  BY <1>6
<1>8. n * k <= p
  <2>1. n * k \in Nat /\ limit * k \in Nat
    OBVIOUS
  <2> QED BY <1>7, <2>1
<1>9. q = 0
  <2>1. q * p < p
    BY <1>2, <1>8
  <2> QED BY <2>1
<1> QED BY <1>2, <1>9

\* If the slabs of a layout, counted in Width bits, fit the buffer, then the
\* count did not overflow.
LEMMA NoOverflow ==
  ASSUME NEW layout \in Layouts, Divides(layout), ToUint(Total(layout)) \in Slabs
  PROVE  Total(layout) = ToUint(Total(layout))
<1>1. PICK n \in Nat : n = layout.nb_shards
  BY SizesAssumption DEF Layouts, Uint
<1>2. PICK p \in Nat \ {0} : p = 2 ^ Width
  BY SizesAssumption
<1>3. (n * NbSlabsPerShard) % p \in 1 .. BufferSlabs
  BY <1>1, <1>2 DEF Total, ToUint, Slabs
<1>4. n # 0
  BY <1>2, <1>3, SizesAssumption
<1>5. p % n = 0
  BY <1>1, <1>2, <1>4 DEF Divides
<1>6. n * NbSlabsPerShard = (n * NbSlabsPerShard) % p
  <2>1. PICK k \in Nat \ {0} : k = NbSlabsPerShard
    BY SizesAssumption
  <2>2. PICK b \in Nat : b = BufferSlabs
    BY SizesAssumption
  <2>3. n \in Nat \ {0} /\ b * k <= p /\ (n * k) % p \in 1 .. b
    BY <1>2, <1>3, <1>4, <2>1, <2>2, SizesAssumption
  <2>4. PICK t \in 1 .. b : t = (n * k) % p
    BY <2>3
  <2>5. n * k = t
    BY <1>5, <2>3, <2>4, DivisorIsExact
  <2> QED BY <2>1, <2>4, <2>5
<1> QED BY <1>1, <1>2, <1>6 DEF Total, ToUint

LEMMA SmallIsExact ==
  ASSUME NEW layout \in Layouts, Total(layout) \in Slabs
  PROVE  ToUint(Total(layout)) = Total(layout)
<1>1. PICK p \in Nat \ {0} : p = 2 ^ Width
  BY SizesAssumption
<1>2. PICK n \in 0 .. p - 1 : n = layout.nb_shards
  BY <1>1 DEF Layouts, Uint
<1>3. PICK k \in Nat \ {0} : k = NbSlabsPerShard
  BY SizesAssumption
<1>4. PICK b \in Nat \ {0} : b = BufferSlabs
  BY SizesAssumption
<1>5. n * k \in 1 .. b /\ b * k <= p
  BY <1>1, <1>2, <1>3, <1>4, SizesAssumption DEF Total, Slabs
<1>6. n * k < p
  <2>1. CASE k = 1
    BY <1>2, <2>1
  <2>2. CASE k > 1
    <3>1. b * k > b
      BY <2>2
    <3> QED BY <1>5, <3>1
  <2> QED BY <2>1, <2>2
<1>7. n * k \in 0 .. p - 1
  BY <1>5, <1>6
<1>8. (n * k) % p = n * k
  BY <1>7
<1> QED BY <1>1, <1>2, <1>3, <1>8 DEF Total, ToUint

-----------------------------------------------------------------------------
(* The invariant. *)

\* The first k slabs have a blob each, of those given, and not the root blob.
Recorded(layout, k, blobs) ==
  \A s \in 1 .. k :
    /\ layout.slab[s].blob_id \in blobs \ {0}
    /\ \A t \in 1 .. k : layout.slab[s].blob_id = layout.slab[t].blob_id => s = t

\* The first k slabs have so many clusters, by the sizes given.
Sized(layout, k, size, clusters) ==
  \A s \in 1 .. k : size[layout.slab[s].blob_id] = clusters

\* CompleteFor, of a device d, and complete for some number of nodes.
FullFor(d, nodes) ==
  /\ d.page # NONE /\ Total(d.page) \in Slabs
  /\ Recorded(d.page, Total(d.page), d.blobs)
  /\ Sized(d.page, Total(d.page), d.size, InitClusters(nodes, d.page.nb_chunks))
CompleteOf(d) == \E nodes \in Uint \ {0} : FullFor(d, nodes)

\* A device that is found to have the root blob root may be followed.
Sound(root, d) == root # NONE /\ d.page # NONE => CompleteOf(d)

Opened(lo, hi) == \A s \in lo .. hi : /\ sl.slab[s].resv = sl.slab[s].blob_id
                                      /\ sl.slab[s].blob_id \in bs.open
InitSize == InitClusters(kctx.nodes, sl.nb_chunks)
Resized(hi) == Sized(sl, hi, bs.size, InitSize)

\* A blobstore that was loaded and not changed.
Mirrored == bs.super = disk.super /\ bs.size = disk.size

DiskInv == /\ disk.super \in {0, NONE} /\ bs.super \in {0, NONE}
           /\ Sound(disk.super, disk)

\* Which operations a program awaits.
Making == {"create_super", "set_super", "open_super", "resize_super", "create", "open",
           "resize", "write", "sync", "close_super", "close", "idle"}
Checking == {"get_super", "open_super", "read_page", "read_all", "open"}

ProgramInv ==
  /\ app = "none" => pc = "none"
  /\ app = "format" => pc \in Making \cup {"bs_init", "unload", "stopped", "crashed"}
  /\ app = "dump" => pc \in Checking \cup {"load", "dump_close_super", "close", "unload",
                                           "stopped", "crashed"}
  /\ app = "kvs" => pc \in Checking \cup {"load", "unload", "stopped", "recovery", "serving",
                                          "crashed"}

\* The formatter: until the last slab is closed a blob is open, so that no
\* earlier end of it leaves a root blob beside a page.
MakingInv ==
  /\ Divides(sl)
  /\ pc = "bs_init" => ~kctx.bs
  /\ pc \in Making => disk.super = NONE
  /\ pc \in Making \ {"sync", "close_super", "close", "idle"} => disk.page = NONE
  /\ pc \in {"set_super", "open_super", "resize_super", "create"} => 0 \in disk.blobs
  /\ pc \in {"resize_super", "create", "open", "resize", "write", "sync", "close_super"}
       => 0 \in bs.open
  /\ pc = "create" => Recorded(sl, slab_idx - 1, disk.blobs)
  /\ pc = "unload" /\ bs.open = {} => Sound(bs.super, disk)

SlabsInv ==
  /\ pc \in {"open", "resize", "write", "sync", "close_super", "close"} =>
       TotalSlabs \in Slabs /\ Recorded(sl, TotalSlabs, disk.blobs)
  /\ pc \in {"open", "resize", "close"} => slab_idx <= TotalSlabs /\ kctx.nodes > 0
  /\ pc = "open" => Opened(1, slab_idx - 1)
  /\ pc = "resize" => Opened(1, TotalSlabs) /\ Resized(slab_idx - 1)
  /\ pc \in {"write", "sync", "close_super"} /\ kctx.nodes > 0 =>
       Opened(1, TotalSlabs) /\ Resized(TotalSlabs)
  /\ pc = "close" => /\ Opened(slab_idx, TotalSlabs) /\ Resized(TotalSlabs)
                     /\ Sized(sl, slab_idx - 1, disk.size, InitSize)
  /\ pc \in {"sync", "close_super", "close"} => disk.page = sl

\* The dump and the start: what they follow was found sound.
Same(layout, page) ==
  layout.nb_shards = page.nb_shards
    /\ \A s \in Slabs : layout.slab[s].blob_id = page.slab[s].blob_id

LoadedInv ==
  /\ pc \notin {"load", "stopped"} => Mirrored
  /\ pc \in {"open_super", "read_page", "read_all", "open", "dump_close_super", "close",
             "recovery", "serving"} => disk.super # NONE
  /\ pc \in {"read_all", "open", "dump_close_super", "close", "recovery", "serving"}
       => disk.page # NONE
  /\ pc \in {"open", "dump_close_super", "close"} => Same(sl, disk.page)
  /\ pc \in {"open", "close"} => slab_idx <= TotalSlabs
  /\ pc = "open" => Opened(1, slab_idx - 1)
  /\ pc = "dump_close_super" => Opened(1, TotalSlabs)
  /\ pc = "close" => Opened(slab_idx, TotalSlabs)

\* The store: its shards are those of the page, in equal parts for its workers.
Assigned ==
  LET each == disk.page.nb_shards \div nb_works
  IN  /\ Shards = 0 .. disk.page.nb_shards - 1
      /\ \A i \in Shards, j \in 0 .. NbSlabsPerShard - 1 :
           /\ slab_set[i][j] = disk.page.slab[i * NbSlabsPerShard + j + 1].blob_id
           /\ slab_set[i][j] \in bs.open
      /\ reclaim = [w \in Workers |-> w * each .. (w + 1) * each - 1]

ServesInv ==
  /\ pc \in {"read_all", "open", "recovery", "serving"} =>
       disk.page.nb_shards % nb_works = 0
  /\ pc \in {"recovery", "serving"} => Assigned

LifeInv ==
  /\ TypeOK /\ DiskInv /\ ProgramInv
  /\ app = "format" => MakingInv /\ SlabsInv
  /\ app \in {"dump", "kvs"} => LoadedInv
  /\ app = "kvs" => ServesInv

-----------------------------------------------------------------------------
(* Types, and the ends of a program. *)

DiskType == [super : Blobs \cup {NONE}, blobs : SUBSET Blobs, size : [Blobs -> Uint],
             page : Layouts \cup {NONE}]
BsType == [super : Blobs \cup {NONE}, open : SUBSET Blobs, size : [Blobs -> Uint]]
ContextType == [bs : BOOLEAN, channel : {"none", "held", "wild"}, nodes : Uint]
Pcs == {"none", "load", "bs_init", "unload", "stopped", "crashed", "recovery", "serving",
        "dump_close_super"} \cup Making \cup Checking

StoreTyped == disk \in DiskType /\ bs \in BsType

LEMMA TypesOf ==
  ASSUME TypeOK
  PROVE  /\ StoreTyped /\ disk \in DiskType /\ bs \in BsType
         /\ sl \in Layouts /\ slab_idx \in Slabs
         /\ kctx \in ContextType /\ app \in {"none", "format", "dump", "kvs"}
         /\ rc \in {"none", "ok", "error"} /\ failed \in BOOLEAN /\ TypeOKRuntime
  BY DEF TypeOK, TypeOKBlobs, StoreTyped, DiskType, BsType, ContextType

LEMMA TypesFrom ==
  ASSUME disk' \in DiskType, bs' \in BsType, sl' \in Layouts, slab_idx' \in Slabs,
         kctx' \in ContextType, app' \in {"none", "format", "dump", "kvs"},
         rc' \in {"none", "ok", "error"}, failed' \in BOOLEAN, TypeOKRuntime', pc' \in Pcs
  PROVE  TypeOK'
  BY DEF TypeOK, TypeOKBlobs, DiskType, BsType, ContextType, Pcs, Making, Checking

LEMMA RuntimeTypesKept ==
  ASSUME TypeOKRuntime, UNCHANGED runtimeVars
  PROVE  TypeOKRuntime'
  BY DEF TypeOKRuntime, runtimeVars, Shards, NbShards, Workers

LEMMA NoLayoutTyped == NoLayout \in Layouts /\ Divides(NoLayout)
<1>1. 0 \in Uint
  BY SizesAssumption DEF Uint
<1> QED BY <1>1 DEF NoLayout, NewLayout, Layouts, NoSlab, Divides

LEMMA NoSizesTyped == 0 \in Uint /\ 1 \in Uint /\ NoSizes \in [Blobs -> Uint]
<1>1. 0 \in Uint /\ 1 \in Uint
  BY SizesAssumption DEF Uint
<1> QED BY <1>1 DEF NoSizes

LEMMA UintRange ==
  ASSUME NEW n \in Int
  PROVE  ToUint(n) \in Uint
<1>1. PICK p \in Nat \ {0} : p = 2 ^ Width
  BY SizesAssumption
<1>2. (n % p) \in 0 .. p - 1
  BY <1>1
<1> QED BY <1>1, <1>2 DEF ToUint, Uint

LEMMA InitSizeTyped ==
  ASSUME sl \in Layouts, kctx \in ContextType
  PROVE  InitSize \in Uint
<1>1. sl.nb_chunks \in Uint /\ kctx.nodes \in Uint
  BY DEF Layouts, ContextType
<1>2. PICK c \in Nat, n \in Nat : c = sl.nb_chunks /\ n = kctx.nodes
  BY <1>1, SizesAssumption DEF Uint
<1>3. n * c \in Int
  OBVIOUS
<1> QED BY <1>2, <1>3, UintRange DEF InitSize, InitClusters

(* What the operations on the blobstore change. *)

LEMMA OpenDoes ==
  ASSUME StoreTyped, NEW b \in Blobs, Open(b)
  PROVE  /\ StoreTyped' /\ disk' = disk /\ bs'.super = bs.super
         /\ bs'.open = bs.open \cup {b} /\ bs'.size = bs.size
  BY DEF StoreTyped, Open, DiskType, BsType

LEMMA ResizeDoes ==
  ASSUME StoreTyped, NEW b \in Blobs, NEW clusters \in Uint, Resize(b, clusters)
  PROVE  /\ StoreTyped' /\ disk' = disk /\ bs'.super = bs.super
         /\ bs'.open = bs.open
         /\ \A c \in Blobs : bs'.size[c] = IF c = b THEN clusters ELSE bs.size[c]
  BY DEF StoreTyped, Resize, DiskType, BsType

LEMMA SizedDoes ==
  ASSUME StoreTyped, NEW b \in Blobs, disk' = [disk EXCEPT !.size[b] = bs.size[b]]
  PROVE  /\ disk' \in DiskType /\ disk'.super = disk.super /\ disk'.page = disk.page
         /\ disk'.blobs = disk.blobs
         /\ \A c \in Blobs : disk'.size[c] = IF c = b THEN bs.size[b] ELSE disk.size[c]
  BY DEF StoreTyped, DiskType, BsType

LEMMA CloseDoes ==
  ASSUME StoreTyped, NEW b \in Blobs, Close(b)
  PROVE  /\ StoreTyped' /\ disk'.super = disk.super /\ disk'.page = disk.page
         /\ disk'.blobs = disk.blobs
         /\ \A c \in Blobs : disk'.size[c] = IF c = b THEN bs.size[b] ELSE disk.size[c]
         /\ bs'.super = bs.super /\ bs'.open = bs.open \ {b} /\ bs'.size = bs.size
<1>1. /\ disk' = [disk EXCEPT !.size[b] = bs.size[b]]
      /\ bs' = [bs EXCEPT !.open = @ \ {b}]
  BY DEF Close
<1>2. /\ bs' \in BsType
      /\ bs'.super = bs.super /\ bs'.open = bs.open \ {b} /\ bs'.size = bs.size
  BY <1>1 DEF StoreTyped, BsType
<1> QED BY <1>1, <1>2, SizedDoes DEF StoreTyped

\* To close a blob that was not resized changes no size.
LEMMA MirrorCloses ==
  ASSUME StoreTyped, NEW b \in Blobs, Close(b), Mirrored
  PROVE  Mirrored' /\ disk'.size = disk.size
<1>1. /\ disk'.super = disk.super /\ bs'.super = bs.super /\ bs'.size = bs.size
      /\ \A c \in Blobs : disk'.size[c] = IF c = b THEN bs.size[b] ELSE disk.size[c]
      /\ StoreTyped'
  BY CloseDoes
<1>2. bs.super = disk.super /\ bs.size = disk.size
  BY DEF Mirrored
<1>3. disk.size \in [Blobs -> Uint] /\ disk'.size \in [Blobs -> Uint]
  BY <1>1 DEF StoreTyped, DiskType
<1>4. \A c \in Blobs : disk'.size[c] = disk.size[c]
  BY <1>1, <1>2
<1>5. disk'.size = disk.size
  BY <1>3, <1>4
<1> QED BY <1>1, <1>2, <1>5 DEF Mirrored

LEMMA RootIsBlob == 0 \in Blobs /\ 1 \in Slabs
  BY SizesAssumption DEF Blobs, Slabs

LEMMA SoundSame ==
  ASSUME NEW root, NEW d, NEW e, Sound(root, d), e.page = d.page, e.blobs = d.blobs,
         e.size = d.size
  PROVE  Sound(root, e)
  BY DEF Sound, CompleteOf, FullFor

\* _unload_bs keeps the invariant where a root blob may be made to last.
LEMMA UnloadBsKeeps ==
  ASSUME LifeInv, NEW e \in BOOLEAN, UnloadBs(e), app \in {"format", "dump"},
         UNCHANGED runtimeVars, disk' \in DiskType, bs' \in BsType, DiskInv',
         app = "format" /\ bs'.open = {} /\ kctx.bs => Sound(bs'.super, disk'),
         app = "dump" => Mirrored'
  PROVE  LifeInv'
<1>1. TypeOK
  BY DEF LifeInv
<1>2. TypeOK'
  <2>1. kctx' \in ContextType /\ pc' \in Pcs /\ rc' \in {"none", "ok", "error"}
           /\ failed' \in BOOLEAN
    BY <1>1, TypesOf DEF UnloadBs, ContextType, Pcs
  <2>2. sl' \in Layouts /\ slab_idx' = slab_idx /\ app' = app
    BY NoLayoutTyped DEF UnloadBs
  <2> QED BY <1>1, <2>1, <2>2, TypesOf, TypesFrom, RuntimeTypesKept
<1>3. pc' \in {"stopped", "crashed", "unload"} /\ app' = app /\ sl' = NoLayout
        /\ (pc' = "unload" => kctx.bs)
  BY DEF UnloadBs
<1>4. ProgramInv'
  BY <1>3 DEF ProgramInv
<1>5. app = "format" => MakingInv' /\ SlabsInv'
  BY <1>3, NoLayoutTyped DEF MakingInv, SlabsInv, Making, Divides
<1>6. app = "dump" => LoadedInv'
  BY <1>3 DEF LoadedInv
<1> QED BY <1>2, <1>3, <1>4, <1>5, <1>6 DEF LifeInv

\* A formatter that gives up has a blob open, no page written, or is complete.
LEMMA FormatMayStop ==
  ASSUME LifeInv, app = "format", pc \in Making \ {"idle"}, bs.open = {}
  PROVE  Sound(bs.super, disk)
<1>1. MakingInv /\ SlabsInv /\ slab_idx \in Slabs
  BY TypesOf DEF LifeInv
<1>2. CASE pc = "close"
  <2>1. TotalSlabs \in Slabs /\ slab_idx <= TotalSlabs /\ Opened(slab_idx, TotalSlabs)
    BY <1>1, <1>2 DEF SlabsInv
  <2>2. slab_idx \in slab_idx .. TotalSlabs
    BY <1>1, <2>1 DEF Slabs
  <2> QED BY <2>1, <2>2 DEF Opened
<1>3. CASE pc \in {"sync", "close_super"}
  BY <1>1, <1>3 DEF MakingInv
<1>4. CASE pc \notin {"sync", "close_super", "close"}
  BY <1>1, <1>4 DEF MakingInv, Sound
<1> QED BY <1>2, <1>3, <1>4

LEMMA FailsKeeps ==
  ASSUME LifeInv, NEW op, Fails(op), UNCHANGED runtimeVars,
         \/ app = "format" /\ op \in Making \ {"idle"}
         \/ app = "dump" /\ op \in Checking \cup {"dump_close_super", "close"}
  PROVE  LifeInv'
<1>1. pc = op /\ UnloadBs(TRUE) /\ disk' = disk /\ bs' = bs
  BY DEF Fails, storeVars
<1>2. disk' \in DiskType /\ bs' \in BsType /\ DiskInv'
  BY <1>1, TypesOf DEF LifeInv, DiskInv
<1>3. app = "dump" => Mirrored'
  BY <1>1 DEF LifeInv, LoadedInv, Checking, Mirrored
<1>4. app = "format" /\ bs'.open = {} /\ kctx.bs => Sound(bs'.super, disk')
  BY <1>1, FormatMayStop
<1> QED BY <1>1, <1>2, <1>3, <1>4, UnloadBsKeeps

LEMMA StopKeeps ==
  ASSUME LifeInv, NEW code \in {"ok", "error"}, Stop(code), app # "none",
         UNCHANGED runtimeVars, disk' \in DiskType, bs' \in BsType, DiskInv'
  PROVE  LifeInv'
<1>1. pc' = "stopped" /\ app' = app /\ sl' = sl /\ kctx' = kctx /\ slab_idx' = slab_idx
        /\ rc' = code /\ failed' \in BOOLEAN
  BY TypesOf DEF Stop, LifeInv
<1>2. TypeOK'
  BY <1>1, TypesOf, TypesFrom, RuntimeTypesKept DEF Pcs, LifeInv
<1>3. ProgramInv'
  BY <1>1 DEF ProgramInv
<1>4. app = "format" => MakingInv' /\ SlabsInv'
  BY <1>1 DEF MakingInv, SlabsInv, Making, Divides, LifeInv
<1>5. LoadedInv' /\ ServesInv'
  BY <1>1 DEF LoadedInv, ServesInv
<1> QED BY <1>1, <1>2, <1>3, <1>4, <1>5 DEF LifeInv

-----------------------------------------------------------------------------
(* The formatter. *)

\* A step of the formatter that goes on.
LEMMA MakesKeeps ==
  ASSUME LifeInv, app = "format", UNCHANGED runtimeVars, app' = app, rc' = rc,
         failed' = failed, disk' \in DiskType, bs' \in BsType, sl' \in Layouts,
         slab_idx' \in Slabs, kctx' \in ContextType, pc' \in Making \cup {"crashed"},
         DiskInv', MakingInv', SlabsInv'
  PROVE  LifeInv'
<1>1. pc' \in Pcs
  BY DEF Pcs
<1>2. TypeOK'
  BY <1>1, TypesOf, TypesFrom, RuntimeTypesKept DEF LifeInv
<1>3. ProgramInv'
  BY DEF ProgramInv
<1> QED BY <1>2, <1>3 DEF LifeInv

LEMMA FormatFacts ==
  ASSUME LifeInv, app = "format"
  PROVE  /\ StoreTyped /\ disk \in DiskType /\ bs \in BsType
         /\ sl \in Layouts /\ slab_idx \in Slabs
         /\ kctx \in ContextType /\ failed \in BOOLEAN
         /\ DiskInv /\ MakingInv /\ SlabsInv
  BY TypesOf DEF LifeInv

LEMMA KvsCreateFailsKeeps ==
  ASSUME LifeInv, KvsCreateFails, UNCHANGED runtimeVars
  PROVE  LifeInv'
<1>1. app = "format" /\ Stop("error") /\ disk' = disk /\ bs' = bs
  BY DEF KvsCreateFails, storeVars
<1>2. disk' \in DiskType /\ bs' \in BsType /\ DiskInv'
  BY <1>1, FormatFacts DEF DiskInv
<1> QED BY <1>1, <1>2, StopKeeps

LEMMA NewDevice ==
  ASSUME disk' = Blank, bs' = Unloaded
  PROVE  disk' \in DiskType /\ bs' \in BsType /\ DiskInv' /\ disk'.super = NONE
           /\ disk'.page = NONE
  BY NoSizesTyped DEF Blank, Unloaded, DiskType, BsType, DiskInv, Sound

LEMMA BsInitCompleteKeeps ==
  ASSUME LifeInv, BsInitComplete, UNCHANGED runtimeVars
  PROVE  LifeInv'
<1>1. /\ app = "format" /\ disk' = Blank /\ bs' = Unloaded
      /\ kctx' = [kctx EXCEPT !.bs = TRUE] /\ app' = app /\ sl' = sl /\ slab_idx' = slab_idx
  BY DEF BsInitComplete
<1>2. /\ disk' \in DiskType /\ bs' \in BsType /\ DiskInv' /\ disk'.super = NONE
      /\ disk'.page = NONE
  BY <1>1, NewDevice
<1>3. kctx' \in ContextType
  BY <1>1, FormatFacts DEF ContextType
<1>4. Divides(sl')
  BY <1>1, FormatFacts DEF MakingInv
<1>5. CASE pc' = "create_super" /\ rc' = rc /\ failed' = failed
  <2>1. MakingInv' /\ SlabsInv'
    BY <1>2, <1>4, <1>5 DEF MakingInv, SlabsInv, Making
  <2>2. pc' \in Making \cup {"crashed"}
    BY <1>5 DEF Making
  <2> QED BY <1>1, <1>2, <1>3, <1>5, <2>1, <2>2, FormatFacts, MakesKeeps
<1>6. CASE pc' = "stopped" /\ rc' = "error" /\ failed' = TRUE
  <2>1. MakingInv' /\ SlabsInv'
    BY <1>2, <1>4, <1>6 DEF MakingInv, SlabsInv, Making
  <2>2. TypeOK'
    BY <1>1, <1>2, <1>3, <1>6, TypesOf, TypesFrom, RuntimeTypesKept DEF LifeInv, Pcs
  <2>3. ProgramInv'
    BY <1>1, <1>6 DEF ProgramInv
  <2> QED BY <1>1, <1>2, <2>1, <2>2, <2>3 DEF LifeInv
<1> QED BY <1>5, <1>6 DEF BsInitComplete

LEMMA BsInitFailsKeeps ==
  ASSUME LifeInv, BsInitFails, UNCHANGED runtimeVars
  PROVE  LifeInv'
<1>1. /\ app = "format" /\ pc = "bs_init" /\ UnloadBs(TRUE) /\ disk' \in {disk, Blank}
      /\ bs' = bs
  BY DEF BsInitFails
<1>2. /\ disk \in DiskType /\ bs \in BsType /\ DiskInv /\ ~kctx.bs
  BY <1>1, FormatFacts DEF MakingInv
<1>3. disk' \in DiskType /\ DiskInv'
  BY <1>1, <1>2, NoSizesTyped DEF Blank, DiskType, DiskInv, Sound
<1> QED BY <1>1, <1>2, <1>3, UnloadBsKeeps

LEMMA SuperBlobCreateCompleteKeeps ==
  ASSUME LifeInv, SuperBlobCreateComplete, UNCHANGED runtimeVars
  PROVE  LifeInv'
<1>1. app = "format" /\ pc = "create_super"
  BY DEF SuperBlobCreateComplete
<1>2. CASE disk' = [disk EXCEPT !.blobs = @ \cup {0}] /\ Await("set_super") /\ bs' = bs
  <2>1. /\ pc' = "set_super" /\ app' = app /\ sl' = sl /\ slab_idx' = slab_idx
        /\ kctx' = kctx /\ rc' = rc /\ failed' = failed
    BY <1>2 DEF Await
  <2>2. /\ disk' \in DiskType /\ disk'.super = NONE /\ disk'.page = NONE
        /\ 0 \in disk'.blobs
    BY <1>1, <1>2, RootIsBlob, FormatFacts DEF DiskType, MakingInv, Making
  <2>3. DiskInv' /\ MakingInv' /\ SlabsInv'
    BY <1>1, <1>2, <2>1, <2>2, FormatFacts DEF DiskInv, Sound, MakingInv, SlabsInv, Divides
  <2>4. pc' \in Making \cup {"crashed"}
    BY <2>1 DEF Making
  <2> QED BY <1>1, <1>2, <2>1, <2>2, <2>3, <2>4, FormatFacts, MakesKeeps
<1>3. CASE Fails("create_super")
  BY <1>1, <1>3, FailsKeeps DEF Making
<1> QED BY <1>2, <1>3 DEF SuperBlobCreateComplete

LEMMA SetSuperRootCompleteKeeps ==
  ASSUME LifeInv, SetSuperRootComplete, UNCHANGED runtimeVars
  PROVE  LifeInv'
<1>1. app = "format" /\ pc = "set_super"
  BY DEF SetSuperRootComplete
<1>2. CASE bs' = [bs EXCEPT !.super = 0] /\ Await("open_super") /\ disk' = disk
  <2>1. /\ pc' = "open_super" /\ app' = app /\ sl' = sl /\ slab_idx' = slab_idx
        /\ kctx' = kctx /\ rc' = rc /\ failed' = failed
    BY <1>2 DEF Await
  <2>2. bs' \in BsType /\ bs'.super = 0
    BY <1>1, <1>2, RootIsBlob, FormatFacts DEF BsType
  <2>3. DiskInv' /\ MakingInv' /\ SlabsInv'
    BY <1>1, <1>2, <2>1, <2>2, FormatFacts
    DEF DiskInv, Sound, MakingInv, SlabsInv, Making, Divides
  <2>4. pc' \in Making \cup {"crashed"}
    BY <2>1 DEF Making
  <2> QED BY <1>1, <1>2, <2>1, <2>2, <2>3, <2>4, FormatFacts, MakesKeeps
<1>3. CASE Fails("set_super")
  BY <1>1, <1>3, FailsKeeps DEF Making
<1> QED BY <1>2, <1>3 DEF SetSuperRootComplete

LEMMA SuperBlobOpenCompleteKeeps ==
  ASSUME LifeInv, SuperBlobOpenComplete, UNCHANGED runtimeVars
  PROVE  LifeInv'
<1>1. app = "format" /\ pc = "open_super"
  BY DEF SuperBlobOpenComplete
<1>2. ASSUME Open(0)
      PROVE  /\ bs' \in BsType /\ bs'.super = bs.super /\ 0 \in bs'.open /\ disk' = disk
             /\ DiskInv'
  BY <1>1, <1>2, RootIsBlob, FormatFacts, OpenDoes DEF StoreTyped, DiskInv, Sound
<1>3. ASSUME Open(0), kctx' = [kctx EXCEPT !.channel = "held"], pc' = "resize_super",
             UNCHANGED <<app, sl, slab_idx, rc, failed>>
      PROVE  LifeInv'
  <2>1. kctx' \in ContextType
    BY <1>1, <1>3, FormatFacts DEF ContextType
  <2>2. MakingInv' /\ SlabsInv'
    BY <1>1, <1>2, <1>3, FormatFacts DEF MakingInv, SlabsInv, Making, Divides
  <2>3. pc' \in Making \cup {"crashed"}
    BY <1>3 DEF Making
  <2> QED BY <1>1, <1>2, <1>3, <2>1, <2>2, <2>3, FormatFacts, MakesKeeps
<1>4. ASSUME Open(0), UnloadBs(TRUE) PROVE LifeInv'
  BY <1>1, <1>2, <1>4, FormatFacts, UnloadBsKeeps
<1>5. CASE Fails("open_super")
  BY <1>1, <1>5, FailsKeeps DEF Making
<1> QED BY <1>3, <1>4, <1>5 DEF SuperBlobOpenComplete

LEMMA SuperResizeCompleteKeeps ==
  ASSUME LifeInv, SuperResizeComplete, UNCHANGED runtimeVars
  PROVE  LifeInv'
<1>1. app = "format" /\ pc = "resize_super"
  BY DEF SuperResizeComplete
<1>2. CASE Resize(0, 1) /\ Foreach("create") /\ sl' = sl
  <2>1. /\ pc' = "create" /\ app' = app /\ sl' = sl /\ slab_idx' = 1
        /\ kctx' = kctx /\ rc' = rc /\ failed' = failed /\ disk' = disk
    BY <1>2 DEF Foreach, Resize
  <2>2. bs' \in BsType /\ bs'.super = bs.super /\ bs'.open = bs.open
    BY <1>1, <1>2, RootIsBlob, NoSizesTyped, FormatFacts, ResizeDoes DEF StoreTyped
  <2>3. slab_idx' \in Slabs
    BY <2>1, RootIsBlob
  <2>4. Recorded(sl', slab_idx' - 1, disk'.blobs)
    BY <2>1 DEF Recorded
  <2>5. DiskInv' /\ MakingInv' /\ SlabsInv'
    BY <1>1, <2>1, <2>2, <2>4, FormatFacts
    DEF DiskInv, Sound, MakingInv, SlabsInv, Making, Divides
  <2>6. pc' \in Making \cup {"crashed"}
    BY <2>1 DEF Making
  <2> QED BY <1>1, <2>1, <2>2, <2>3, <2>5, <2>6, FormatFacts, MakesKeeps
<1>3. CASE Fails("resize_super")
  BY <1>1, <1>3, FailsKeeps DEF Making
<1> QED BY <1>2, <1>3 DEF SuperResizeComplete

\* Facts of numbers of slabs.
LEMMA SlabRange ==
  ASSUME NEW n \in Slabs
  PROVE  /\ n \in Nat /\ n >= 1 /\ n <= BufferSlabs
         /\ \A s \in 1 .. n : s \in Slabs /\ (s # n => s \in 1 .. n - 1)
         /\ \A s \in 1 .. n - 1 : s \in Slabs /\ s \in 1 .. n /\ s # n
         /\ n < BufferSlabs => n + 1 \in Slabs /\ 1 .. (n + 1) - 1 = 1 .. n
  BY SizesAssumption DEF Slabs

LEMMA SlabUpTo ==
  ASSUME NEW n \in Slabs, NEW k \in Slabs, k <= n, NEW s \in 1 .. k
  PROVE  s \in 1 .. n /\ k \in 1 .. n /\ (s # k => s \in 1 .. k - 1)
<1>1. n \in Nat /\ k \in Nat /\ k >= 1
  BY SlabRange
<1> QED BY <1>1

LEMMA SlabCreated ==
  ASSUME sl \in Layouts, slab_idx \in Slabs, NEW blobs \in SUBSET Blobs,
         NEW b \in Blobs, b \notin blobs, 0 \in blobs,
         Recorded(sl, slab_idx - 1, blobs),
         sl' = [sl EXCEPT !.slab[slab_idx].blob_id = b]
  PROVE  /\ sl' \in Layouts /\ sl'.nb_shards = sl.nb_shards
         /\ Recorded(sl', slab_idx, blobs \cup {b})
<1>1. /\ sl' \in Layouts /\ sl'.nb_shards = sl.nb_shards
      /\ \A s \in Slabs : sl'.slab[s].blob_id = IF s = slab_idx THEN b ELSE sl.slab[s].blob_id
  BY DEF Layouts
<1>2. \A s \in 1 .. slab_idx : s \in Slabs /\ (s # slab_idx => s \in 1 .. slab_idx - 1)
  BY SlabRange
<1>3. \A s \in 1 .. slab_idx : s # slab_idx => sl'.slab[s].blob_id \in blobs \ {0}
  BY <1>1, <1>2 DEF Recorded
<1>4. sl'.slab[slab_idx].blob_id = b
  BY <1>1
<1>5. \A s \in 1 .. slab_idx : sl'.slab[s].blob_id \in (blobs \cup {b}) \ {0}
  BY <1>3, <1>4
<1>6. \A s, t \in 1 .. slab_idx : sl'.slab[s].blob_id = sl'.slab[t].blob_id => s = t
  <2>1. TAKE s, t \in 1 .. slab_idx
  <2>2. CASE s = slab_idx \/ t = slab_idx
    BY <1>3, <1>4, <2>2
  <2>3. CASE s # slab_idx /\ t # slab_idx
    BY <1>1, <1>2, <2>3 DEF Recorded
  <2> QED BY <2>2, <2>3
<1> QED BY <1>1, <1>5, <1>6 DEF Recorded

LEMMA ForeachCreateCbKeeps ==
  ASSUME LifeInv, ForeachCreateCb, UNCHANGED runtimeVars
  PROVE  LifeInv'
<1>1. app = "format" /\ pc = "create"
  BY DEF ForeachCreateCb
<1>2. ASSUME NEW b \in Blobs \ disk.blobs, disk' = [disk EXCEPT !.blobs = @ \cup {b}],
             sl' = [sl EXCEPT !.slab[slab_idx].blob_id = b], ForeachNext(AfterCreate),
             bs' = bs
      PROVE  LifeInv'
  <2>1. /\ disk' \in DiskType /\ disk'.super = disk.super /\ disk'.page = disk.page
        /\ disk'.blobs = disk.blobs \cup {b}
    BY <1>1, <1>2, FormatFacts DEF DiskType
  <2>2. /\ 0 \in disk.blobs /\ disk.blobs \in SUBSET Blobs
        /\ Recorded(sl, slab_idx - 1, disk.blobs) /\ sl \in Layouts /\ slab_idx \in Slabs
    BY <1>1, FormatFacts DEF MakingInv, DiskType
  <2>3. /\ sl' \in Layouts /\ sl'.nb_shards = sl.nb_shards
        /\ Recorded(sl', slab_idx, disk'.blobs)
    BY <1>2, <2>1, <2>2, SlabCreated
  <2>4. Divides(sl') /\ TotalSlabs' = TotalSlabs
    BY <1>1, <2>3, FormatFacts DEF MakingInv, Divides, TotalSlabs
  <2>5. /\ disk'.super = NONE /\ disk'.page = NONE /\ 0 \in bs'.open /\ 0 \in disk'.blobs
        /\ DiskInv'
    BY <1>1, <1>2, <2>1, FormatFacts DEF MakingInv, Making, DiskInv, Sound
  <2>6. CASE slab_idx = TotalSlabs /\ AfterCreate
    <3>1. /\ app' = app /\ kctx' = kctx /\ rc' = rc /\ failed' = failed
          /\ slab_idx' \in Slabs
          /\ \/ pc' = "write" /\ ~(kctx.nodes > 0)
             \/ pc' = "open" /\ kctx.nodes > 0 /\ slab_idx' = 1
      BY <2>2, <2>6, RootIsBlob DEF AfterCreate, Foreach
    <3>2. TotalSlabs' \in Slabs /\ Recorded(sl', TotalSlabs', disk'.blobs)
      BY <2>2, <2>3, <2>4, <2>6
    <3>3. slab_idx' = 1 => slab_idx' <= TotalSlabs' /\ Opened(1, slab_idx - 1)'
      BY <3>2, SlabRange DEF Opened
    <3>4. MakingInv' /\ SlabsInv'
      BY <2>4, <2>5, <3>1, <3>2, <3>3 DEF MakingInv, SlabsInv, Making
    <3>5. pc' \in Making \cup {"crashed"}
      BY <3>1 DEF Making
    <3> QED BY <1>1, <1>2, <2>1, <2>3, <2>5, <3>1, <3>4, <3>5, FormatFacts, MakesKeeps
  <2>7. CASE slab_idx # TotalSlabs /\ slab_idx < BufferSlabs /\ NextSlab
    <3>1. /\ app' = app /\ kctx' = kctx /\ rc' = rc /\ failed' = failed /\ pc' = pc
          /\ slab_idx' = slab_idx + 1 /\ slab_idx' \in Slabs
      BY <2>2, <2>7, SlabRange DEF NextSlab
    <3>2. Recorded(sl', slab_idx' - 1, disk'.blobs)
      BY <2>2, <2>3, <2>7, <3>1, SlabRange
    <3>3. MakingInv' /\ SlabsInv'
      BY <1>1, <2>4, <2>5, <3>1, <3>2 DEF MakingInv, SlabsInv
    <3>4. pc' \in Making \cup {"crashed"}
      BY <1>1, <3>1 DEF Making
    <3> QED BY <1>1, <1>2, <2>1, <2>3, <2>5, <3>1, <3>3, <3>4, FormatFacts, MakesKeeps
  <2>8. CASE pc' = "crashed" /\ UNCHANGED <<app, kctx, slab_idx, rc, failed>>
    <3>1. MakingInv' /\ SlabsInv'
      BY <2>4, <2>8 DEF MakingInv, SlabsInv, Making
    <3> QED BY <1>1, <1>2, <2>1, <2>2, <2>3, <2>5, <2>8, <3>1, FormatFacts, MakesKeeps
  <2> QED BY <1>2, <2>6, <2>7, <2>8 DEF ForeachNext
<1>3. CASE Fails("create")
  BY <1>1, <1>3, FailsKeeps DEF Making
<1> QED BY <1>2, <1>3 DEF ForeachCreateCb

\* The slab at slab_idx has been opened.
LEMMA SlabOpened ==
  ASSUME StoreTyped, sl \in Layouts, slab_idx \in Slabs, Opened(1, slab_idx - 1),
         sl.slab[slab_idx].blob_id \in disk.blobs, Open(sl.slab[slab_idx].blob_id),
         sl' = [sl EXCEPT !.slab[slab_idx].resv = sl.slab[slab_idx].blob_id]
  PROVE  /\ sl' \in Layouts /\ Same(sl', sl) /\ StoreTyped' /\ disk' = disk
         /\ bs'.super = bs.super /\ bs'.size = bs.size /\ bs.open \subseteq bs'.open
         /\ \A s \in 1 .. slab_idx : /\ sl'.slab[s].resv = sl'.slab[s].blob_id
                                     /\ sl'.slab[s].blob_id \in bs'.open
<1>1. sl.slab[slab_idx].blob_id \in Blobs
  BY DEF StoreTyped, DiskType
<1>2. /\ StoreTyped' /\ disk' = disk /\ bs'.super = bs.super /\ bs'.size = bs.size
      /\ bs'.open = bs.open \cup {sl.slab[slab_idx].blob_id}
  BY <1>1, OpenDoes
<1>3. /\ sl' \in Layouts /\ sl'.nb_shards = sl.nb_shards
      /\ \A s \in Slabs : sl'.slab[s].blob_id = sl.slab[s].blob_id
      /\ \A s \in Slabs : s # slab_idx => sl'.slab[s].resv = sl.slab[s].resv
      /\ sl'.slab[slab_idx].resv = sl.slab[slab_idx].blob_id
  BY <1>1 DEF Layouts
<1>4. \A s \in 1 .. slab_idx : s \in Slabs /\ (s # slab_idx => s \in 1 .. slab_idx - 1)
  BY SlabRange
<1>5. \A s \in 1 .. slab_idx : /\ sl'.slab[s].resv = sl'.slab[s].blob_id
                               /\ sl'.slab[s].blob_id \in bs'.open
  <2>1. TAKE s \in 1 .. slab_idx
  <2>2. CASE s = slab_idx
    BY <1>2, <1>3, <2>2
  <2>3. CASE s # slab_idx
    BY <1>2, <1>3, <1>4, <2>3 DEF Opened
  <2> QED BY <2>2, <2>3
<1> QED BY <1>2, <1>3, <1>5 DEF Same

LEMMA SameLayout ==
  ASSUME NEW a \in Layouts, NEW c \in Layouts, Same(c, a)
  PROVE  /\ c.nb_shards = a.nb_shards /\ Total(c) = Total(a)
         /\ Divides(a) => Divides(c)
         /\ \A n \in Slabs : \A blobs : Recorded(a, n, blobs) => Recorded(c, n, blobs)
<1>1. c.nb_shards = a.nb_shards /\ \A s \in Slabs : c.slab[s].blob_id = a.slab[s].blob_id
  BY DEF Same
<1>2. ASSUME NEW n \in Slabs, NEW blobs, Recorded(a, n, blobs) PROVE Recorded(c, n, blobs)
  BY <1>1, <1>2, SlabRange DEF Recorded
<1> QED BY <1>1, <1>2 DEF Total, Divides

LEMMA FormatOpensKeeps ==
  ASSUME LifeInv, app = "format", ForeachOpenCb, UNCHANGED runtimeVars
  PROVE  LifeInv'
<1>1. pc = "open"
  BY DEF ForeachOpenCb
<1>2. ASSUME sl.slab[slab_idx].blob_id \in disk.blobs, Open(sl.slab[slab_idx].blob_id),
             sl' = [sl EXCEPT !.slab[slab_idx].resv = sl.slab[slab_idx].blob_id],
             ForeachNext(AfterOpen)
      PROVE  LifeInv'
  <2>1. /\ StoreTyped /\ sl \in Layouts /\ slab_idx \in Slabs /\ TotalSlabs \in Slabs
        /\ Recorded(sl, TotalSlabs, disk.blobs) /\ slab_idx <= TotalSlabs /\ kctx.nodes > 0
        /\ Opened(1, slab_idx - 1)
    BY <1>1, FormatFacts DEF SlabsInv
  <2>2. /\ sl' \in Layouts /\ Same(sl', sl) /\ StoreTyped' /\ disk' = disk
        /\ bs'.super = bs.super /\ bs'.size = bs.size /\ bs.open \subseteq bs'.open
        /\ \A s \in 1 .. slab_idx : /\ sl'.slab[s].resv = sl'.slab[s].blob_id
                                    /\ sl'.slab[s].blob_id \in bs'.open
    BY <1>2, <2>1, SlabOpened
  <2>3. /\ Divides(sl') /\ TotalSlabs' = TotalSlabs /\ Recorded(sl', TotalSlabs', disk'.blobs)
    <3>1. Divides(sl)
      BY FormatFacts DEF MakingInv
    <3>2. TotalSlabs' = TotalSlabs
      BY <2>1, <2>2, SameLayout DEF TotalSlabs
    <3> QED BY <2>1, <2>2, <3>1, <3>2, SameLayout
  <2>4. disk'.super = NONE /\ disk'.page = NONE /\ 0 \in bs'.open /\ DiskInv'
    BY <1>1, <2>2, FormatFacts DEF MakingInv, Making, DiskInv, Sound
  <2>5. CASE slab_idx = TotalSlabs /\ AfterOpen
    <3>1. /\ app' = app /\ kctx' = kctx /\ rc' = rc /\ failed' = failed
          /\ slab_idx' = 1 /\ pc' = "resize"
      BY <2>5 DEF AfterOpen, Foreach
    <3>2. Opened(1, TotalSlabs)'
      BY <2>2, <2>3, <2>5 DEF Opened
    <3>3. slab_idx' <= TotalSlabs' /\ Resized(slab_idx - 1)'
      BY <2>1, <2>3, <3>1, SlabRange DEF Resized, Sized
    <3>4. MakingInv' /\ SlabsInv'
      BY <2>1, <2>3, <2>4, <3>1, <3>2, <3>3 DEF MakingInv, SlabsInv, Making
    <3>5. pc' \in Making \cup {"crashed"}
      BY <3>1 DEF Making
    <3> QED BY <2>2, <2>4, <3>1, <3>4, <3>5, RootIsBlob, FormatFacts, MakesKeeps DEF StoreTyped
  <2>6. CASE slab_idx # TotalSlabs /\ slab_idx < BufferSlabs /\ NextSlab
    <3>1. /\ app' = app /\ kctx' = kctx /\ rc' = rc /\ failed' = failed /\ pc' = pc
          /\ slab_idx' = slab_idx + 1 /\ slab_idx' \in Slabs
      BY <2>1, <2>6, SlabRange DEF NextSlab
    <3>2. Opened(1, slab_idx - 1)'
      BY <2>1, <2>2, <2>6, <3>1, SlabRange DEF Opened
    <3>3. slab_idx' <= TotalSlabs'
      BY <2>1, <2>3, <2>6, <3>1, SlabRange
    <3>4. MakingInv' /\ SlabsInv'
      BY <1>1, <2>1, <2>3, <2>4, <3>1, <3>2, <3>3 DEF MakingInv, SlabsInv
    <3>5. pc' \in Making \cup {"crashed"}
      BY <1>1, <3>1 DEF Making
    <3> QED BY <2>2, <2>4, <3>1, <3>4, <3>5, FormatFacts, MakesKeeps DEF StoreTyped
  <2>7. CASE pc' = "crashed" /\ UNCHANGED <<app, kctx, slab_idx, rc, failed>>
    <3>1. MakingInv' /\ SlabsInv'
      BY <2>3, <2>7 DEF MakingInv, SlabsInv, Making
    <3> QED BY <2>1, <2>2, <2>4, <2>7, <3>1, FormatFacts, MakesKeeps DEF StoreTyped
  <2> QED BY <1>2, <2>5, <2>6, <2>7 DEF ForeachNext
<1>3. CASE Fails("open")
  BY <1>3, FailsKeeps DEF Making
<1> QED BY <1>2, <1>3 DEF ForeachOpenCb

LEMMA ForeachResizeCbKeeps ==
  ASSUME LifeInv, ForeachResizeCb, UNCHANGED runtimeVars
  PROVE  LifeInv'
<1>1. app = "format" /\ pc = "resize"
  BY DEF ForeachResizeCb
<1>2. ASSUME Resize(sl.slab[slab_idx].resv, InitClusters(kctx.nodes, sl.nb_chunks)),
             ForeachNext(Foreach("write")), sl' = sl
      PROVE  LifeInv'
  <2>1. /\ StoreTyped /\ sl \in Layouts /\ slab_idx \in Slabs /\ TotalSlabs \in Slabs
        /\ Recorded(sl, TotalSlabs, disk.blobs) /\ slab_idx <= TotalSlabs /\ kctx.nodes > 0
        /\ Opened(1, TotalSlabs) /\ Resized(slab_idx - 1)
    BY <1>1, FormatFacts DEF SlabsInv
  <2>2. /\ sl.slab[slab_idx].resv = sl.slab[slab_idx].blob_id
        /\ sl.slab[slab_idx].blob_id \in Blobs
    <3>1. slab_idx \in 1 .. TotalSlabs
      BY <2>1, SlabRange
    <3> QED BY <2>1, <3>1 DEF Opened, Recorded, StoreTyped, DiskType
  <2>3. /\ StoreTyped' /\ disk' = disk /\ bs'.super = bs.super
        /\ bs'.open = bs.open
        /\ \A c \in Blobs : bs'.size[c] = IF c = sl.slab[slab_idx].blob_id THEN InitSize
                                                                         ELSE bs.size[c]
    <3>1. InitSize \in Uint
      BY <1>1, FormatFacts, InitSizeTyped
    <3>2. Resize(sl.slab[slab_idx].blob_id, InitSize)
      BY <1>2, <2>2 DEF InitSize
    <3> QED BY <2>1, <2>2, <3>1, <3>2, ResizeDoes
  <2>4. /\ Divides(sl') /\ TotalSlabs' = TotalSlabs /\ Recorded(sl', TotalSlabs', disk'.blobs)
        /\ Opened(1, TotalSlabs)'
    BY <1>1, <1>2, <2>1, <2>3, FormatFacts DEF MakingInv, TotalSlabs, Opened
  <2>5. disk'.super = NONE /\ disk'.page = NONE /\ 0 \in bs'.open /\ DiskInv'
    BY <1>1, <2>3, FormatFacts DEF MakingInv, Making, DiskInv, Sound
  <2>6. Sized(sl, slab_idx, bs'.size, InitSize)
    <3>1. SUFFICES ASSUME NEW s \in 1 .. slab_idx
                   PROVE  bs'.size[sl.slab[s].blob_id] = InitSize
      BY DEF Sized
    <3>2. s \in 1 .. TotalSlabs /\ (s # slab_idx => s \in 1 .. slab_idx - 1)
      BY <2>1, SlabUpTo
    <3>3. sl.slab[s].blob_id \in Blobs
      BY <2>1, <3>2 DEF Recorded, StoreTyped, DiskType
    <3> QED BY <2>1, <2>3, <3>2, <3>3 DEF Resized, Sized
  <2>7. CASE slab_idx = TotalSlabs /\ Foreach("write")
    <3>1. /\ app' = app /\ kctx' = kctx /\ rc' = rc /\ failed' = failed
          /\ slab_idx' = 1 /\ pc' = "write"
      BY <2>7 DEF Foreach
    <3>2. Resized(TotalSlabs)'
      BY <1>2, <2>4, <2>6, <2>7, <3>1 DEF Resized, InitSize
    <3>3. MakingInv' /\ SlabsInv'
      BY <2>1, <2>4, <2>5, <3>1, <3>2 DEF MakingInv, SlabsInv, Making
    <3>4. pc' \in Making \cup {"crashed"}
      BY <3>1 DEF Making
    <3> QED BY <1>1, <1>2, <2>1, <2>3, <2>5, <3>1, <3>3, <3>4, RootIsBlob, FormatFacts, MakesKeeps
            DEF StoreTyped
  <2>8. CASE slab_idx # TotalSlabs /\ slab_idx < BufferSlabs /\ NextSlab
    <3>1. /\ app' = app /\ kctx' = kctx /\ rc' = rc /\ failed' = failed /\ pc' = pc
          /\ slab_idx' = slab_idx + 1 /\ slab_idx' \in Slabs
      BY <2>1, <2>8, SlabRange DEF NextSlab
    <3>2. Resized(slab_idx - 1)'
      BY <1>2, <2>1, <2>6, <2>8, <3>1, SlabRange DEF Resized, Sized, InitSize
    <3>3. slab_idx' <= TotalSlabs'
      <4>1. slab_idx \in Nat /\ TotalSlabs \in Nat
        BY <2>1, SlabRange
      <4>2. slab_idx + 1 <= TotalSlabs
        BY <2>1, <2>8, <4>1
      <4> QED BY <2>4, <3>1, <4>2
    <3>4. MakingInv' /\ SlabsInv'
      BY <1>1, <2>1, <2>4, <2>5, <3>1, <3>2, <3>3 DEF MakingInv, SlabsInv
    <3>5. pc' \in Making \cup {"crashed"}
      BY <1>1, <3>1 DEF Making
    <3> QED BY <1>1, <1>2, <2>1, <2>3, <2>5, <3>1, <3>4, <3>5, FormatFacts, MakesKeeps
            DEF StoreTyped
  <2>9. CASE pc' = "crashed" /\ UNCHANGED <<app, kctx, slab_idx, rc, failed>>
    <3>1. MakingInv' /\ SlabsInv'
      BY <2>4, <2>9 DEF MakingInv, SlabsInv, Making
    <3> QED BY <1>1, <1>2, <2>1, <2>3, <2>5, <2>9, <3>1, FormatFacts, MakesKeeps DEF StoreTyped
  <2> QED BY <1>2, <2>7, <2>8, <2>9 DEF ForeachNext
<1>3. CASE Fails("resize")
  BY <1>1, <1>3, FailsKeeps DEF Making
<1> QED BY <1>2, <1>3 DEF ForeachResizeCb

LEMMA TornTyped ==
  ASSUME StoreTyped, sl \in Layouts, NEW d \in TornWrites
  PROVE  d \in DiskType /\ d.super = disk.super
<1>1. CASE d = disk
  BY <1>1 DEF StoreTyped
<1>2. ASSUME NEW written \in SUBSET Slabs,
             d = [disk EXCEPT !.page = [sl EXCEPT !.slab =
                   [s \in Slabs |-> IF s \in written THEN sl.slab[s] ELSE NoSlab]]]
      PROVE  d \in DiskType /\ d.super = disk.super
  <2> DEFINE page == [sl EXCEPT !.slab =
                       [s \in Slabs |-> IF s \in written THEN sl.slab[s] ELSE NoSlab]]
  <2>1. page \in Layouts
    BY DEF Layouts, NoSlab
  <2> HIDE DEF page
  <2>2. d = [disk EXCEPT !.page = page]
    BY <1>2 DEF page
  <2> QED BY <2>1, <2>2 DEF StoreTyped, DiskType
<1> QED BY <1>1, <1>2 DEF TornWrites

LEMMA SuperWriteCompleteKeeps ==
  ASSUME LifeInv, SuperWriteComplete, UNCHANGED runtimeVars
  PROVE  LifeInv'
<1>1. app = "format" /\ pc = "write"
  BY DEF SuperWriteComplete
<1>2. disk.super = NONE /\ 0 \in bs.open
  BY <1>1, FormatFacts DEF MakingInv, Making
<1>3. CASE disk' = [disk EXCEPT !.page = sl] /\ Await("sync") /\ bs' = bs
  <2>1. /\ pc' = "sync" /\ app' = app /\ sl' = sl /\ slab_idx' = slab_idx
        /\ kctx' = kctx /\ rc' = rc /\ failed' = failed
    BY <1>3 DEF Await
  <2>2. disk' \in DiskType /\ disk'.super = NONE /\ disk'.page = sl /\ disk'.blobs = disk.blobs
    BY <1>1, <1>2, <1>3, FormatFacts DEF DiskType
  <2>3. DiskInv' /\ MakingInv'
    BY <1>1, <1>2, <1>3, <2>1, <2>2, FormatFacts DEF DiskInv, Sound, MakingInv, Making, Divides
  <2>4. SlabsInv'
    BY <1>1, <1>3, <2>1, <2>2, FormatFacts DEF SlabsInv, TotalSlabs, Opened, Resized, InitSize
  <2>5. pc' \in Making \cup {"crashed"}
    BY <2>1 DEF Making
  <2> QED BY <1>1, <1>3, <2>1, <2>2, <2>3, <2>4, <2>5, FormatFacts, MakesKeeps
<1>4. CASE UnloadBs(TRUE) /\ disk' \in TornWrites /\ bs' = bs
  <2>1. disk' \in DiskType /\ disk'.super = NONE
    BY <1>1, <1>2, <1>4, FormatFacts, TornTyped
  <2>2. DiskInv'
    BY <1>1, <1>4, <2>1, FormatFacts DEF DiskInv, Sound
  <2> QED BY <1>1, <1>2, <1>4, <2>1, <2>2, FormatFacts, UnloadBsKeeps
<1> QED BY <1>3, <1>4 DEF SuperWriteComplete

LEMMA SuperSyncCompleteKeeps ==
  ASSUME LifeInv, SuperSyncComplete, UNCHANGED runtimeVars
  PROVE  LifeInv'
<1>1. app = "format" /\ pc = "sync"
  BY DEF SuperSyncComplete
<1>2. CASE Sync(0) /\ Await("close_super")
  <2>1. /\ pc' = "close_super" /\ app' = app /\ sl' = sl /\ slab_idx' = slab_idx
        /\ kctx' = kctx /\ rc' = rc /\ failed' = failed
    BY <1>2 DEF Await
  <2>2. /\ disk' \in DiskType /\ disk'.super = disk.super /\ disk'.page = disk.page
        /\ disk'.blobs = disk.blobs /\ bs' = bs
    BY <1>1, <1>2, FormatFacts, RootIsBlob, SizedDoes DEF Sync
  <2>3. DiskInv' /\ MakingInv'
    BY <1>1, <2>1, <2>2, FormatFacts DEF DiskInv, Sound, MakingInv, Making, Divides
  <2>4. SlabsInv'
    BY <1>1, <2>1, <2>2, FormatFacts DEF SlabsInv, TotalSlabs, Opened, Resized, InitSize
  <2>5. pc' \in Making \cup {"crashed"}
    BY <2>1 DEF Making
  <2> QED BY <1>1, <2>1, <2>2, <2>3, <2>4, <2>5, FormatFacts, MakesKeeps
<1>3. CASE Fails("sync")
  BY <1>1, <1>3, FailsKeeps DEF Making
<1> QED BY <1>2, <1>3 DEF SuperSyncComplete

LEMMA SuperBlobCloseCompleteKeeps ==
  ASSUME LifeInv, SuperBlobCloseComplete, UNCHANGED runtimeVars
  PROVE  LifeInv'
<1>1. app = "format" /\ pc = "close_super"
  BY DEF SuperBlobCloseComplete
<1>2. /\ StoreTyped /\ sl \in Layouts /\ slab_idx \in Slabs /\ TotalSlabs \in Slabs
      /\ Recorded(sl, TotalSlabs, disk.blobs) /\ disk.page = sl /\ disk.super = NONE /\ Divides(sl)
  BY <1>1, FormatFacts DEF SlabsInv, MakingInv, Making
<1>3. ASSUME Close(0)
      PROVE  /\ StoreTyped' /\ disk'.super = NONE /\ disk'.page = sl
             /\ disk'.blobs = disk.blobs
             /\ bs'.super = bs.super /\ bs'.open = bs.open \ {0} /\ bs'.size = bs.size
             /\ DiskInv'
  <2>1. /\ StoreTyped' /\ disk'.super = NONE /\ disk'.page = sl /\ disk'.blobs = disk.blobs
        /\ bs'.super = bs.super /\ bs'.open = bs.open \ {0} /\ bs'.size = bs.size
    BY <1>2, <1>3, RootIsBlob, CloseDoes
  <2> QED BY <1>1, <2>1, FormatFacts DEF DiskInv, Sound
<1>4. ASSUME Close(0), kctx.nodes > 0, Foreach("close"), sl' = sl PROVE LifeInv'
  <2>1. /\ pc' = "close" /\ app' = app /\ slab_idx' = 1 /\ kctx' = kctx /\ rc' = rc
        /\ failed' = failed
    BY <1>4 DEF Foreach
  <2>2. Opened(1, TotalSlabs) /\ Resized(TotalSlabs)
    BY <1>1, <1>4, FormatFacts DEF SlabsInv
  <2>3. TotalSlabs' = TotalSlabs /\ Recorded(sl', TotalSlabs', disk'.blobs)
    BY <1>2, <1>3, <1>4 DEF TotalSlabs
  <2>4. Opened(slab_idx, TotalSlabs)' /\ Resized(TotalSlabs)'
    BY <1>2, <1>3, <1>4, <2>1, <2>2, <2>3 DEF Opened, Resized, Recorded, InitSize
  <2>5. slab_idx' <= TotalSlabs' /\ Sized(sl, slab_idx - 1, disk.size, InitSize)'
    BY <1>2, <2>1, <2>3, SlabRange DEF Sized
  <2>6. SlabsInv'
    BY <1>2, <1>3, <1>4, <2>1, <2>3, <2>4, <2>5 DEF SlabsInv
  <2>7. MakingInv'
    BY <1>2, <1>3, <1>4, <2>1 DEF MakingInv
  <2>8. pc' \in Making \cup {"crashed"}
    BY <2>1 DEF Making
  <2> QED BY <1>1, <1>2, <1>3, <1>4, <2>1, <2>6, <2>7, <2>8, RootIsBlob, FormatFacts, MakesKeeps
          DEF StoreTyped
<1>5. ASSUME Close(0), Await("idle") PROVE LifeInv'
  <2>1. /\ pc' = "idle" /\ app' = app /\ sl' = sl /\ slab_idx' = slab_idx
        /\ kctx' = kctx /\ rc' = rc /\ failed' = failed
    BY <1>5 DEF Await
  <2>2. MakingInv' /\ SlabsInv'
    BY <1>2, <1>3, <1>5, <2>1 DEF MakingInv, SlabsInv
  <2>3. pc' \in Making \cup {"crashed"}
    BY <2>1 DEF Making
  <2> QED BY <1>1, <1>2, <1>3, <1>5, <2>1, <2>2, <2>3, FormatFacts, MakesKeeps DEF StoreTyped
<1>6. CASE Fails("close_super")
  BY <1>1, <1>6, FailsKeeps DEF Making
<1> QED BY <1>4, <1>5, <1>6 DEF SuperBlobCloseComplete

\* The slab at slab_idx has been closed: the others of a layout are unlike it.
LEMMA SlabClosed ==
  ASSUME StoreTyped, sl \in Layouts, slab_idx \in Slabs, TotalSlabs \in Slabs,
         slab_idx <= TotalSlabs, Recorded(sl, TotalSlabs, disk.blobs),
         Opened(slab_idx, TotalSlabs), Close(sl.slab[slab_idx].resv)
  PROVE  /\ StoreTyped' /\ disk'.super = disk.super /\ disk'.page = disk.page
         /\ disk'.blobs = disk.blobs
         /\ \E b \in Blobs \ {0} :
              /\ b = sl.slab[slab_idx].blob_id /\ Close(b)
              /\ \A c \in Blobs : disk'.size[c] = IF c = b THEN bs.size[b] ELSE disk.size[c]
         /\ bs'.super = bs.super /\ bs'.size = bs.size
         /\ \A s \in slab_idx + 1 .. TotalSlabs :
              sl.slab[s].resv = sl.slab[s].blob_id /\ sl.slab[s].blob_id \in bs'.open
<1>1. slab_idx \in slab_idx .. TotalSlabs /\ slab_idx \in 1 .. TotalSlabs
  BY SizesAssumption DEF Slabs
<1>2. /\ sl.slab[slab_idx].resv = sl.slab[slab_idx].blob_id
      /\ sl.slab[slab_idx].blob_id \in Blobs \ {0}
  BY <1>1 DEF Opened, Recorded, StoreTyped, DiskType
<1>3. /\ StoreTyped' /\ disk'.super = disk.super /\ disk'.page = disk.page
      /\ disk'.blobs = disk.blobs
      /\ \A c \in Blobs : disk'.size[c] = IF c = sl.slab[slab_idx].blob_id
                                          THEN bs.size[sl.slab[slab_idx].blob_id]
                                          ELSE disk.size[c]
      /\ bs'.super = bs.super /\ bs'.open = bs.open \ {sl.slab[slab_idx].blob_id}
      /\ bs'.size = bs.size
  BY <1>2, CloseDoes
<1>4. ASSUME NEW s \in slab_idx + 1 .. TotalSlabs
      PROVE  sl.slab[s].resv = sl.slab[s].blob_id /\ sl.slab[s].blob_id \in bs'.open
  <2>1. s \in 1 .. TotalSlabs /\ s \in slab_idx .. TotalSlabs /\ s # slab_idx
    BY SlabRange
  <2>2. sl.slab[s].resv = sl.slab[s].blob_id /\ sl.slab[s].blob_id \in bs.open
    BY <2>1 DEF Opened
  <2>3. sl.slab[s].blob_id # sl.slab[slab_idx].blob_id
    BY <1>1, <2>1 DEF Recorded
  <2> QED BY <1>3, <2>2, <2>3
<1> QED BY <1>2, <1>3, <1>4

\* The formatter closes a slab: what is closed has its size on the device.
LEMMA FormatCloses ==
  ASSUME LifeInv, app = "format", pc = "close", Close(sl.slab[slab_idx].resv)
  PROVE  /\ StoreTyped' /\ disk'.super = disk.super /\ disk'.page = sl
         /\ disk'.blobs = disk.blobs /\ bs'.super = bs.super /\ bs'.size = bs.size
         /\ disk'.size[0] = disk.size[0]
         /\ \A s \in slab_idx + 1 .. TotalSlabs :
              sl.slab[s].resv = sl.slab[s].blob_id /\ sl.slab[s].blob_id \in bs'.open
         /\ Sized(sl, slab_idx, disk'.size, InitSize)
         /\ slab_idx = TotalSlabs => FullFor(disk', kctx.nodes)
<1>1. /\ StoreTyped /\ sl \in Layouts /\ slab_idx \in Slabs /\ TotalSlabs \in Slabs
      /\ Recorded(sl, TotalSlabs, disk.blobs) /\ disk.page = sl
      /\ Divides(sl) /\ slab_idx <= TotalSlabs
      /\ Opened(slab_idx, TotalSlabs) /\ Resized(TotalSlabs)
      /\ Sized(sl, slab_idx - 1, disk.size, InitSize)
  BY FormatFacts DEF SlabsInv, MakingInv
<1>2. /\ StoreTyped' /\ disk'.super = disk.super /\ disk'.page = disk.page
      /\ disk'.blobs = disk.blobs /\ bs'.super = bs.super /\ bs'.size = bs.size
      /\ \A s \in slab_idx + 1 .. TotalSlabs :
           sl.slab[s].resv = sl.slab[s].blob_id /\ sl.slab[s].blob_id \in bs'.open
  BY <1>1, SlabClosed
<1>3. PICK b \in Blobs \ {0} :
        /\ b = sl.slab[slab_idx].blob_id
        /\ \A c \in Blobs : disk'.size[c] = IF c = b THEN bs.size[b] ELSE disk.size[c]
  BY <1>1, SlabClosed
<1>4. Sized(sl, slab_idx, disk'.size, InitSize)
  <2>1. SUFFICES ASSUME NEW s \in 1 .. slab_idx
                 PROVE  disk'.size[sl.slab[s].blob_id] = InitSize
    BY DEF Sized
  <2>2. /\ s \in 1 .. TotalSlabs /\ slab_idx \in 1 .. TotalSlabs
        /\ (s # slab_idx => s \in 1 .. slab_idx - 1)
    BY <1>1, SlabUpTo
  <2>3. sl.slab[s].blob_id \in Blobs
    BY <1>1, <2>2 DEF Recorded, StoreTyped, DiskType
  <2>4. bs.size[b] = InitSize
    BY <1>1, <1>3, <2>2 DEF Resized, Sized
  <2>5. s # slab_idx => disk.size[sl.slab[s].blob_id] = InitSize
    BY <1>1, <2>2 DEF Sized
  <2> QED BY <1>3, <2>3, <2>4, <2>5
<1>5. ASSUME slab_idx = TotalSlabs PROVE FullFor(disk', kctx.nodes)
  <2>1. TotalSlabs = ToUint(Total(sl))
    BY DEF TotalSlabs, Total
  <2>2. Total(sl) = TotalSlabs
    BY <1>1, <2>1, NoOverflow
  <2>3. disk'.page # NONE
    BY <1>1, <1>2, NoneAssumption
  <2> QED BY <1>1, <1>2, <1>4, <1>5, <2>2, <2>3 DEF FullFor, InitSize
<1>6. disk'.size[0] = disk.size[0]
  BY <1>3, RootIsBlob
<1> QED BY <1>1, <1>2, <1>4, <1>5, <1>6

LEMMA FormatClosesKeeps ==
  ASSUME LifeInv, app = "format", ForeachCloseCb, UNCHANGED runtimeVars
  PROVE  LifeInv'
<1>1. pc = "close"
  BY DEF ForeachCloseCb
<1>2. CASE Close(sl.slab[slab_idx].resv)
           /\ \/ slab_idx = TotalSlabs /\ UnloadBs(FALSE)
              \/ slab_idx < TotalSlabs /\ NextSlab /\ UNCHANGED sl
  <2>1. /\ StoreTyped /\ sl \in Layouts /\ slab_idx \in Slabs /\ TotalSlabs \in Slabs
        /\ Recorded(sl, TotalSlabs, disk.blobs) /\ disk.page = sl /\ disk.super = NONE
        /\ Divides(sl) /\ slab_idx <= TotalSlabs /\ kctx.nodes > 0
        /\ Opened(slab_idx, TotalSlabs) /\ Resized(TotalSlabs)
    BY <1>1, FormatFacts DEF SlabsInv, MakingInv, Making
  <2>2. /\ StoreTyped' /\ disk'.super = disk.super /\ disk'.page = sl
        /\ disk'.blobs = disk.blobs /\ bs'.super = bs.super /\ bs'.size = bs.size
        /\ \A s \in slab_idx + 1 .. TotalSlabs :
             sl.slab[s].resv = sl.slab[s].blob_id /\ sl.slab[s].blob_id \in bs'.open
        /\ Sized(sl, slab_idx, disk'.size, InitSize)
        /\ slab_idx = TotalSlabs => FullFor(disk', kctx.nodes)
    BY <1>1, <1>2, FormatCloses
  <2>4. DiskInv'
    BY <2>1, <2>2, FormatFacts DEF DiskInv, Sound
  <2>5. CASE slab_idx = TotalSlabs /\ UnloadBs(FALSE)
    <3>1. kctx.nodes \in Uint \ {0}
      BY <2>1, FormatFacts, SizesAssumption DEF ContextType, Uint
    <3>2. Sound(bs'.super, disk')
      BY <2>2, <2>5, <3>1 DEF Sound, CompleteOf
    <3> QED BY <2>2, <2>4, <2>5, <3>2, UnloadBsKeeps DEF StoreTyped
  <2>6. CASE slab_idx < TotalSlabs /\ NextSlab /\ UNCHANGED sl
    <3>1. /\ app' = app /\ kctx' = kctx /\ rc' = rc /\ failed' = failed /\ pc' = pc
          /\ slab_idx' = slab_idx + 1 /\ slab_idx' \in Slabs /\ sl' = sl
      BY <2>1, <2>6, SizesAssumption DEF NextSlab, Slabs
    <3>2. TotalSlabs' = TotalSlabs /\ slab_idx' <= TotalSlabs
      <4>1. TotalSlabs' = TotalSlabs
        BY <3>1 DEF TotalSlabs
      <4> QED BY <2>1, <2>6, <3>1, <4>1, SizesAssumption DEF Slabs
    <3>3. Opened(slab_idx, TotalSlabs)' /\ Resized(TotalSlabs)'
      BY <2>1, <2>2, <3>1, <3>2 DEF Opened, Resized, InitSize
    <3>4. Sized(sl, slab_idx - 1, disk.size, InitSize)'
      BY <2>1, <2>2, <3>1, SlabRange DEF Sized, InitSize
    <3>5. SlabsInv'
      BY <1>1, <2>1, <2>2, <3>1, <3>2, <3>3, <3>4 DEF SlabsInv
    <3>6. MakingInv'
      BY <1>1, <2>1, <2>2, <3>1 DEF MakingInv, Making
    <3>7. pc' \in Making \cup {"crashed"}
      BY <1>1, <3>1 DEF Making
    <3> QED BY <2>1, <2>2, <2>4, <3>1, <3>5, <3>6, <3>7, FormatFacts, MakesKeeps DEF StoreTyped
  <2> QED BY <1>2, <2>5, <2>6
<1>3. CASE Fails("close")
  BY <1>3, FailsKeeps DEF Making
<1> QED BY <1>2, <1>3 DEF ForeachCloseCb

LEMMA UnloadDoes ==
  ASSUME StoreTyped, Unload, bs.super \in {0, NONE}, Sound(bs.super, disk)
  PROVE  disk' \in DiskType /\ bs' \in BsType /\ DiskInv'
<1>1. disk' = [disk EXCEPT !.super = bs.super] /\ bs' = Unloaded
  BY DEF Unload
<1>2. /\ disk' \in DiskType /\ disk'.super = bs.super /\ disk'.page = disk.page
      /\ disk'.blobs = disk.blobs /\ disk'.size = disk.size
  BY <1>1 DEF StoreTyped, DiskType, BsType
<1>3. bs' \in BsType /\ bs'.super = NONE
  BY <1>1, NoSizesTyped DEF Unloaded, BsType
<1> QED BY <1>2, <1>3, SoundSame DEF DiskInv

LEMMA UnloadCompleteKeeps ==
  ASSUME LifeInv, UnloadComplete, UNCHANGED runtimeVars
  PROVE  LifeInv'
<1>1. app \in {"format", "dump"} /\ pc = "unload"
  BY DEF UnloadComplete
<1>2. StoreTyped /\ DiskInv
  BY TypesOf DEF LifeInv
<1>3. CASE CanUnload /\ Unload /\ Stop("ok")
  <2>1. Sound(bs.super, disk)
    BY <1>1, <1>2, <1>3 DEF LifeInv, MakingInv, LoadedInv, Mirrored, DiskInv, CanUnload
  <2>2. disk' \in DiskType /\ bs' \in BsType /\ DiskInv'
    BY <1>2, <1>3, <2>1, UnloadDoes DEF DiskInv
  <2> QED BY <1>1, <1>3, <2>2, StopKeeps
<1>4. CASE UNCHANGED storeVars /\ Stop("error")
  <2>1. disk' \in DiskType /\ bs' \in BsType /\ DiskInv'
    BY <1>2, <1>4 DEF storeVars, StoreTyped, DiskInv
  <2> QED BY <1>1, <1>4, <2>1, StopKeeps
<1> QED BY <1>3, <1>4 DEF UnloadComplete

-----------------------------------------------------------------------------
(* The dump. *)

LEMMA LoadedFacts ==
  ASSUME LifeInv, app \in {"dump", "kvs"}
  PROVE  /\ StoreTyped /\ disk \in DiskType /\ bs \in BsType
         /\ sl \in Layouts /\ slab_idx \in Slabs
         /\ kctx \in ContextType /\ failed \in BOOLEAN
         /\ DiskInv /\ LoadedInv
  BY TypesOf DEF LifeInv

\* What is followed is complete.
LEMMA LoadedComplete ==
  ASSUME LifeInv, app \in {"dump", "kvs"}, disk.super # NONE, disk.page # NONE
  PROVE  /\ disk.page \in Layouts /\ Total(disk.page) \in Slabs
         /\ ToUint(Total(disk.page)) = Total(disk.page)
         /\ Recorded(disk.page, Total(disk.page), disk.blobs)
<1>1. disk.page \in Layouts /\ CompleteOf(disk)
  BY LoadedFacts DEF DiskType, DiskInv, Sound
<1> QED BY <1>1, SmallIsExact DEF CompleteOf, FullFor

LEMMA FollowedLayout ==
  ASSUME LifeInv, app \in {"dump", "kvs"}, disk.super # NONE, disk.page # NONE,
         Same(sl, disk.page)
  PROVE  /\ TotalSlabs \in Slabs /\ TotalSlabs = Total(disk.page)
         /\ Recorded(sl, TotalSlabs, disk.blobs)
<1>1. /\ disk.page \in Layouts /\ sl \in Layouts /\ Total(disk.page) \in Slabs
      /\ ToUint(Total(disk.page)) = Total(disk.page)
      /\ Recorded(disk.page, Total(disk.page), disk.blobs)
  BY LoadedComplete, LoadedFacts
<1>2. Total(sl) = Total(disk.page) /\ TotalSlabs = ToUint(Total(sl))
  BY <1>1, SameLayout DEF TotalSlabs, Total
<1>3. Recorded(sl, TotalSlabs, disk.blobs)
  BY <1>1, <1>2, SameLayout
<1> QED BY <1>1, <1>2, <1>3

LEMMA DumpsKeeps ==
  ASSUME LifeInv, app = "dump", UNCHANGED runtimeVars, app' = app, rc' = rc,
         failed' = failed, disk' \in DiskType, bs' \in BsType, sl' \in Layouts,
         slab_idx' \in Slabs, kctx' \in ContextType,
         pc' \in Checking \cup {"dump_close_super", "close", "crashed"}, DiskInv', LoadedInv'
  PROVE  LifeInv'
<1>1. pc' \in Pcs
  BY DEF Pcs, Making
<1>2. TypeOK'
  BY <1>1, TypesOf, TypesFrom, RuntimeTypesKept DEF LifeInv
<1>3. ProgramInv'
  BY DEF ProgramInv
<1> QED BY <1>2, <1>3 DEF LifeInv

LEMMA LoadDoes ==
  ASSUME StoreTyped, DiskInv, Load
  PROVE  /\ disk' = disk /\ disk' \in DiskType /\ bs' \in BsType /\ Mirrored'
         /\ DiskInv'
<1>1. disk' = disk /\ bs' = [Unloaded EXCEPT !.super = disk.super, !.size = disk.size]
  BY DEF Load
<1>2. bs' \in BsType /\ bs'.super = disk.super /\ bs'.size = disk.size
  BY <1>1 DEF Unloaded, StoreTyped, DiskType, BsType
<1> QED BY <1>1, <1>2 DEF StoreTyped, DiskInv, Mirrored

LEMMA DumpLoadCompleteKeeps ==
  ASSUME LifeInv, DumpLoadComplete, UNCHANGED runtimeVars
  PROVE  LifeInv'
<1>1. app = "dump" /\ pc = "load"
  BY DEF DumpLoadComplete
<1>2. ASSUME Load, NEW channel \in {"none", "wild"},
             kctx' = [NoContext EXCEPT !.bs = TRUE, !.channel = channel],
             pc' = "get_super", UNCHANGED <<app, sl, slab_idx, rc, failed>>
      PROVE  LifeInv'
  <2>1. kctx' \in ContextType
    <3>1. 0 \in Uint
      BY SizesAssumption DEF Uint
    <3> QED BY <1>2, <3>1 DEF NoContext, ContextType
  <2>2. /\ disk' = disk /\ disk' \in DiskType /\ bs' \in BsType /\ Mirrored'
        /\ DiskInv'
    BY <1>1, <1>2, LoadedFacts, LoadDoes
  <2>3. LoadedInv'
    BY <1>2, <2>2 DEF LoadedInv
  <2>4. pc' \in Checking
    BY <1>2 DEF Checking
  <2> QED BY <1>1, <1>2, <2>1, <2>2, <2>3, <2>4, LoadedFacts, DumpsKeeps
<1>3. CASE Stop("error") /\ UNCHANGED storeVars
  <2>1. disk' \in DiskType /\ bs' \in BsType /\ DiskInv'
    BY <1>1, <1>3, LoadedFacts DEF storeVars, DiskInv
  <2> QED BY <1>1, <1>3, <2>1, StopKeeps
<1> QED BY <1>2, <1>3 DEF DumpLoadComplete

LEMMA DumpGetSuperCompleteKeeps ==
  ASSUME LifeInv, DumpGetSuperComplete, UNCHANGED runtimeVars
  PROVE  LifeInv'
<1>1. app = "dump" /\ pc = "get_super"
  BY DEF DumpGetSuperComplete
<1>2. CASE bs.super # NONE /\ Await("open_super") /\ UNCHANGED storeVars
  <2>1. /\ pc' = "open_super" /\ app' = app /\ sl' = sl /\ slab_idx' = slab_idx
        /\ kctx' = kctx /\ rc' = rc /\ failed' = failed /\ disk' = disk /\ bs' = bs
    BY <1>2 DEF Await, storeVars
  <2>2. DiskInv' /\ LoadedInv'
    BY <1>1, <1>2, <2>1, LoadedFacts DEF DiskInv, LoadedInv, Mirrored
  <2>3. pc' \in Checking
    BY <2>1 DEF Checking
  <2> QED BY <1>1, <2>1, <2>2, <2>3, LoadedFacts, DumpsKeeps
<1>3. CASE Fails("get_super")
  BY <1>1, <1>3, FailsKeeps DEF Checking
<1> QED BY <1>2, <1>3 DEF DumpGetSuperComplete

\* The root blob is opened, by the dump or the start.
LEMMA RootOpened ==
  ASSUME LifeInv, app \in {"dump", "kvs"}, pc = "open_super", Open(bs.super)
  PROVE  /\ disk' = disk /\ disk' \in DiskType /\ bs' \in BsType /\ bs'.super = bs.super
         /\ bs'.size = bs.size /\ Mirrored' /\ disk'.super # NONE /\ DiskInv'
<1>1. /\ StoreTyped /\ DiskInv /\ bs.super = disk.super /\ bs.size = disk.size
      /\ disk.super # NONE
  BY LoadedFacts DEF LoadedInv, Mirrored
<1>2. bs.super \in Blobs
  BY <1>1 DEF StoreTyped, BsType
<1>3. /\ StoreTyped' /\ disk' = disk /\ bs'.super = bs.super /\ bs'.size = bs.size
  BY <1>1, <1>2, OpenDoes
<1> QED BY <1>1, <1>3 DEF StoreTyped, DiskInv, Mirrored

LEMMA DumpSuperCompleteKeeps ==
  ASSUME LifeInv, DumpSuperComplete, UNCHANGED runtimeVars
  PROVE  LifeInv'
<1>1. app = "dump" /\ pc = "open_super"
  BY DEF DumpSuperComplete
<1>2. CASE /\ Open(bs.super)
           /\ kctx' = [kctx EXCEPT !.channel = "held"]
           /\ pc' = "read_page" /\ UNCHANGED <<app, sl, slab_idx, rc, failed>>
  <2>1. kctx' \in ContextType
    BY <1>1, <1>2, LoadedFacts DEF ContextType
  <2>2. /\ disk' = disk /\ disk' \in DiskType /\ bs' \in BsType
        /\ Mirrored' /\ disk'.super # NONE /\ DiskInv'
    BY <1>1, <1>2, RootOpened
  <2>3. LoadedInv'
    BY <1>2, <2>2 DEF LoadedInv
  <2>4. pc' \in Checking
    BY <1>2 DEF Checking
  <2> QED BY <1>1, <1>2, <2>1, <2>2, <2>3, <2>4, LoadedFacts, DumpsKeeps
<1>3. CASE Fails("open_super")
  BY <1>1, <1>3, FailsKeeps DEF Checking
<1> QED BY <1>2, <1>3 DEF DumpSuperComplete

LEMMA DumpReadSuperPageCompleteKeeps ==
  ASSUME LifeInv, DumpReadSuperPageComplete, UNCHANGED runtimeVars
  PROVE  LifeInv'
<1>1. app = "dump" /\ pc = "read_page"
  BY DEF DumpReadSuperPageComplete
<1>2. CASE disk.page # NONE /\ Await("read_all") /\ UNCHANGED storeVars
  <2>1. /\ pc' = "read_all" /\ app' = app /\ sl' = sl /\ slab_idx' = slab_idx
        /\ kctx' = kctx /\ rc' = rc /\ failed' = failed /\ disk' = disk /\ bs' = bs
    BY <1>2 DEF Await, storeVars
  <2>2. DiskInv' /\ LoadedInv'
    BY <1>1, <1>2, <2>1, LoadedFacts DEF DiskInv, LoadedInv, Mirrored
  <2>3. pc' \in Checking
    BY <2>1 DEF Checking
  <2> QED BY <1>1, <2>1, <2>2, <2>3, LoadedFacts, DumpsKeeps
<1>3. CASE disk.page = NONE /\ UnloadBs(FALSE) /\ UNCHANGED storeVars
  <2>1. /\ disk' \in DiskType /\ bs' \in BsType /\ DiskInv' /\ Mirrored'
    BY <1>1, <1>3, LoadedFacts DEF storeVars, DiskInv, LoadedInv, Mirrored
  <2> QED BY <1>1, <1>3, <2>1, UnloadBsKeeps
<1>4. CASE Fails("read_page")
  BY <1>1, <1>4, FailsKeeps DEF Checking
<1> QED BY <1>2, <1>3, <1>4 DEF DumpReadSuperPageComplete

\* The layout has been read, by the dump or the start.
LEMMA LayoutRead ==
  ASSUME LifeInv, app \in {"dump", "kvs"}, pc = "read_all", sl' = disk.page,
         slab_idx' = 1, pc' = "open", disk' = disk, bs' = bs
  PROVE  sl' \in Layouts /\ LoadedInv' /\ DiskInv'
<1>1. disk.super # NONE /\ disk.page # NONE /\ Mirrored /\ DiskInv
  BY LoadedFacts DEF LoadedInv
<1>2. /\ disk.page \in Layouts /\ Total(disk.page) \in Slabs
      /\ ToUint(Total(disk.page)) = Total(disk.page)
  BY <1>1, LoadedComplete
<1>3. TotalSlabs' = Total(disk.page)
  BY <1>2 DEF TotalSlabs, Total
<1>4. slab_idx' <= TotalSlabs' /\ Opened(1, slab_idx - 1)'
  <2>1. 1 <= Total(disk.page)
    BY <1>2, SlabRange
  <2> QED BY <1>3, <2>1 DEF Opened
<1>5. Same(sl', disk'.page)
  BY DEF Same
<1> QED BY <1>1, <1>2, <1>4, <1>5 DEF LoadedInv, DiskInv, Mirrored

LEMMA DumpSuperPagesCompleteKeeps ==
  ASSUME LifeInv, DumpSuperPagesComplete, UNCHANGED runtimeVars
  PROVE  LifeInv'
<1>1. app = "dump" /\ pc = "read_all"
  BY DEF DumpSuperPagesComplete
<1>2. CASE sl' = disk.page /\ Foreach("open") /\ UNCHANGED storeVars
  <2>1. /\ pc' = "open" /\ app' = app /\ slab_idx' = 1 /\ kctx' = kctx /\ rc' = rc
        /\ failed' = failed /\ disk' = disk /\ bs' = bs
    BY <1>2 DEF Foreach, storeVars
  <2>2. sl' \in Layouts /\ LoadedInv' /\ DiskInv'
    BY <1>1, <1>2, <2>1, LayoutRead
  <2>3. pc' \in Checking
    BY <2>1 DEF Checking
  <2> QED BY <1>1, <2>1, <2>2, <2>3, RootIsBlob, LoadedFacts, DumpsKeeps
<1>3. CASE Fails("read_all")
  BY <1>1, <1>3, FailsKeeps DEF Checking
<1> QED BY <1>2, <1>3 DEF DumpSuperPagesComplete

\* A slab of the layout has been opened, by the dump or the start.
LEMMA FollowedOpened ==
  ASSUME LifeInv, app \in {"dump", "kvs"}, pc = "open",
         sl.slab[slab_idx].blob_id \in disk.blobs, Open(sl.slab[slab_idx].blob_id),
         sl' = [sl EXCEPT !.slab[slab_idx].resv = sl.slab[slab_idx].blob_id]
  PROVE  /\ disk' = disk /\ disk' \in DiskType /\ bs' \in BsType /\ sl' \in Layouts
         /\ Mirrored' /\ disk'.super # NONE /\ disk'.page # NONE
         /\ Same(sl', disk'.page) /\ TotalSlabs' = TotalSlabs /\ TotalSlabs \in Slabs
         /\ TotalSlabs = Total(disk.page) /\ slab_idx <= TotalSlabs
         /\ \A s \in 1 .. slab_idx : /\ sl'.slab[s].resv = sl'.slab[s].blob_id
                                     /\ sl'.slab[s].blob_id \in bs'.open
         /\ DiskInv'
<1>1. /\ StoreTyped /\ sl \in Layouts /\ slab_idx \in Slabs /\ DiskInv
      /\ bs.super = disk.super /\ bs.size = disk.size /\ disk.super # NONE /\ disk.page # NONE
      /\ Same(sl, disk.page) /\ slab_idx <= TotalSlabs /\ Opened(1, slab_idx - 1)
  BY LoadedFacts DEF LoadedInv, Mirrored
<1>2. /\ sl' \in Layouts /\ Same(sl', sl) /\ StoreTyped' /\ disk' = disk
      /\ bs'.super = bs.super /\ bs'.size = bs.size
      /\ \A s \in 1 .. slab_idx : /\ sl'.slab[s].resv = sl'.slab[s].blob_id
                                  /\ sl'.slab[s].blob_id \in bs'.open
  BY <1>1, SlabOpened
<1>3. TotalSlabs' = TotalSlabs /\ Same(sl', disk'.page)
  BY <1>1, <1>2 DEF Same, TotalSlabs
<1>4. TotalSlabs \in Slabs /\ TotalSlabs = Total(disk.page)
  BY <1>1, FollowedLayout
<1> QED BY <1>1, <1>2, <1>3, <1>4 DEF StoreTyped, DiskInv, Mirrored

LEMMA DumpOpensKeeps ==
  ASSUME LifeInv, app = "dump", ForeachOpenCb, UNCHANGED runtimeVars
  PROVE  LifeInv'
<1>1. pc = "open" /\ slab_idx \in Slabs
  BY LoadedFacts DEF ForeachOpenCb
<1>2. ASSUME sl.slab[slab_idx].blob_id \in disk.blobs, Open(sl.slab[slab_idx].blob_id),
             sl' = [sl EXCEPT !.slab[slab_idx].resv = sl.slab[slab_idx].blob_id],
             ForeachNext(AfterOpen)
      PROVE  LifeInv'
  <2>1. /\ disk' = disk /\ disk' \in DiskType /\ bs' \in BsType /\ sl' \in Layouts
        /\ Mirrored' /\ disk'.super # NONE /\ disk'.page # NONE
        /\ Same(sl', disk'.page) /\ TotalSlabs' = TotalSlabs /\ TotalSlabs \in Slabs
        /\ slab_idx <= TotalSlabs
        /\ \A s \in 1 .. slab_idx : /\ sl'.slab[s].resv = sl'.slab[s].blob_id
                                    /\ sl'.slab[s].blob_id \in bs'.open
        /\ DiskInv'
    BY <1>1, <1>2, FollowedOpened
  <2>2. CASE slab_idx = TotalSlabs /\ AfterOpen
    <3>1. /\ app' = app /\ kctx' = kctx /\ rc' = rc /\ failed' = failed
          /\ slab_idx' = 1 /\ pc' = "dump_close_super"
      BY <2>2 DEF AfterOpen, Foreach
    <3>2. Opened(1, TotalSlabs)'
      BY <2>1, <2>2 DEF Opened
    <3>3. LoadedInv'
      BY <2>1, <3>1, <3>2 DEF LoadedInv
    <3> QED BY <2>1, <3>1, <3>3, RootIsBlob, LoadedFacts, DumpsKeeps
  <2>3. CASE slab_idx # TotalSlabs /\ slab_idx < BufferSlabs /\ NextSlab
    <3>1. /\ app' = app /\ kctx' = kctx /\ rc' = rc /\ failed' = failed /\ pc' = pc
          /\ slab_idx' = slab_idx + 1 /\ slab_idx' \in Slabs
      BY <1>1, <2>3, SlabRange DEF NextSlab
    <3>2. Opened(1, slab_idx - 1)'
      BY <1>1, <2>1, <2>3, <3>1, SlabRange DEF Opened
    <3>3. slab_idx' <= TotalSlabs'
      BY <1>1, <2>1, <2>3, <3>1, SlabRange
    <3>4. LoadedInv'
      BY <1>1, <2>1, <3>1, <3>2, <3>3 DEF LoadedInv
    <3>5. pc' \in Checking
      BY <1>1, <3>1 DEF Checking
    <3> QED BY <2>1, <3>1, <3>4, <3>5, LoadedFacts, DumpsKeeps
  <2>4. CASE pc' = "crashed" /\ UNCHANGED <<app, kctx, slab_idx, rc, failed>>
    <3>1. LoadedInv'
      BY <2>1, <2>4 DEF LoadedInv
    <3> QED BY <1>1, <2>1, <2>4, <3>1, LoadedFacts, DumpsKeeps
  <2> QED BY <1>2, <2>2, <2>3, <2>4 DEF ForeachNext
<1>3. CASE Fails("open")
  BY <1>3, FailsKeeps DEF Checking
<1> QED BY <1>2, <1>3 DEF ForeachOpenCb

LEMMA KvsCloseSuperCompleteKeeps ==
  ASSUME LifeInv, KvsCloseSuperComplete, UNCHANGED runtimeVars
  PROVE  LifeInv'
<1>1. app = "dump" /\ pc = "dump_close_super"
  BY DEF KvsCloseSuperComplete
<1>2. CASE Close(bs.super) /\ Foreach("close") /\ UNCHANGED sl
  <2>1. /\ pc' = "close" /\ app' = app /\ slab_idx' = 1 /\ kctx' = kctx /\ rc' = rc
        /\ failed' = failed /\ sl' = sl
    BY <1>2 DEF Foreach
  <2>2. /\ StoreTyped /\ sl \in Layouts /\ DiskInv
        /\ Mirrored /\ disk.super # NONE /\ disk.page # NONE
        /\ Same(sl, disk.page) /\ Opened(1, TotalSlabs)
    BY <1>1, LoadedFacts DEF LoadedInv
  <2>3. TotalSlabs \in Slabs /\ Recorded(sl, TotalSlabs, disk.blobs)
    BY <1>1, <2>2, FollowedLayout
  <2>4. bs.super = 0
    BY <2>2 DEF DiskInv, Mirrored
  <2>5. /\ StoreTyped' /\ disk'.super = disk.super /\ disk'.page = disk.page
        /\ disk'.blobs = disk.blobs /\ disk'.size = disk.size
        /\ bs'.super = bs.super /\ bs'.open = bs.open \ {0} /\ Mirrored'
    BY <1>2, <2>2, <2>4, RootIsBlob, CloseDoes, MirrorCloses
  <2>6. TotalSlabs' = TotalSlabs /\ slab_idx' <= TotalSlabs'
    BY <2>1, <2>3, SlabRange DEF TotalSlabs
  <2>7. Opened(slab_idx, TotalSlabs)'
    BY <2>1, <2>2, <2>3, <2>5, <2>4, <2>6 DEF Opened, Recorded
  <2>8. LoadedInv'
    BY <2>1, <2>2, <2>5, <2>6, <2>7 DEF LoadedInv
  <2>9. DiskInv'
    BY <2>2, <2>5, SoundSame DEF DiskInv
  <2> QED BY <1>1, <2>1, <2>5, <2>8, <2>9, RootIsBlob, LoadedFacts, DumpsKeeps DEF StoreTyped
<1>3. CASE Fails("dump_close_super")
  BY <1>1, <1>3, FailsKeeps
<1> QED BY <1>2, <1>3 DEF KvsCloseSuperComplete

LEMMA DumpClosesKeeps ==
  ASSUME LifeInv, app = "dump", ForeachCloseCb, UNCHANGED runtimeVars
  PROVE  LifeInv'
<1>1. pc = "close"
  BY DEF ForeachCloseCb
<1>2. CASE Close(sl.slab[slab_idx].resv)
           /\ \/ slab_idx = TotalSlabs /\ UnloadBs(FALSE)
              \/ slab_idx < TotalSlabs /\ NextSlab /\ UNCHANGED sl
  <2>1. /\ StoreTyped /\ sl \in Layouts /\ slab_idx \in Slabs /\ DiskInv
        /\ Mirrored /\ disk.super # NONE /\ disk.page # NONE
        /\ Same(sl, disk.page) /\ slab_idx <= TotalSlabs /\ Opened(slab_idx, TotalSlabs)
    BY <1>1, LoadedFacts DEF LoadedInv
  <2>2. TotalSlabs \in Slabs /\ Recorded(sl, TotalSlabs, disk.blobs)
    BY <1>1, <2>1, FollowedLayout
  <2>3. /\ StoreTyped' /\ disk'.super = disk.super /\ disk'.page = disk.page
        /\ disk'.blobs = disk.blobs /\ bs'.super = bs.super
        /\ disk'.size = disk.size /\ Mirrored'
        /\ \A s \in slab_idx + 1 .. TotalSlabs :
             sl.slab[s].resv = sl.slab[s].blob_id /\ sl.slab[s].blob_id \in bs'.open
    <3>1. PICK b \in Blobs \ {0} : b = sl.slab[slab_idx].blob_id /\ Close(b)
      BY <1>2, <2>1, <2>2, SlabClosed
    <3>2. disk'.size = disk.size /\ Mirrored'
      BY <2>1, <3>1, MirrorCloses
    <3> QED BY <1>2, <2>1, <2>2, <3>2, SlabClosed
  <2>4. DiskInv'
    BY <2>1, <2>3, SoundSame DEF DiskInv
  <2>5. CASE UnloadBs(FALSE)
    BY <2>1, <2>3, <2>4, <2>5, UnloadBsKeeps DEF StoreTyped
  <2>6. CASE slab_idx < TotalSlabs /\ NextSlab /\ UNCHANGED sl
    <3>1. /\ app' = app /\ kctx' = kctx /\ rc' = rc /\ failed' = failed /\ pc' = pc
          /\ slab_idx' = slab_idx + 1 /\ slab_idx' \in Slabs /\ sl' = sl
      BY <2>1, <2>2, <2>6, SizesAssumption DEF NextSlab, Slabs
    <3>2. TotalSlabs' = TotalSlabs
      BY <3>1 DEF TotalSlabs
    <3>3. slab_idx' <= TotalSlabs'
      BY <2>1, <2>2, <2>6, <3>1, <3>2, SizesAssumption DEF Slabs
    <3>4. Opened(slab_idx, TotalSlabs)'
      BY <2>3, <3>1, <3>2 DEF Opened
    <3>5. LoadedInv'
      BY <1>1, <2>1, <2>3, <3>1, <3>3, <3>4 DEF LoadedInv
    <3> QED BY <1>1, <2>1, <2>3, <2>4, <3>1, <3>5, LoadedFacts, DumpsKeeps DEF StoreTyped
  <2> QED BY <1>2, <2>5, <2>6
<1>3. CASE Fails("close")
  BY <1>3, FailsKeeps
<1> QED BY <1>2, <1>3 DEF ForeachCloseCb

-----------------------------------------------------------------------------
(* The start of the store. *)

LEMMA ServesFacts ==
  ASSUME LifeInv, app = "kvs"
  PROVE  ServesInv /\ TypeOKRuntime /\ rc \in {"none", "ok", "error"}
  BY TypesOf DEF LifeInv

LEMMA StartsKeeps ==
  ASSUME LifeInv, app = "kvs", app' = app, rc' = rc, failed' \in BOOLEAN,
         disk' \in DiskType, bs' \in BsType, sl' \in Layouts, slab_idx' \in Slabs,
         kctx' \in ContextType, TypeOKRuntime',
         pc' \in Checking \cup {"unload", "recovery", "serving", "crashed"},
         DiskInv', LoadedInv', ServesInv'
  PROVE  LifeInv'
<1>1. pc' \in Pcs
  BY DEF Pcs, Making
<1>2. TypeOK'
  BY <1>1, ServesFacts, TypesFrom
<1>3. ProgramInv'
  BY DEF ProgramInv
<1> QED BY <1>2, <1>3 DEF LifeInv

\* _unload_bs of the store.
LEMMA StartGivesUp ==
  ASSUME LifeInv, app = "kvs", pc \notin {"load", "stopped"}, pc' = "unload",
         failed' = TRUE, UNCHANGED <<app, sl, kctx, slab_idx, rc>>, UNCHANGED runtimeVars,
         disk' = disk, bs' \in BsType, bs'.super = bs.super, bs'.size = bs.size
  PROVE  LifeInv'
<1>1. LoadedInv' /\ ServesInv' /\ DiskInv'
  BY LoadedFacts DEF LoadedInv, ServesInv, DiskInv, Mirrored
<1>2. TypeOKRuntime'
  BY ServesFacts, RuntimeTypesKept
<1> QED BY <1>1, <1>2, LoadedFacts, StartsKeeps

LEMMA KvsFailsKeeps ==
  ASSUME LifeInv, app = "kvs", NEW op, op \notin {"load", "stopped"}, KvsFails(op),
         UNCHANGED runtimeVars
  PROVE  LifeInv'
<1>1. /\ pc = op /\ pc' = "unload" /\ failed' = TRUE /\ disk' = disk /\ bs' = bs
      /\ UNCHANGED <<app, sl, kctx, slab_idx, rc>>
  BY DEF KvsFails, KvsUnload
<1> QED BY <1>1, LoadedFacts, StartGivesUp

LEMMA LoadBsCompleteKeeps ==
  ASSUME LifeInv, LoadBsComplete
  PROVE  LifeInv'
<1>1. app = "kvs" /\ pc = "load" /\ UNCHANGED runtimeVars
  BY DEF LoadBsComplete
<1>2. CASE /\ Load
           /\ kctx' = [kctx EXCEPT !.bs = TRUE] /\ pc' = "get_super"
           /\ UNCHANGED <<app, sl, slab_idx, rc, failed>>
  <2>1. kctx' \in ContextType
    BY <1>1, <1>2, LoadedFacts DEF ContextType
  <2>2. /\ disk' = disk /\ disk' \in DiskType /\ bs' \in BsType /\ Mirrored'
        /\ DiskInv'
    BY <1>1, <1>2, LoadedFacts, LoadDoes
  <2>3. LoadedInv' /\ ServesInv'
    BY <1>2, <2>2 DEF LoadedInv, ServesInv
  <2>4. pc' \in Checking
    BY <1>2 DEF Checking
  <2> QED BY <1>1, <1>2, <2>1, <2>2, <2>3, <2>4, LoadedFacts, ServesFacts,
             RuntimeTypesKept, StartsKeeps
<1>3. CASE Stop("error") /\ UNCHANGED storeVars
  <2>1. disk' \in DiskType /\ bs' \in BsType /\ DiskInv'
    BY <1>1, <1>3, LoadedFacts DEF storeVars, DiskInv
  <2> QED BY <1>1, <1>3, <2>1, StopKeeps
<1> QED BY <1>2, <1>3 DEF LoadBsComplete

LEMMA GetSuperCompleteKeeps ==
  ASSUME LifeInv, GetSuperComplete
  PROVE  LifeInv'
<1>1. app = "kvs" /\ pc = "get_super" /\ UNCHANGED runtimeVars
  BY DEF GetSuperComplete
<1>2. CASE bs.super # NONE /\ Await("open_super") /\ UNCHANGED storeVars
  <2>1. /\ pc' = "open_super" /\ app' = app /\ sl' = sl /\ slab_idx' = slab_idx
        /\ kctx' = kctx /\ rc' = rc /\ failed' = failed /\ disk' = disk /\ bs' = bs
    BY <1>2 DEF Await, storeVars
  <2>2. DiskInv' /\ LoadedInv' /\ ServesInv'
    BY <1>1, <1>2, <2>1, LoadedFacts DEF DiskInv, LoadedInv, ServesInv, Mirrored
  <2>3. pc' \in Checking
    BY <2>1 DEF Checking
  <2> QED BY <1>1, <2>1, <2>2, <2>3, LoadedFacts, ServesFacts, RuntimeTypesKept, StartsKeeps
<1>3. CASE KvsFails("get_super")
  BY <1>1, <1>3, KvsFailsKeeps
<1> QED BY <1>2, <1>3 DEF GetSuperComplete

LEMMA SuperOpenCompleteKeeps ==
  ASSUME LifeInv, SuperOpenComplete
  PROVE  LifeInv'
<1>1. app = "kvs" /\ pc = "open_super" /\ UNCHANGED runtimeVars
  BY DEF SuperOpenComplete
<1>2. ASSUME Open(bs.super)
      PROVE  /\ disk' = disk /\ disk' \in DiskType /\ bs' \in BsType /\ bs'.super = bs.super
             /\ bs'.size = bs.size /\ Mirrored' /\ disk'.super # NONE /\ DiskInv'
  BY <1>1, <1>2, RootOpened
<1>3. CASE Open(bs.super) /\ bs.size[bs.super] # 0 /\ Await("read_page")
  <2>1. /\ pc' = "read_page" /\ app' = app /\ sl' = sl /\ slab_idx' = slab_idx
        /\ kctx' = kctx /\ rc' = rc /\ failed' = failed
    BY <1>3 DEF Await
  <2>2. LoadedInv' /\ ServesInv'
    BY <1>2, <1>3, <2>1 DEF LoadedInv, ServesInv
  <2>3. pc' \in Checking
    BY <2>1 DEF Checking
  <2> QED BY <1>1, <1>2, <1>3, <2>1, <2>2, <2>3, LoadedFacts, ServesFacts, RuntimeTypesKept,
             StartsKeeps
<1>4. CASE /\ Open(bs.super) /\ bs.size[bs.super] = 0
           /\ pc' = "unload" /\ failed' = TRUE /\ UNCHANGED <<app, sl, kctx, slab_idx, rc>>
  BY <1>1, <1>2, <1>4, StartGivesUp
<1>5. CASE KvsFails("open_super")
  BY <1>1, <1>5, KvsFailsKeeps
<1> QED BY <1>3, <1>4, <1>5 DEF SuperOpenComplete

LEMMA ReadSuperPageCompleteKeeps ==
  ASSUME LifeInv, ReadSuperPageComplete
  PROVE  LifeInv'
<1>1. app = "kvs" /\ pc = "read_page" /\ UNCHANGED runtimeVars
  BY DEF ReadSuperPageComplete
<1>2. CASE /\ disk.page # NONE /\ disk.page.nb_shards % nb_works = 0
           /\ Await("read_all") /\ UNCHANGED storeVars
  <2>1. /\ pc' = "read_all" /\ app' = app /\ sl' = sl /\ slab_idx' = slab_idx
        /\ kctx' = kctx /\ rc' = rc /\ failed' = failed /\ disk' = disk /\ bs' = bs
        /\ nb_works' = nb_works
    BY <1>1, <1>2 DEF Await, storeVars, runtimeVars
  <2>2. DiskInv' /\ LoadedInv' /\ ServesInv'
    BY <1>1, <1>2, <2>1, LoadedFacts DEF DiskInv, LoadedInv, ServesInv, Mirrored
  <2>3. pc' \in Checking
    BY <2>1 DEF Checking
  <2> QED BY <1>1, <2>1, <2>2, <2>3, LoadedFacts, ServesFacts, RuntimeTypesKept, StartsKeeps
<1>3. CASE KvsUnload
  <2>1. KvsFails("read_page")
    BY <1>1, <1>3 DEF KvsFails
  <2> QED BY <1>1, <2>1, KvsFailsKeeps
<1>4. CASE KvsFails("read_page")
  BY <1>1, <1>4, KvsFailsKeeps
<1> QED BY <1>2, <1>3, <1>4 DEF ReadSuperPageComplete

LEMMA ReadAllSuperPagesCompleteKeeps ==
  ASSUME LifeInv, ReadAllSuperPagesComplete
  PROVE  LifeInv'
<1>1. app = "kvs" /\ pc = "read_all" /\ UNCHANGED runtimeVars
  BY DEF ReadAllSuperPagesComplete
<1>2. CASE /\ sl' = (IF disk.page = NONE THEN NoLayout ELSE disk.page)
           /\ pc' = "open" /\ slab_idx' = 1
           /\ UNCHANGED <<storeVars, app, kctx, rc, failed>>
  <2>1. disk.page # NONE /\ disk.page.nb_shards % nb_works = 0
    BY <1>1, LoadedFacts, ServesFacts DEF LoadedInv, ServesInv
  <2>2. /\ pc' = "open" /\ app' = app /\ slab_idx' = 1 /\ kctx' = kctx /\ rc' = rc
        /\ failed' = failed /\ disk' = disk /\ bs' = bs /\ sl' = disk.page
    BY <1>2, <2>1 DEF storeVars
  <2>3. sl' \in Layouts /\ LoadedInv' /\ DiskInv'
    BY <1>1, <2>2, LayoutRead
  <2>4. ServesInv'
    BY <1>1, <2>1, <2>2 DEF ServesInv, runtimeVars
  <2>5. pc' \in Checking
    BY <2>2 DEF Checking
  <2> QED BY <1>1, <2>2, <2>3, <2>4, <2>5, RootIsBlob, LoadedFacts, ServesFacts,
             RuntimeTypesKept, StartsKeeps
<1>3. CASE KvsFails("read_all")
  BY <1>1, <1>3, KvsFailsKeeps
<1> QED BY <1>2, <1>3 DEF ReadAllSuperPagesComplete

LEMMA KvsUnloadCompleteKeeps ==
  ASSUME LifeInv, KvsUnloadComplete
  PROVE  LifeInv'
<1>1. app = "kvs" /\ pc = "unload" /\ Stop("error") /\ UNCHANGED runtimeVars
  BY DEF KvsUnloadComplete
<1>2. StoreTyped /\ DiskInv /\ bs.super = disk.super
  BY <1>1, LoadedFacts DEF LoadedInv, Mirrored
<1>3. CASE Unload
  <2>1. disk' \in DiskType /\ bs' \in BsType /\ DiskInv'
    BY <1>2, <1>3, UnloadDoes DEF DiskInv
  <2> QED BY <1>1, <2>1, StopKeeps
<1>4. CASE UNCHANGED storeVars
  <2>1. disk' \in DiskType /\ bs' \in BsType /\ DiskInv'
    BY <1>2, <1>4 DEF storeVars, StoreTyped, DiskInv
  <2> QED BY <1>1, <2>1, StopKeeps
<1> QED BY <1>3, <1>4 DEF KvsUnloadComplete

\* Slab j of shard i is one of the slabs.
LEMMA SlabOfShard ==
  ASSUME NEW n \in Nat, NEW k \in Nat, NEW i \in 0 .. n - 1, NEW j \in 0 .. k - 1
  PROVE  i * k + j + 1 \in 1 .. n * k
<1>1. i * k + j + 1 <= i * k + k
  OBVIOUS
<1>2. i * k + k = (i + 1) * k
  OBVIOUS
<1>3. (i + 1) * k <= n * k
  OBVIOUS
<1>4. i * k \in Nat /\ n * k \in Nat /\ (i + 1) * k \in Nat
  OBVIOUS
<1> QED BY <1>1, <1>2, <1>3, <1>4

LEMMA ShardsCounted ==
  ASSUME NEW n \in Nat
  PROVE  Cardinality(0 .. n - 1) = n
<1>1. Cardinality(0 .. n - 1) = IF 0 > n - 1 THEN 0 ELSE n - 1 - 0 + 1
  BY FS_Interval
<1> QED BY <1>1

\* The runtime of a layout whose first Total slabs are open blobs.
LEMMA RuntimeSet ==
  ASSUME TypeOKRuntime, NEW layout \in Layouts, SetRuntime(layout),
         Total(layout) \in Slabs, disk'.page # NONE, Same(layout, disk'.page),
         \A s \in 1 .. Total(layout) : /\ layout.slab[s].resv = layout.slab[s].blob_id
                                       /\ layout.slab[s].blob_id \in bs'.open
  PROVE  TypeOKRuntime' /\ Assigned'
<1>1. PICK n \in Nat : n = layout.nb_shards
  BY SizesAssumption DEF Layouts, Uint
<1>2. PICK k \in Nat : k = NbSlabsPerShard
  BY SizesAssumption
<1>3. /\ slab_set' = [i \in 0 .. n - 1 |-> [j \in 0 .. k - 1 |->
                                              layout.slab[i * k + j + 1].resv]]
      /\ reclaim' = [w \in Workers |-> w * (n \div nb_works) .. (w + 1) * (n \div nb_works) - 1]
      /\ waited' = 0 /\ ready' = {} /\ g_kvs' = TRUE /\ nb_works' = nb_works
  BY <1>1, <1>2 DEF SetRuntime
<1>4. Total(layout) = n * k /\ disk'.page.nb_shards = n
  BY <1>1, <1>2 DEF Total, Same
<1>5. ASSUME NEW i \in 0 .. n - 1, NEW j \in 0 .. k - 1
      PROVE  /\ layout.slab[i * k + j + 1].resv \in Blobs \cup {NONE}
             /\ layout.slab[i * k + j + 1].resv = disk'.page.slab[i * k + j + 1].blob_id
             /\ layout.slab[i * k + j + 1].resv \in bs'.open
  <2>1. PICK s \in 1 .. n * k : s = i * k + j + 1
    BY SlabOfShard
  <2>2. s \in Slabs
    <3>1. n * k \in Slabs
      BY <1>4
    <3> QED BY <2>1, <3>1, SizesAssumption DEF Slabs
  <2>3. layout.slab[s] \in [blob_id : Blobs \cup {NONE}, resv : Blobs \cup {NONE}]
    BY <2>2 DEF Layouts
  <2> QED BY <1>4, <2>1, <2>2, <2>3 DEF Same
<1>6. Shards' = 0 .. n - 1
  BY <1>3 DEF Shards
<1>7. NbShards' = n
  BY <1>6, ShardsCounted DEF NbShards
<1>8. Workers' = Workers
  BY <1>3 DEF Workers
<1>9. TypeOKRuntime'
  <2>1. slab_set' \in [0 .. n - 1 -> [0 .. k - 1 -> Blobs \cup {NONE}]]
    BY <1>3, <1>5
  <2>2. DOMAIN reclaim' = Workers /\ \A w \in Workers : reclaim'[w] \subseteq Int
    BY <1>3
  <2>3. waited' \in 0 .. nb_works' /\ nb_works' \in WorkerCounts \cup {1}
    BY <1>3, WorkerCountsAssumption DEF TypeOKRuntime
  <2> QED BY <1>2, <1>3, <1>6, <1>7, <1>8, <2>1, <2>2, <2>3 DEF TypeOKRuntime
<1>10. Assigned'
  <2>1. \A i \in 0 .. n - 1, j \in 0 .. k - 1 :
          /\ slab_set'[i][j] = disk'.page.slab[i * k + j + 1].blob_id
          /\ slab_set'[i][j] \in bs'.open
    BY <1>3, <1>5
  <2> QED BY <1>2, <1>3, <1>4, <1>6, <1>8, <2>1 DEF Assigned
<1> QED BY <1>9, <1>10

LEMMA OpenBlobNextKeeps ==
  ASSUME LifeInv, OpenBlobNext
  PROVE  LifeInv'
<1>1. app = "kvs" /\ pc = "open" /\ slab_idx \in Slabs
  BY LoadedFacts DEF OpenBlobNext
<1>2. disk.page.nb_shards % nb_works = 0
  BY <1>1, ServesFacts DEF ServesInv
<1>3. ASSUME sl.slab[slab_idx].blob_id \in disk.blobs, Open(sl.slab[slab_idx].blob_id),
             sl' = [sl EXCEPT !.slab[slab_idx].resv = sl.slab[slab_idx].blob_id],
             \/ slab_idx = TotalSlabs /\ CreateRuntime(sl')
             \/ /\ slab_idx < TotalSlabs /\ slab_idx' = slab_idx + 1
                /\ UNCHANGED <<app, pc, kctx, rc, failed, runtimeVars>>
      PROVE  LifeInv'
  <2>1. /\ disk' = disk /\ disk' \in DiskType /\ bs' \in BsType /\ sl' \in Layouts
        /\ Mirrored' /\ disk'.super # NONE /\ disk'.page # NONE
        /\ Same(sl', disk'.page) /\ TotalSlabs' = TotalSlabs /\ TotalSlabs \in Slabs
        /\ TotalSlabs = Total(disk.page) /\ slab_idx <= TotalSlabs
        /\ \A s \in 1 .. slab_idx : /\ sl'.slab[s].resv = sl'.slab[s].blob_id
                                    /\ sl'.slab[s].blob_id \in bs'.open
        /\ DiskInv'
    BY <1>1, <1>3, FollowedOpened
  <2>2. CASE slab_idx = TotalSlabs /\ CreateRuntime(sl')
    <3>1. /\ app' = app /\ kctx' = kctx /\ rc' = rc /\ failed' = failed
          /\ slab_idx' = slab_idx
          /\ \/ SetRuntime(sl') /\ pc' \in {"recovery", "serving", "crashed"}
             \/ pc' = "crashed" /\ UNCHANGED runtimeVars
      BY <2>2 DEF CreateRuntime, TestAfterFree
    <3>2. Total(sl') = Total(disk.page)
      BY <2>1 DEF Total, Same
    <3>3. PICK layout \in Layouts : layout = sl'
      BY <2>1
    <3>4. /\ Total(layout) \in Slabs /\ Same(layout, disk'.page)
          /\ \A s \in 1 .. Total(layout) : /\ layout.slab[s].resv = layout.slab[s].blob_id
                                           /\ layout.slab[s].blob_id \in bs'.open
      BY <2>1, <2>2, <3>2, <3>3
    <3>5. TypeOKRuntime' /\ (pc' # "crashed" => Assigned' /\ nb_works' = nb_works)
      <4>1. CASE SetRuntime(sl')
        BY <1>1, <2>1, <3>3, <3>4, <4>1, ServesFacts, RuntimeSet DEF SetRuntime
      <4>2. CASE pc' = "crashed" /\ UNCHANGED runtimeVars
        BY <1>1, <4>2, ServesFacts, RuntimeTypesKept
      <4> QED BY <3>1, <4>1, <4>2
    <3>6. LoadedInv'
      BY <2>1, <3>1 DEF LoadedInv
    <3>7. ServesInv'
      BY <1>2, <2>1, <3>1, <3>5 DEF ServesInv
    <3> QED BY <1>1, <2>1, <3>1, <3>5, <3>6, <3>7, LoadedFacts, StartsKeeps
  <2>3. CASE /\ slab_idx < TotalSlabs /\ slab_idx' = slab_idx + 1
             /\ UNCHANGED <<app, pc, kctx, rc, failed, runtimeVars>>
    <3>1. slab_idx' \in Slabs /\ slab_idx' <= TotalSlabs'
      BY <1>1, <2>1, <2>3, SizesAssumption DEF Slabs
    <3>2. Opened(1, slab_idx - 1)'
      BY <1>1, <2>1, <2>3, SlabRange DEF Opened
    <3>3. LoadedInv'
      BY <1>1, <2>1, <2>3, <3>1, <3>2 DEF LoadedInv
    <3>4. ServesInv'
      BY <1>1, <1>2, <2>1, <2>3 DEF ServesInv, runtimeVars
    <3>5. pc' \in Checking
      BY <1>1, <2>3 DEF Checking
    <3>6. TypeOKRuntime'
      BY <1>1, <2>3, ServesFacts, RuntimeTypesKept
    <3> QED BY <1>1, <2>1, <2>3, <3>1, <3>3, <3>4, <3>5, <3>6, LoadedFacts, StartsKeeps
  <2> QED BY <1>3, <2>2, <2>3
<1>4. CASE KvsFails("open") /\ UNCHANGED runtimeVars
  BY <1>1, <1>4, KvsFailsKeeps
<1> QED BY <1>3, <1>4 DEF OpenBlobNext

LEMMA WorkerReadyKeeps ==
  ASSUME LifeInv, NEW w \in Workers, WorkerReady(w), app = "kvs"
  PROVE  LifeInv'
<1>1. /\ pc = "recovery" /\ ready' = ready \cup {w}
      /\ UNCHANGED <<disk, bs, app, pc, sl, kctx, slab_idx, rc, failed>>
      /\ UNCHANGED <<nb_works, slab_set, reclaim, waited, g_kvs>>
  BY DEF WorkerReady, blobVars, storeVars, appVars
<1>2. TypeOKRuntime'
  BY <1>1, ServesFacts DEF TypeOKRuntime, Shards, NbShards, Workers
<1>3. DiskInv' /\ LoadedInv'
  BY <1>1, LoadedFacts DEF DiskInv, LoadedInv, Mirrored
<1>4. ServesInv'
  BY <1>1, ServesFacts DEF ServesInv, Assigned, Shards, Workers
<1>5. /\ disk' \in DiskType /\ bs' \in BsType /\ sl' \in Layouts /\ slab_idx' \in Slabs
      /\ kctx' \in ContextType /\ failed' \in BOOLEAN
  BY <1>1, LoadedFacts
<1>6. app' = app /\ rc' = rc /\ pc' \in Checking \cup {"unload", "recovery", "serving", "crashed"}
  BY <1>1
<1> QED BY <1>2, <1>3, <1>4, <1>5, <1>6, StartsKeeps

LEMMA WaitReadyKeeps ==
  ASSUME LifeInv, WaitReady
  PROVE  LifeInv'
<1>1. /\ app = "kvs" /\ pc = "recovery" /\ waited \in ready /\ waited' = waited + 1
      /\ UNCHANGED <<disk, bs, app, sl, kctx, slab_idx, rc, failed>>
      /\ UNCHANGED <<nb_works, slab_set, reclaim, ready, g_kvs>>
      /\ pc' \in {"recovery", "serving", "crashed"}
  BY DEF WaitReady, TestAfterFree, storeVars
<1>2. TypeOKRuntime'
  <2>1. waited \in 0 .. nb_works - 1
    BY <1>1, ServesFacts DEF TypeOKRuntime, Workers
  <2>2. nb_works \in Nat
    <3>1. nb_works \in WorkerCounts \cup {1}
      BY <1>1, ServesFacts DEF TypeOKRuntime
    <3> QED BY <3>1, WorkerCountsAssumption
  <2>3. waited' \in 0 .. nb_works'
    BY <1>1, <2>1, <2>2
  <2> QED BY <1>1, <2>3, ServesFacts DEF TypeOKRuntime, Shards, NbShards, Workers
<1>3. DiskInv' /\ LoadedInv'
  BY <1>1, LoadedFacts DEF DiskInv, LoadedInv, Mirrored
<1>4. ServesInv'
  BY <1>1, ServesFacts DEF ServesInv, Assigned, Shards, Workers
<1> QED BY <1>1, <1>2, <1>3, <1>4, LoadedFacts, StartsKeeps

-----------------------------------------------------------------------------
(* Programs that begin and end. *)

\* A program begins with the device as it is.
LEMMA BeginKeeps ==
  ASSUME LifeInv, NEW program \in {"format", "dump", "kvs"},
         NEW first \in {"bs_init", "load"}, NEW context \in ContextType,
         NEW layout \in Layouts, Run(program, first, context, layout),
         UNCHANGED storeVars, TypeOKRuntime',
         program = "format" => first = "bs_init" /\ ~context.bs /\ Divides(layout),
         program # "format" => first = "load"
  PROVE  LifeInv'
<1>1. /\ app' = program /\ pc' = first /\ kctx' = context /\ sl' = layout /\ slab_idx' = 1
      /\ rc' = "none" /\ failed' = FALSE /\ disk' = disk /\ bs' = bs
  BY DEF Run, storeVars
<1>2. disk \in DiskType /\ bs \in BsType /\ DiskInv
  BY TypesOf DEF LifeInv
<1>3. TypeOK'
  <2>1. pc' \in Pcs
    BY <1>1 DEF Pcs
  <2> QED BY <1>1, <1>2, <2>1, RootIsBlob, TypesFrom
<1>4. DiskInv' /\ ProgramInv'
  BY <1>1, <1>2 DEF DiskInv, ProgramInv
<1>5. app' = "format" => MakingInv' /\ SlabsInv'
  BY <1>1 DEF MakingInv, SlabsInv, Making, Divides
<1>6. app' \in {"dump", "kvs"} => LoadedInv' /\ ServesInv'
  BY <1>1 DEF LoadedInv, ServesInv
<1> QED BY <1>3, <1>4, <1>5, <1>6 DEF LifeInv

LEMMA NoContextTyped == NoContext \in ContextType /\ ~NoContext.bs
<1>1. 0 \in Uint
  BY SizesAssumption DEF Uint
<1> QED BY <1>1 DEF NoContext, ContextType

LEMMA KvsCreateKeeps ==
  ASSUME LifeInv, KvsCreate, UNCHANGED runtimeVars
  PROVE  LifeInv'
<1>1. PICK shards \in ShardArgs, chunks \in ChunkArgs, nodes \in NodeArgs :
        /\ AcceptsShards(shards)
        /\ Run("format", "bs_init", [NoContext EXCEPT !.nodes = ToUint(nodes)],
               NewLayout(ToUint(shards), ToUint(chunks)))
        /\ UNCHANGED storeVars
  BY DEF KvsCreate
<1>2. ToUint(shards) \in Uint /\ ToUint(chunks) \in Uint /\ ToUint(nodes) \in Uint
  BY ArgsAssumption, UintRange
<1>3. PICK context \in ContextType :
        context = [NoContext EXCEPT !.nodes = ToUint(nodes)] /\ ~context.bs
  <2>1. PICK u \in Uint : u = ToUint(nodes)
    BY <1>2
  <2>2. [NoContext EXCEPT !.nodes = u] \in ContextType /\ ~[NoContext EXCEPT !.nodes = u].bs
    BY NoContextTyped DEF ContextType
  <2> QED BY <2>1, <2>2
<1>4. PICK layout \in Layouts :
        /\ layout = NewLayout(ToUint(shards), ToUint(chunks))
        /\ layout.nb_shards = ToUint(shards)
  <2>1. PICK u \in Uint, c \in Uint : u = ToUint(shards) /\ c = ToUint(chunks)
    BY <1>2
  <2>2. NewLayout(u, c) \in Layouts /\ NewLayout(u, c).nb_shards = u
    BY DEF NewLayout, Layouts, NoSlab
  <2> QED BY <2>1, <2>2
<1>5. Divides(layout)
  BY <1>1, <1>4, ArgsAssumption DEF Divides
<1>6. TypeOKRuntime'
  BY TypesOf, RuntimeTypesKept DEF LifeInv
<1> QED BY <1>1, <1>3, <1>4, <1>5, <1>6, BeginKeeps

LEMMA KvsDumpKeeps ==
  ASSUME LifeInv, KvsDump, UNCHANGED runtimeVars
  PROVE  LifeInv'
<1>1. TypeOKRuntime'
  BY TypesOf, RuntimeTypesKept DEF LifeInv
<1> QED BY <1>1, NoContextTyped, NoLayoutTyped, BeginKeeps DEF KvsDump

LEMMA KvsStartKeeps ==
  ASSUME LifeInv, KvsStart
  PROVE  LifeInv'
<1>1. /\ nb_works' \in WorkerCounts /\ reclaim' = [w \in 0 .. nb_works' - 1 |-> {}]
      /\ ready' = {} /\ waited' = 0 /\ g_kvs' = FALSE /\ slab_set' = slab_set
      /\ UNCHANGED storeVars /\ Run("kvs", "load", NoContext, NoLayout)
  BY DEF KvsStart, storeVars
<1>2. TypeOKRuntime
  BY TypesOf DEF LifeInv
<1>3. nb_works' \in Nat
  BY <1>1, WorkerCountsAssumption
<1>4. TypeOKRuntime'
  <2>1. Shards' = Shards /\ NbShards' = NbShards
    BY <1>1 DEF Shards, NbShards
  <2>2. DOMAIN reclaim' = Workers' /\ \A w \in Workers' : reclaim'[w] = {}
    BY <1>1 DEF Workers
  <2>3. waited' \in 0 .. nb_works' /\ nb_works' \in WorkerCounts \cup {1}
    BY <1>1, <1>3
  <2> QED BY <1>1, <1>2, <2>1, <2>2, <2>3 DEF TypeOKRuntime
<1> QED BY <1>1, <1>4, NoContextTyped, NoLayoutTyped, BeginKeeps

\* A store that is not set up has no shards.
LEMMA NoShards ==
  /\ DOMAIN << >> = {} /\ Cardinality({}) = 0 /\ 0 .. 0 - 1 = {}
  /\ \A S : << >> \in [{} -> S]
<1>1. \A S : << >> \in [{} -> S]
  OBVIOUS
<1>2. 0 .. 0 - 1 = {}
  OBVIOUS
<1> QED BY <1>1, <1>2, FS_EmptySet

LEMMA ForgetTyped ==
  ASSUME ForgetRuntime
  PROVE  TypeOKRuntime'
<1>1. Shards' = {} /\ NbShards' = 0
  BY NoShards DEF ForgetRuntime, Shards, NbShards
<1>2. slab_set' \in [Shards -> [0 .. NbSlabsPerShard - 1 -> Blobs \cup {NONE}]]'
  BY <1>1, NoShards DEF ForgetRuntime
<1>3. Workers' = {0}
  BY DEF ForgetRuntime, Workers
<1> QED BY <1>1, <1>2, <1>3, NoShards DEF ForgetRuntime, TypeOKRuntime

\* An end, or a crash, leaves a device that may be followed or will not be.
LEMMA CrashIsSound ==
  ASSUME LifeInv, app # "none", disk' \in AfterCrash
  PROVE  /\ disk' \in DiskType /\ disk'.super \in {0, NONE} /\ Sound(disk'.super, disk')
<1>1. StoreTyped /\ disk \in DiskType /\ bs \in BsType /\ sl \in Layouts /\ DiskInv
        /\ ProgramInv /\ app \in {"format", "dump", "kvs"}
  BY TypesOf DEF LifeInv
<1>2. CASE disk' = disk
  BY <1>1, <1>2 DEF DiskInv
<1>3. CASE disk' = Blank
  BY <1>3, NoSizesTyped DEF Blank, DiskType, Sound
<1>4. CASE pc = "write" /\ disk' \in TornWrites
  <2>1. disk.super = NONE
    BY <1>1, <1>4 DEF ProgramInv, Checking, LifeInv, MakingInv, Making
  <2> QED BY <1>1, <1>4, <2>1, TornTyped DEF Sound
<1>5. CASE pc = "unload" /\ bs.open = {} /\ disk' = [disk EXCEPT !.super = bs.super]
  <2>1. Sound(bs.super, disk)
    BY <1>1, <1>5 DEF LifeInv, MakingInv, LoadedInv, Mirrored, DiskInv
  <2>2. /\ disk' \in DiskType /\ disk'.super = bs.super /\ disk'.page = disk.page
        /\ disk'.blobs = disk.blobs /\ disk'.size = disk.size
    BY <1>1, <1>5 DEF DiskType, BsType
  <2> QED BY <1>1, <2>1, <2>2, SoundSame DEF DiskInv
<1> QED BY <1>2, <1>3, <1>4, <1>5 DEF AfterCrash, CanUnload

LEMMA ExitKeeps ==
  ASSUME LifeInv, Exit, ForgetRuntime
  PROVE  LifeInv'
<1>1. /\ app' = "none" /\ pc' = "none" /\ bs' = Unloaded /\ sl' = NoLayout
      /\ kctx' = NoContext /\ slab_idx' = 1 /\ rc' = "none" /\ failed' = FALSE
      /\ app # "none" /\ disk' \in AfterCrash
  BY DEF Exit
<1>2. disk' \in DiskType /\ disk'.super \in {0, NONE} /\ Sound(disk'.super, disk')
  BY <1>1, CrashIsSound
<1>3. bs' \in BsType /\ bs'.super = NONE
  BY <1>1, NoSizesTyped DEF Unloaded, BsType
<1>4. TypeOK'
  <2>1. pc' \in Pcs
    BY <1>1 DEF Pcs
  <2> QED BY <1>1, <1>2, <1>3, <2>1, NoLayoutTyped, NoContextTyped, RootIsBlob, ForgetTyped,
             TypesFrom
<1>5. DiskInv' /\ ProgramInv'
  BY <1>1, <1>2, <1>3 DEF DiskInv, ProgramInv
<1> QED BY <1>1, <1>4, <1>5 DEF LifeInv

-----------------------------------------------------------------------------
(* The invariant holds at all times. *)

LEMMA LifeInvInit ==
  ASSUME Init
  PROVE  LifeInv
<1>1. /\ disk \in {Blank, [Blank EXCEPT !.super = 0, !.blobs = {0}, !.size[0] = 1]}
      /\ bs = Unloaded /\ app = "none" /\ pc = "none" /\ sl = NoLayout
      /\ kctx = NoContext /\ slab_idx = 1 /\ rc = "none" /\ failed = FALSE
  BY DEF Init, InitBlobs
<1>2. disk \in DiskType /\ disk.super \in {0, NONE} /\ disk.page = NONE
  <2>1. CASE disk = Blank
    BY <2>1, NoSizesTyped DEF Blank, DiskType
  <2>2. CASE disk = [Blank EXCEPT !.super = 0, !.blobs = {0}, !.size[0] = 1]
    <3>1. disk = [super |-> 0, blobs |-> {0}, size |-> [NoSizes EXCEPT ![0] = 1], page |-> NONE]
      BY <2>2 DEF Blank
    <3>2. [NoSizes EXCEPT ![0] = 1] \in [Blobs -> Uint]
      BY NoSizesTyped
    <3> QED BY <3>1, <3>2, RootIsBlob DEF DiskType
  <2> QED BY <1>1, <2>1, <2>2
<1>3. bs \in BsType /\ bs.super = NONE
  BY <1>1, NoSizesTyped DEF Unloaded, BsType
<1>4. TypeOKRuntime
  <2>1. slab_set = << >> /\ nb_works = 1 /\ reclaim = [w \in {0} |-> {}] /\ ready = {}
          /\ waited = 0 /\ g_kvs = FALSE
    BY DEF Init, InitRuntime
  <2>2. Shards = {} /\ NbShards = 0 /\ Workers = {0}
    BY <2>1, NoShards DEF Shards, NbShards, Workers
  <2>3. slab_set \in [Shards -> [0 .. NbSlabsPerShard - 1 -> Blobs \cup {NONE}]]
    BY <2>1, <2>2, NoShards
  <2> QED BY <2>1, <2>2, <2>3, NoShards DEF TypeOKRuntime
<1>5. TypeOKBlobs
  BY <1>1, <1>2, <1>3, NoLayoutTyped, NoContextTyped, RootIsBlob
     DEF TypeOKBlobs, DiskType, BsType, ContextType
<1>6. TypeOK /\ DiskInv /\ ProgramInv
  BY <1>1, <1>2, <1>3, <1>4, <1>5 DEF TypeOK, DiskInv, ProgramInv, Sound
<1> QED BY <1>1, <1>6 DEF LifeInv

LEMMA StutterKeeps ==
  ASSUME LifeInv, UNCHANGED vars
  PROVE  LifeInv'
<1>1. /\ UNCHANGED <<disk, bs, app, pc, sl, kctx, slab_idx, rc, failed>>
      /\ UNCHANGED <<nb_works, slab_set, reclaim, ready, waited, g_kvs>>
  BY DEF vars, kvsVars, blobVars, storeVars, appVars, runtimeVars
<1>2. TypeOK'
  <2>1. TypeOKRuntime'
    BY <1>1, TypesOf, RuntimeTypesKept DEF LifeInv, runtimeVars
  <2>2. TypeOKBlobs'
    BY <1>1 DEF LifeInv, TypeOK, TypeOKBlobs
  <2> QED BY <1>1, <2>1, <2>2 DEF LifeInv, TypeOK
<1>3. DiskInv' /\ ProgramInv'
  BY <1>1 DEF LifeInv, DiskInv, ProgramInv
<1>4. app = "format" => MakingInv' /\ SlabsInv'
  BY <1>1 DEF LifeInv, MakingInv, SlabsInv, Divides, TotalSlabs, Opened, Resized, InitSize
<1>5. app \in {"dump", "kvs"} => LoadedInv'
  BY <1>1 DEF LifeInv, LoadedInv, Mirrored, TotalSlabs, Opened
<1>6. app = "kvs" => ServesInv'
  BY <1>1 DEF LifeInv, ServesInv, Assigned, Shards, Workers
<1> QED BY <1>1, <1>2, <1>3, <1>4, <1>5, <1>6 DEF LifeInv

LEMMA LifeInvNext ==
  ASSUME LifeInv, [Next]_vars
  PROVE  LifeInv'
<1>1. CASE KvsCreate /\ UNCHANGED runtimeVars
  BY <1>1, KvsCreateKeeps
<1>2. CASE KvsDump /\ UNCHANGED runtimeVars
  BY <1>2, KvsDumpKeeps
<1>3. CASE KvsStart
  BY <1>3, KvsStartKeeps
<1>4. CASE Exit /\ ForgetRuntime
  BY <1>4, ExitKeeps
<1>5. CASE FormatNext /\ UNCHANGED runtimeVars
  <2>1. CASE ForeachOpenCb
    BY <1>5, <2>1, FormatOpensKeeps, DumpOpensKeeps DEF ForeachOpenCb
  <2>2. CASE ForeachCloseCb
    BY <1>5, <2>2, FormatClosesKeeps, DumpClosesKeeps DEF ForeachCloseCb
  <2> QED BY <1>5, <2>1, <2>2, KvsCreateFailsKeeps, BsInitCompleteKeeps, BsInitFailsKeeps,
             SuperBlobCreateCompleteKeeps, SetSuperRootCompleteKeeps,
             SuperBlobOpenCompleteKeeps, SuperResizeCompleteKeeps, ForeachCreateCbKeeps,
             ForeachResizeCbKeeps, SuperWriteCompleteKeeps, SuperSyncCompleteKeeps,
             SuperBlobCloseCompleteKeeps, UnloadCompleteKeeps DEF FormatNext
<1>6. CASE DumpNext /\ UNCHANGED runtimeVars
  BY <1>6, DumpLoadCompleteKeeps, DumpGetSuperCompleteKeeps, DumpSuperCompleteKeeps,
     DumpReadSuperPageCompleteKeeps, DumpSuperPagesCompleteKeeps,
     KvsCloseSuperCompleteKeeps DEF DumpNext
<1>7. CASE StartupNext
  <2>1. ASSUME NEW w \in Workers, WorkerReady(w)
        PROVE  LifeInv'
    <3>1. app = "kvs"
      BY <2>1, TypesOf DEF WorkerReady, LifeInv, ProgramInv, Making, Checking
    <3> QED BY <2>1, <3>1, WorkerReadyKeeps
  <2> QED BY <1>7, <2>1, LoadBsCompleteKeeps, GetSuperCompleteKeeps, SuperOpenCompleteKeeps,
             ReadSuperPageCompleteKeeps, ReadAllSuperPagesCompleteKeeps, OpenBlobNextKeeps,
             KvsUnloadCompleteKeeps, WaitReadyKeeps DEF StartupNext
<1>8. CASE UNCHANGED vars
  BY <1>8, StutterKeeps
<1> QED BY <1>1, <1>2, <1>3, <1>4, <1>5, <1>6, <1>7, <1>8 DEF Next, Steps

LEMMA LifeAlways == Spec => []LifeInv
<1>1. Init => LifeInv
  BY LifeInvInit
<1>2. LifeInv /\ [Next]_vars => LifeInv'
  BY LifeInvNext
<1> QED BY <1>1, <1>2, PTL DEF Spec

-----------------------------------------------------------------------------
(* What follows from the invariant. *)

\* No variable of the device, the programs or the store ever leaves its type,
\* whatever is given as an option, fails or dies.
THEOREM LifeTypesKept == Spec => []TypeOK
<1>1. LifeInv => TypeOK
  BY DEF LifeInv
<1> QED BY <1>1, LifeAlways, PTL

LEMMA FullIsComplete ==
  ASSUME NEW nodes, FullFor(disk, nodes)
  PROVE  CompleteFor(nodes)
<1>1. /\ Total(disk.page) \in Slabs /\ Recorded(disk.page, Total(disk.page), disk.blobs)
      /\ Sized(disk.page, Total(disk.page), disk.size, InitClusters(nodes, disk.page.nb_chunks))
  BY DEF FullFor
<1> QED BY <1>1 DEF CompleteFor, Recorded, Sized, Total

LEMMA FollowedIsComplete ==
  ASSUME LifeInv, app \in {"dump", "kvs"}, disk.super # NONE, disk.page # NONE
  PROVE  \E nodes \in Uint \ {0} : CompleteFor(nodes)
<1>1. PICK nodes \in Uint \ {0} : FullFor(disk, nodes)
  BY LoadedFacts DEF DiskInv, Sound, CompleteOf
<1> QED BY <1>1, FullIsComplete

LEMMA ServedShards ==
  ASSUME LifeInv, app = "kvs", pc \in {"recovery", "serving"}
  PROVE  /\ disk.super # NONE /\ disk.page # NONE /\ Assigned
         /\ disk.page.nb_shards \in Nat \ {0} /\ nb_works \in Nat \ {0}
         /\ disk.page.nb_shards % nb_works = 0 /\ NbShards = disk.page.nb_shards
<1>1. disk.super # NONE /\ disk.page # NONE
  BY LoadedFacts DEF LoadedInv
<1>2. Assigned /\ disk.page.nb_shards % nb_works = 0
  BY ServesFacts DEF ServesInv
<1>3. disk.page.nb_shards \in Nat \ {0}
  <2>1. disk.page \in Layouts /\ Total(disk.page) \in Slabs
    BY <1>1, LoadedComplete
  <2>2. disk.page.nb_shards \in Nat
    BY <2>1, SizesAssumption DEF Layouts, Uint
  <2> QED BY <2>1, <2>2, SizesAssumption DEF Total, Slabs
<1>4. nb_works \in Nat \ {0}
  <2>1. nb_works \in WorkerCounts \cup {1}
    BY ServesFacts DEF TypeOKRuntime
  <2> QED BY <2>1, WorkerCountsAssumption
<1>5. NbShards = disk.page.nb_shards
  BY <1>2, <1>3, ShardsCounted DEF Assigned, NbShards
<1> QED BY <1>1, <1>2, <1>3, <1>4, <1>5

\* Whatever fails, and wherever a format dies, the dump and the start follow
\* only a layout in which every slab has its own blob, and all blobs the size
\* that one number of initial nodes, not 0, gives in 32 bits; and the slabs
\* given to the workers are these blobs, open.
THEOREM LifeAcceptedIsComplete == Spec => []AcceptedIsComplete
<1>1. ASSUME LifeInv
      PROVE  AcceptedIsComplete
  <2>1. ASSUME app \in {"dump", "kvs"},
               pc \in {"open", "dump_close_super", "recovery", "serving"}
        PROVE  disk.page # NONE /\ \E nodes \in Uint \ {0} : CompleteFor(nodes)
    <3>1. disk.super # NONE /\ disk.page # NONE
      BY <1>1, <2>1, LoadedFacts DEF LoadedInv
    <3> QED BY <1>1, <2>1, <3>1, FollowedIsComplete
  <2>2. ASSUME app = "kvs", pc \in {"recovery", "serving"}
        PROVE  /\ NbShards = disk.page.nb_shards
               /\ \A i \in Shards, j \in 0 .. NbSlabsPerShard - 1 :
                    /\ slab_set[i][j] = disk.page.slab[i * NbSlabsPerShard + j + 1].blob_id
                    /\ slab_set[i][j] \in bs.open
    BY <1>1, <2>2, ServedShards DEF Assigned
  <2> QED BY <2>1, <2>2 DEF AcceptedIsComplete
<1>2. LifeInv => AcceptedIsComplete
  BY <1>1
<1> QED BY <1>2, LifeAlways, PTL

\* The addresses of blobs that the callbacks of an iteration pass on are always
\* of blobs this very process has open, and not what a page of the device says.
THEOREM LifeAddressesOpen == Spec => []AddressesOpen
<1>1. ASSUME LifeInv, pc \in {"resize", "close"}
      PROVE  sl.slab[slab_idx].resv \in bs.open
  <2>1. slab_idx \in Slabs /\ app \in {"format", "dump"}
    BY <1>1, TypesOf DEF LifeInv, ProgramInv, Making, Checking
  <2>2. CASE app = "format"
    <3>1. TotalSlabs \in Slabs /\ slab_idx <= TotalSlabs
      BY <1>1, <2>2, FormatFacts DEF SlabsInv
    <3>2. slab_idx \in 1 .. TotalSlabs /\ slab_idx \in slab_idx .. TotalSlabs
      BY <2>1, <3>1, SizesAssumption DEF Slabs
    <3>3. Opened(1, TotalSlabs) \/ Opened(slab_idx, TotalSlabs)
      BY <1>1, <2>2, FormatFacts DEF SlabsInv
    <3> QED BY <3>2, <3>3 DEF Opened
  <2>3. CASE app = "dump"
    <3>1. /\ pc = "close" /\ disk.super # NONE /\ disk.page # NONE /\ Same(sl, disk.page)
          /\ slab_idx <= TotalSlabs /\ Opened(slab_idx, TotalSlabs)
      BY <1>1, <2>3, LoadedFacts DEF LifeInv, ProgramInv, Checking, LoadedInv
    <3>2. TotalSlabs \in Slabs
      BY <1>1, <2>3, <3>1, FollowedLayout
    <3>3. slab_idx \in slab_idx .. TotalSlabs
      BY <2>1, <3>1, <3>2, SizesAssumption DEF Slabs
    <3> QED BY <3>1, <3>3 DEF Opened
  <2> QED BY <2>1, <2>2, <2>3
<1>2. LifeInv => AddressesOpen
  BY <1>1 DEF AddressesOpen
<1> QED BY <1>2, LifeAlways, PTL

\* n shards in m equal parts.
LEMMA EqualParts ==
  ASSUME NEW n \in Nat \ {0}, NEW m \in Nat \ {0}, n % m = 0
  PROVE  \E k \in Nat \ {0} : n \div m = k /\ n = m * k /\ m <= n
<1>1. PICK k \in Nat : k = n \div m
  OBVIOUS
<1>2. n = m * k
  BY <1>1
<1>3. k # 0
  BY <1>2
<1>4. m <= n
  BY <1>2, <1>3
<1> QED BY <1>1, <1>2, <1>3, <1>4

\* A number belongs to the part that its quotient names, and to no other.
LEMMA OwnPart ==
  ASSUME NEW m \in Nat \ {0}, NEW k \in Nat \ {0}, NEW s \in 0 .. m * k - 1
  PROVE  /\ (s \div k) \in 0 .. m - 1
         /\ \A w \in 0 .. m - 1 : s \in w * k .. (w + 1) * k - 1 <=> w = s \div k
<1>1. PICK q \in Nat : q = s \div k /\ q * k <= s /\ s < q * k + k
  OBVIOUS
<1>2. q < m
  <2>1. ASSUME q >= m PROVE q * k >= m * k
    BY <2>1
  <2> QED BY <1>1, <2>1
<1>3. ASSUME NEW w \in 0 .. m - 1
      PROVE  s \in w * k .. (w + 1) * k - 1 <=> w = q
  <2>1. (w + 1) * k = w * k + k
    OBVIOUS
  <2>2. CASE w = q
    BY <1>1, <2>1, <2>2
  <2>3. CASE w < q
    <3>1. (w + 1) * k <= q * k
      BY <2>3
    <3> QED BY <1>1, <2>3, <3>1
  <2>4. CASE w > q
    <3>1. w * k >= (q + 1) * k
      BY <2>4
    <3>2. (q + 1) * k = q * k + k
      OBVIOUS
    <3> QED BY <1>1, <2>4, <3>1, <3>2
  <2> QED BY <2>2, <2>3, <2>4
<1> QED BY <1>1, <1>2, <1>3

\* Every key goes to a shard and a worker that exist, and the worker that gets
\* its calls is the only one that reclaims its shard, for every number of
\* shards and workers that the start accepts.
THEOREM LifeOwnerReclaims == Spec => []OwnerReclaims
<1>1. ASSUME LifeInv, app = "kvs", pc \in {"recovery", "serving"}
      PROVE  /\ nb_works <= NbShards
             /\ \A draw \in Draws(NbShards) :
                  /\ Route(draw).shard \in Shards /\ Route(draw).worker \in Workers
                  /\ \A w \in Workers :
                       Route(draw).shard \in reclaim[w] <=> w = Route(draw).worker
  <2>1. PICK n \in Nat \ {0} : n = NbShards /\ n = disk.page.nb_shards
    BY <1>1, ServedShards
  <2>2. PICK m \in Nat \ {0} : m = nb_works /\ n % m = 0
    BY <1>1, <2>1, ServedShards
  <2>3. PICK k \in Nat \ {0} : n \div m = k /\ n = m * k /\ m <= n
    BY <2>2, EqualParts
  <2>4. Shards = 0 .. n - 1 /\ reclaim = [w \in 0 .. m - 1 |-> w * k .. (w + 1) * k - 1]
    BY <1>1, <2>1, <2>2, <2>3, ServedShards DEF Assigned, Workers
  <2>5. ASSUME NEW draw \in Draws(NbShards)
        PROVE  /\ Route(draw).shard \in Shards /\ Route(draw).worker \in Workers
               /\ \A w \in Workers :
                    Route(draw).shard \in reclaim[w] <=> w = Route(draw).worker
    <3>1. PICK s \in 0 .. n - 1 : s = Hash(draw, NbShards)
      BY <2>1, <2>5, HashInRange
    <3>2. Route(draw) = [shard |-> s, worker |-> s \div k]
      BY <2>1, <2>2, <2>3, <3>1 DEF Route, HashShardToWorker
    <3>3. /\ (s \div k) \in 0 .. m - 1
          /\ \A w \in 0 .. m - 1 : s \in w * k .. (w + 1) * k - 1 <=> w = s \div k
      BY <2>3, OwnPart
    <3> QED BY <2>2, <2>4, <3>1, <3>2, <3>3 DEF Workers
  <2> QED BY <2>1, <2>2, <2>3, <2>5
<1>2. LifeInv => OwnerReclaims
  BY <1>1 DEF OwnerReclaims
<1> QED BY <1>2, LifeAlways, PTL
-----------------------------------------------------------------------------
(* A format that did not fail. *)

\* What the formatter has done by the time it awaits an operation.
SuccessInv ==
  app = "format" /\ ~failed =>
    /\ pc \in Making => kctx.bs
    /\ pc \in {"open_super", "resize_super", "create", "open", "resize", "write", "sync",
               "close_super", "close", "unload"} => bs.super = 0
    /\ pc \in {"create", "open", "resize", "write", "sync", "close_super"} => bs.size[0] # 0
    /\ pc \in {"close_super", "close", "unload", "stopped"} => disk.size[0] # 0
    /\ pc \in {"unload", "stopped"} => FullFor(disk, kctx.nodes)
    /\ pc = "stopped" => disk.super = 0

\* A step that goes on with the blobstore as it is, but for open blobs, sizes and
\* pages.
LEMMA SuccessGoesOn ==
  ASSUME SuccessInv, app = "format", ~failed, kctx'.bs = kctx.bs, bs'.super = bs.super,
         bs.size[0] # 0 => bs'.size[0] # 0, disk.size[0] # 0 => disk'.size[0] # 0,
         NEW from \in Making, pc = from,
         \/ pc' = from /\ from # "idle"
         \/ <<from, pc'>> \in {<<"create", "open">>, <<"create", "write">>, <<"open", "resize">>,
                               <<"resize", "write">>, <<"write", "sync">>,
                               <<"close_super", "close">>}
         \/ pc' \in {"idle", "crashed"}
  PROVE  SuccessInv'
  BY DEF SuccessInv, Making

LEMMA SuccessStarts ==
  ASSUME LifeInv, SuccessInv, app = "format", ~failed, ~failed',
         \/ BsInitComplete \/ SuperBlobCreateComplete \/ SetSuperRootComplete
         \/ SuperBlobOpenComplete \/ SuperResizeComplete
  PROVE  SuccessInv'
<1>1. bs \in BsType /\ disk \in DiskType /\ kctx \in ContextType
  BY FormatFacts
<1>2. ASSUME NEW op, Fails(op) PROVE FALSE
  BY <1>2 DEF Fails, UnloadBs
<1>3. CASE BsInitComplete
  <2>1. pc' = "create_super" /\ kctx' = [kctx EXCEPT !.bs = TRUE]
    BY <1>3 DEF BsInitComplete
  <2> QED BY <1>1, <2>1 DEF SuccessInv, ContextType
<1>4. CASE SuperBlobCreateComplete
  <2>1. pc = "create_super" /\ pc' = "set_super" /\ kctx' = kctx
    BY <1>2, <1>4 DEF SuperBlobCreateComplete, Await
  <2> QED BY <2>1 DEF SuccessInv, Making
<1>5. CASE SetSuperRootComplete
  <2>1. /\ pc = "set_super" /\ pc' = "open_super" /\ kctx' = kctx
        /\ bs' = [bs EXCEPT !.super = 0]
    BY <1>2, <1>5 DEF SetSuperRootComplete, Await
  <2> QED BY <1>1, <2>1 DEF SuccessInv, Making, BsType
<1>6. CASE SuperBlobOpenComplete
  <2>1. /\ pc = "open_super" /\ pc' = "resize_super" /\ Open(0)
        /\ kctx' = [kctx EXCEPT !.channel = "held"]
    BY <1>2, <1>6 DEF SuperBlobOpenComplete, UnloadBs
  <2>2. bs'.super = bs.super /\ kctx'.bs = kctx.bs
    BY <1>1, <2>1 DEF Open, BsType, ContextType
  <2> QED BY <2>1, <2>2 DEF SuccessInv, Making
<1>7. CASE SuperResizeComplete
  <2>1. pc = "resize_super" /\ pc' = "create" /\ Resize(0, 1) /\ kctx' = kctx
    BY <1>2, <1>7 DEF SuperResizeComplete, Foreach
  <2>2. bs'.super = bs.super /\ bs'.size[0] # 0
    BY <1>1, <2>1, RootIsBlob, NoSizesTyped, ResizeDoes DEF StoreTyped
  <2> QED BY <2>1, <2>2 DEF SuccessInv, Making
<1> QED BY <1>3, <1>4, <1>5, <1>6, <1>7

LEMMA SuccessOfSlabs ==
  ASSUME LifeInv, SuccessInv, app = "format", ~failed, ~failed',
         ForeachCreateCb \/ ForeachOpenCb \/ ForeachResizeCb \/ SuperWriteComplete
  PROVE  SuccessInv'
<1>1. bs \in BsType /\ disk \in DiskType /\ kctx \in ContextType
  BY FormatFacts
<1>2. ASSUME NEW op, Fails(op) PROVE FALSE
  BY <1>2 DEF Fails, UnloadBs
<1>3. CASE ForeachCreateCb
  <2>1. PICK b \in Blobs : /\ disk' = [disk EXCEPT !.blobs = @ \cup {b}] /\ bs' = bs
                           /\ ForeachNext(AfterCreate) /\ pc = "create"
    BY <1>2, <1>3 DEF ForeachCreateCb
  <2>2. kctx' = kctx /\ pc' \in {"create", "open", "write", "crashed"}
    BY <2>1 DEF ForeachNext, NextSlab, AfterCreate, Foreach
  <2>3. disk'.size = disk.size
    BY <1>1, <2>1 DEF DiskType
  <2> QED BY <2>1, <2>2, <2>3, SuccessGoesOn DEF Making
<1>4. CASE ForeachOpenCb
  <2>1. ForeachNext(AfterOpen) /\ Open(sl.slab[slab_idx].blob_id) /\ pc = "open"
    BY <1>2, <1>4 DEF ForeachOpenCb
  <2>2. kctx' = kctx /\ pc' \in {"open", "resize", "crashed"}
    BY <2>1 DEF ForeachNext, NextSlab, AfterOpen, Foreach
  <2>3. disk' = disk /\ bs'.super = bs.super /\ bs'.size = bs.size
    BY <1>1, <2>1 DEF Open, BsType
  <2> QED BY <2>1, <2>2, <2>3, SuccessGoesOn DEF Making
<1>5. CASE ForeachResizeCb
  <2>1. ForeachNext(Foreach("write")) /\ pc = "resize"
        /\ Resize(sl.slab[slab_idx].resv, InitClusters(kctx.nodes, sl.nb_chunks))
    BY <1>2, <1>5 DEF ForeachResizeCb
  <2>2. kctx' = kctx /\ pc' \in {"resize", "write", "crashed"}
    BY <2>1 DEF ForeachNext, NextSlab, Foreach
  <2>3. disk' = disk /\ bs'.super = bs.super /\ bs'.size[0] = bs.size[0]
    <3>1. /\ Recorded(sl, TotalSlabs, disk.blobs) /\ Opened(1, TotalSlabs)
          /\ TotalSlabs \in Slabs /\ slab_idx \in Slabs /\ slab_idx <= TotalSlabs
      BY <2>1, FormatFacts DEF SlabsInv
    <3>2. slab_idx \in 1 .. TotalSlabs
      BY <3>1, SlabRange
    <3>3. PICK b \in Blobs \ {0} : b = sl.slab[slab_idx].resv
      BY <1>1, <3>1, <3>2 DEF Opened, Recorded, DiskType
    <3>4. PICK c \in Uint : c = InitClusters(kctx.nodes, sl.nb_chunks)
      BY FormatFacts, InitSizeTyped DEF InitSize
    <3> QED BY <1>1, <2>1, <3>3, <3>4, RootIsBlob, ResizeDoes DEF StoreTyped
  <2> QED BY <2>1, <2>2, <2>3, SuccessGoesOn DEF Making
<1>6. CASE SuperWriteComplete
  <2>1. /\ pc = "write" /\ disk' = [disk EXCEPT !.page = sl] /\ pc' = "sync"
        /\ kctx' = kctx /\ bs' = bs
    BY <1>6 DEF SuperWriteComplete, Await, UnloadBs
  <2>2. disk'.size = disk.size
    BY <1>1, <2>1 DEF DiskType
  <2> QED BY <2>1, <2>2, SuccessGoesOn DEF Making
<1> QED BY <1>3, <1>4, <1>5, <1>6

LEMMA SuccessEnds ==
  ASSUME LifeInv, SuccessInv, app = "format", ~failed, ~failed',
         SuperSyncComplete \/ SuperBlobCloseComplete \/ ForeachCloseCb \/ UnloadComplete
  PROVE  SuccessInv'
<1>1. /\ StoreTyped /\ bs \in BsType /\ disk \in DiskType /\ kctx \in ContextType
      /\ sl \in Layouts
  BY FormatFacts
<1>2. ASSUME NEW op, Fails(op) PROVE FALSE
  BY <1>2 DEF Fails, UnloadBs
<1>3. CASE SuperSyncComplete
  <2>1. pc = "sync" /\ pc' = "close_super" /\ kctx' = kctx /\ Sync(0)
    BY <1>2, <1>3 DEF SuperSyncComplete, Await
  <2>2. bs.size[0] # 0 /\ bs' = bs
    BY <2>1 DEF SuccessInv, Sync
  <2>3. disk'.size[0] # 0
    BY <1>1, <2>1, <2>2, RootIsBlob, SizedDoes DEF Sync
  <2> QED BY <2>1, <2>2, <2>3 DEF SuccessInv, Making
<1>4. CASE SuperBlobCloseComplete
  <2>1. pc = "close_super" /\ Close(0) /\ kctx' = kctx /\ pc' \in {"close", "idle"}
    BY <1>2, <1>4 DEF SuperBlobCloseComplete, Await, Foreach
  <2>2. disk'.size[0] = bs.size[0] /\ bs'.super = bs.super /\ bs'.size = bs.size
    BY <1>1, <2>1, RootIsBlob, CloseDoes
  <2>3. bs.size[0] # 0
    BY <2>1 DEF SuccessInv
  <2> QED BY <2>3, <2>1, <2>2, SuccessGoesOn DEF Making
<1>5. CASE ForeachCloseCb
  <2>1. /\ pc = "close" /\ Close(sl.slab[slab_idx].resv)
        /\ (slab_idx = TotalSlabs /\ UnloadBs(FALSE)) \/ NextSlab
    BY <1>2, <1>5 DEF ForeachCloseCb
  <2>2. /\ bs'.super = bs.super /\ bs'.size = bs.size /\ disk'.size[0] = disk.size[0]
        /\ slab_idx = TotalSlabs => FullFor(disk', kctx.nodes)
    BY <2>1, FormatCloses
  <2>3. kctx.bs /\ bs.super = 0 /\ disk.size[0] # 0
    BY <2>1 DEF SuccessInv, Making
  <2>4. CASE slab_idx = TotalSlabs /\ UnloadBs(FALSE)
    <3>1. pc' \in {"crashed", "unload"} /\ kctx'.nodes = kctx.nodes
      BY <1>1, <2>3, <2>4 DEF UnloadBs, ContextType
    <3> QED BY <2>2, <2>3, <2>4, <3>1 DEF SuccessInv, Making
  <2>5. CASE NextSlab
    <3>1. pc' = "close" /\ kctx' = kctx
      BY <2>1, <2>5 DEF NextSlab
    <3> QED BY <2>1, <2>2, <3>1, SuccessGoesOn DEF Making
  <2> QED BY <2>1, <2>4, <2>5
<1>6. CASE UnloadComplete
  <2>1. pc = "unload" /\ Unload /\ pc' = "stopped" /\ kctx' = kctx
    BY <1>6 DEF UnloadComplete, Stop
  <2>2. /\ disk'.super = bs.super /\ disk'.size = disk.size /\ disk'.page = disk.page
        /\ disk'.blobs = disk.blobs
    BY <1>1, <2>1 DEF Unload, DiskType
  <2> QED BY <2>1, <2>2 DEF SuccessInv, Making, FullFor
<1> QED BY <1>3, <1>4, <1>5, <1>6

\* The program stays the same, and what failed has failed.
LEMMA FormatGoesOn ==
  ASSUME FormatNext
  PROVE  app' = app /\ (failed => failed')
<1>1. ASSUME NEW op, Fails(op) PROVE app' = app /\ (failed => failed')
  BY <1>1 DEF Fails, UnloadBs
<1>2. CASE KvsCreateFails
  BY <1>1, <1>2 DEF KvsCreateFails, Stop
<1>3. CASE BsInitComplete
  BY <1>1, <1>3 DEF BsInitComplete
<1>4. CASE BsInitFails
  BY <1>1, <1>4 DEF BsInitFails, UnloadBs
<1>5. CASE SuperBlobCreateComplete
  BY <1>1, <1>5 DEF SuperBlobCreateComplete, Await
<1>6. CASE SetSuperRootComplete
  BY <1>1, <1>6 DEF SetSuperRootComplete, Await
<1>7. CASE SuperBlobOpenComplete
  <2>1. CASE UnloadBs(TRUE)
    BY <2>1 DEF UnloadBs
  <2>2. CASE UNCHANGED <<app, sl, slab_idx, rc, failed>>
    BY <2>2
  <2> QED BY <1>1, <1>7, <2>1, <2>2 DEF SuperBlobOpenComplete
<1>8. CASE SuperResizeComplete
  BY <1>1, <1>8 DEF SuperResizeComplete, Foreach
<1>9. CASE ForeachCreateCb
  BY <1>1, <1>9 DEF ForeachCreateCb, ForeachNext, NextSlab, AfterCreate, Foreach
<1>10. CASE ForeachOpenCb
  BY <1>1, <1>10 DEF ForeachOpenCb, ForeachNext, NextSlab, AfterOpen, Foreach
<1>11. CASE ForeachResizeCb
  BY <1>1, <1>11 DEF ForeachResizeCb, ForeachNext, NextSlab, Foreach
<1>12. CASE SuperWriteComplete
  <2>1. CASE UnloadBs(TRUE)
    BY <2>1 DEF UnloadBs
  <2>2. CASE Await("sync")
    BY <2>2 DEF Await
  <2> QED BY <1>1, <1>12, <2>1, <2>2 DEF SuperWriteComplete
<1>13. CASE SuperSyncComplete
  BY <1>1, <1>13 DEF SuperSyncComplete, Await
<1>14. CASE SuperBlobCloseComplete
  BY <1>1, <1>14 DEF SuperBlobCloseComplete, Await, Foreach
<1>15. CASE ForeachCloseCb
  <2>1. CASE UnloadBs(FALSE)
    BY <2>1 DEF UnloadBs
  <2>2. CASE NextSlab
    BY <2>2 DEF NextSlab
  <2> QED BY <1>1, <1>15, <2>1, <2>2 DEF ForeachCloseCb
<1>16. CASE UnloadComplete
  BY <1>1, <1>16 DEF UnloadComplete, Stop
<1> QED BY <1>2, <1>3, <1>4, <1>5, <1>6, <1>7, <1>8, <1>9,
           <1>10, <1>11, <1>12, <1>13, <1>14, <1>15, <1>16 DEF FormatNext

LEMMA SuccessInvNext ==
  ASSUME LifeInv, SuccessInv, [Next]_vars
  PROVE  SuccessInv'
<1> SUFFICES ASSUME app' = "format", ~failed'
             PROVE  SuccessInv'
  BY DEF SuccessInv
<1>1. CASE KvsCreate /\ UNCHANGED runtimeVars
  <2>1. pc' = "bs_init"
    BY <1>1 DEF KvsCreate, Run
  <2> QED BY <2>1 DEF SuccessInv, Making
<1>2. CASE FormatNext
  <2>1. app = "format" /\ ~failed
    BY <1>2, FormatGoesOn
  <2>2. ~KvsCreateFails /\ ~BsInitFails
    BY DEF KvsCreateFails, BsInitFails, Stop, UnloadBs
  <2> QED BY <1>2, <2>1, <2>2, SuccessStarts, SuccessOfSlabs, SuccessEnds DEF FormatNext
<1>3. CASE DumpNext
  <2>1. app = "dump" /\ app' = app
    BY <1>3 DEF DumpNext, DumpLoadComplete, DumpGetSuperComplete, DumpSuperComplete,
        DumpReadSuperPageComplete, DumpSuperPagesComplete, KvsCloseSuperComplete, Fails,
        UnloadBs, Stop, Await, Foreach
  <2> QED BY <2>1
<1>4. CASE StartupNext
  <2>1. app # "format" /\ app' = app
    <3>1. ASSUME NEW w \in Workers, WorkerReady(w)
          PROVE  app # "format" /\ app' = app
      BY <3>1 DEF WorkerReady, LifeInv, ProgramInv, Making, blobVars, appVars
    <3> QED BY <1>4, <3>1 DEF StartupNext, LoadBsComplete, GetSuperComplete,
               SuperOpenComplete, ReadSuperPageComplete, ReadAllSuperPagesComplete,
               OpenBlobNext, KvsUnloadComplete, WaitReady, CreateRuntime, TestAfterFree, KvsFails, KvsUnload,
               Stop, Await, appVars
  <2> QED BY <2>1
<1>5. CASE UNCHANGED vars
  BY <1>5 DEF SuccessInv, FullFor, vars, kvsVars, blobVars, storeVars, appVars
<1> QED BY <1>1, <1>2, <1>3, <1>4, <1>5 DEF Next, Steps, KvsDump, KvsStart, Exit, Run

LEMMA SuccessAlways == Spec => []SuccessInv
<1>1. Init => SuccessInv
  BY DEF Init, InitBlobs, SuccessInv
<1>2. LifeInv /\ SuccessInv /\ [Next]_vars => SuccessInv'
  BY SuccessInvNext
<1> QED BY <1>1, <1>2, LifeAlways, PTL DEF Spec

\* A format during which nothing failed leaves a root blob of some size and a
\* complete layout, so that dump and start will follow it; the slabs have the
\* clusters that nodes and chunks come to in 32 bits.
THEOREM LifeSuccessIsComplete == Spec => []SuccessIsComplete
<1>1. ASSUME LifeInv, SuccessInv, app = "format", pc = "stopped", ~failed
      PROVE  /\ disk.page # NONE /\ CompleteFor(kctx.nodes)
             /\ disk.super # NONE /\ disk.size[disk.super] # 0
  <2>1. disk.size[0] # 0 /\ FullFor(disk, kctx.nodes) /\ disk.super = 0
    BY <1>1 DEF SuccessInv
  <2>2. CompleteFor(kctx.nodes) /\ disk.page # NONE
    BY <2>1, FullIsComplete DEF FullFor
  <2> QED BY <2>1, <2>2, RootIsBlob, NoneAssumption
<1>2. LifeInv /\ SuccessInv => SuccessIsComplete
  BY <1>1 DEF SuccessIsComplete
<1> QED BY <1>2, LifeAlways, SuccessAlways, PTL
=============================================================================
