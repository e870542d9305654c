# TLA+ models of the BagDB/SPDK key-value store

The repository is a key-value store on SPDK. User threads hash a key to a shard
and a shard to a worker, and put a request in that worker's ring. Each worker is
one SPDK thread: it polls its ring, looks keys up in its index and reads or
writes items through caches of pages. A separate program formats the device, and
a start-up path opens what the formatter left and starts the workers.

The code is unfinished. It does not compile as it stands (undeclared names,
missing arguments), and several functions it calls are absent: the PUT, DELETE
and scan handlers of the worker, the page chunk manager, the I/O manager, the
recovery of a worker, the art tree, the LRU helpers of the page cache. The models
follow the evident intent of a line that does not compile (the argument that is
missing, the variable that is misspelt) and never its comments. Absent code is
modelled from how it is called, and every such definition is marked external in
`PROJECT.json` and in the module.

Paths below are relative to `src/src/`.

## 1. Inventory

| Component | State | Operations | Talks to |
|---|---|---|---|
| Object pool, `pool.c` | an array of nodes linked by index, the head in an extra node; `nb_frees` | `pool_header_init`, `pool_get`, `pool_release` | called by the worker for internal requests, and for I/Os and chunk misses |
| Worker, `worker.c`, `kvs_internal.h` | free ring and used ring of `kv_request` buffers, submit and resubmit queues, a pool of internal requests | `worker_enqueue_*` on user threads; `_worker_business_processor_poll` and `_process_one_kv_request` on its own thread | user threads through the two rings; handlers by call |
| GET, `kv_get.c` | `getting` / `writing` / `deleting` of the index entry, the pin of its chunk, `no_lookup` of the request | `worker_process_get`, `_process_get_pagechunk_cb`, `_process_get_load_data_cb` | index, page chunk cache, I/O manager, through callbacks |
| Iterator, `kvs.c` | a heap of items, one batch, cursor and `completed` flag per worker, the buffer `seek_item` | alloc, seek, first, next, item, release; two callbacks | workers: requests one way, callbacks that write the iterator's memory the other way |
| Routing, `kvs.c`, `kvutil.c` | none | CRC and jump hash of a key to a shard, shard to worker | the shards assigned at start-up |
| Formatter and dump, `apps/format/kvs_format.c` | a context, a layout with one blob per slab, the slab an iteration is at | parse `-S`, `-C` and `-N`; create, set and open the root blob; create, open, resize each slab; write; sync; close; unload; dump | SPDK blobstore, by chains of callbacks |
| Start-up, `kvs_startup.c` | the shards and slabs, the workers with the shards they reclaim | load, read the super page, open every blob, start the workers, wait until each is ready | blobstore, workers |
| Page cache, `pagecache.c` | free list, never used pages, one LRU list and one map per level, a table of internal nodes | `get_page`, `map_internal_node_page`, `find_in_lower_level` and helpers | index above, btree map below |
| Index, `index.c`, `bpt.c`, `include/index.h` | the entries of a worker; the B+ tree | add, delete, lookup, iterate | page cache |
| btree map, `btree/` | the nodes of a vendored C++ B-tree (parent, position, values, children), its root with size, first and last leaf | find, insert, delete, scan from a key, free, behind the C wrapper `btree.cc` | index, page cache |
| Slab configuration, statistics, options, benchmarks | constants, counters, argv | | |

What is hard here, and hardly reached by a test:

* **Interleaving.** User threads and the worker share two rings. The worker reads
  three counts at the start of a poll (requests, free internal requests, I/O
  slots) and relies on them several steps later. The iterator's thread spins on
  flags that workers raise.
* **Asynchronous completion.** A GET holds an entry pointer across two waits and
  possibly several retries, while the entry may be written, deleted or freed and
  its chunk evicted.
* **Ordering and progress.** Requests that find their entry busy are retried in
  an order that each poll reverses. Nothing bounds how often a request is
  overtaken.
* **Long sequences.** The btree map changes many nodes per call, and a link that
  is left stale is only followed by some later call. A number given on the
  command line is checked in one width and kept in another.
* **Limits.** Pools, rings, page cache and I/O manager each have an exhausted
  state, and each has a branch for it.
* **Failure.** Every step of format and start-up may fail. A format may die
  between two steps, or in the middle of writing a layout of several pages. The error paths must give back what the success paths do.

The properties that make each component correct are in section 3 beside the
module that states them. `PROJECT.json` lists the hazards line by line, those
without a property with the reason.

## 2. Modules

| Module | Models | Role |
|---|---|---|
| `PoolSpec` | what a pool promises | abstract specification |
| `Pool` | `pool.c` | detailed, shown to implement `PoolSpec` |
| `Pool_proofs` | | theorems about `Pool` |
| `KvSpec` | what a worker promises its callers | abstract specification |
| `Worker` | `worker.c`, `kv_get.c`, the entry flags of `include/index.h` | detailed, shown to implement `KvSpec` where `SafeCallers` |
| `MCWorker` | | who calls what in the runs |
| `Worker_proofs` | | theorems about `Worker`: rings, calls, pins and memory, scans, freed entries, refinement |
| `ItemHeap` | `_heap_adjust`, `_make_heap` of `kvs.c` | pure algorithm, recursive functions |
| `ItemHeap_proofs` | | what the two do to any array |
| `MCItemHeap` | | every small array |
| `MCContainers_proofs` | | theorems about `MCItemHeap`, for any keys and length, and about a `BTree` of any size: what moves values, look-up, insertion |
| `BTree` | `btree/btree.cc` and what it runs of `btree/cpp-btree/btree.h` | pure operators on a tree, recursive functions |
| `MCContainers` | | the calls of the map in every order, beside those of the heap |
| `MCStructures` | | pool, page cache, heap and map, one in each behaviour, so that one run covers the data structures of a worker |
| `Iterator` | seek, first, next and the callbacks of `kvs.c` | uses `ItemHeap` |
| `Iterator_proofs` | | theorems about `Iterator` |
| `Blobstore` | SPDK's blobstore (external) and what the programs share | used by the next three |
| `Format` | `apps/format/kvs_format.c` | |
| `KvHash` | the jump hash of `kvutil.c` | pure algorithm, a recursive function |
| `Startup` | `kvs_startup.c`, the way from a key to its worker in `kvs.c` | uses `KvHash` |
| `Lifecycle` | formatter, dump and store run one after the other on one device | composes `Format` and `Startup` |
| `Lifecycle_proofs` | | theorems about `Lifecycle` and all it composes, the hash among it |
| `PageCache` | `pagecache.c`, `map_internal_node` of `bpt.c` | |
| `MCPageCache` | | minima and symmetry |
| `PageCache_proofs` | | theorems about `PageCache` |
| `StructureLemmas` | | what the operations of a queue do to its elements, and of a search tree to its keys; used by the theorems about `Worker`, `PageCache`, `Iterator` and `BTree` |

`Worker` uses a pool by its counter `nb_frees` only; that the counter is the
number of free objects, and that an object is handed out once, is what `Pool`
shows.

## 3. State, actions and properties

### Pool

`next` is the array `free_node_array[].next`, the extra node `HeadNode` its last
element; `out` (the objects the callers hold) and `ret` are history. One action
per function. Properties: the array is an acyclic list of exactly the objects
not held (`FreeListOK`); a held object passes the assertion of `pool_release`
(`HeldReleasable`); `nb_frees` counts the free ones (`CountsFree`); the pool
implements `PoolSpec` (`RefinesPoolSpec`): no object has two holders, NULL only
when all are held.

### Worker and GET

A call is identified with the caller that waits for it. `req_free_ring`,
`req_used_ring`, `buf` and `held` are the rings and the buffers. The poll is cut
where a user thread can interleave: `PollStart` (the counts; the retries move to
the submit queue, reversed), `PollDequeue`, `PollWrap`, `PollRefill`, then one
action per request, then `PollEnd`. Completions run between two polls because
they run on the same thread. `entry` is `struct index_entry`, `desc` the chunk:
whether it has memory, whether the item is in it, how often it is pinned. A GET
whose entry was freed is undefined behaviour: `UseFreedEntry` stops the model.

PUT, DELETE and scans are external. They behave as the table of
`include/index.h` says: one modifier per entry at a time, a DELETE frees the
entry only when no GET has it flagged. Item values are left out.

Properties: buffers, calls and internal requests are conserved
(`BuffersConserved`, `CallsConserved`, `PoolConserved`); the counts of a poll
hold until it has used them (`CountsStillHold`); pins equal the GETs that wait
(`PinsCountGets`), a load has memory to load into (`LoadHasMemory`), no GET
refers to a freed entry (`NoDanglingEntry`); one right answer per call
(`RefinesKvSpec`, each call taking effect at one moment); scans are answered in
the order in which they were submitted, whatever is retried between them
(`ScansInOrder`, on which the iterator relies); every GET is answered
(`EveryGetAnswered`); a thread that spins because the free ring is empty gets a
buffer in the end (`BuffersComeBack`).

Bounds of the runs, and where they bite: `NoDanglingEntry` and
`EveryGetAnswered` hold with **one** reader and **one** modifier; `getting` is
one bit that all GETs of an entry share, so with two readers the first to finish
clears it while the other still reads, and with two modifiers a GET can be
overtaken for ever. The second is run `worker_starve`.

### Iterator and heap

`queue` holds the scans a worker has not answered; `completed`, `kverrno`,
`scan_res` are the fields the callbacks write; `item_array` is the heap as a
sequence. Each command is cut at its waits. The waiting loop of seek and first is
modelled as written: it runs *while all workers have completed* and is left at
the first that has not. `seen` and `joined` are history.

`Release` frees the batches and the iterator. A worker that answers afterwards
writes into freed memory, which the model shows as `LateCallback` and a crash. A
second seek or first may begin while requests of an earlier one are unanswered;
`abandoned` records that, and `live` counts the batches that are not freed.

Properties: a scan returns each key once and nothing below the sought key
(`SeenOnce`); when the iterator says it is at the end, all keys of the workers
that were merged have been returned (`NothingSkipped`); no heap item points into
a freed batch (`ItemsAlive`); every batch is freed or still reachable
(`BatchesOwned`); a `next` that waits for a worker returns, or no batch came and it
follows a NULL `scan_res` (`NextReturns`): that is so when the scan failed, since nobody
looks at `kverrno`, and when the answer of a seek that nobody waited for is taken
for its own. All but the last are stated for
scans that do not begin among the unanswered requests of another
(`~abandoned`): no line of the code says what such a scan gives, and its first
late answer replaces the batch the heap points into. `SeenOnce` and
`NothingSkipped` moreover as long as `seek_item` still holds the sought key
(`SeekKeyKept`): `next` copies its cursor into the same buffer that the heap may
point to. What a scan returns after that, the sought item being in the heap still, is
not stated. The heap algorithms keep the items (`ItemsKept`).

### btree map

A tree is a record: `mem` holds the allocated nodes at natural addresses, each
with the fields of `btree_node`; `root`, `rightmost` and `size` are those of the
root. The operators are the functions of `btree.h` that `btree.cc` reaches:
look-up and scan, insertion with rebalancing, splits up to a new root, removal
with merges, rebalancing and shrinking, and the freeing of all nodes. Each
`assert` on the way is a condition that `ok` collects.

Properties: no assert fails (`AssertionsHold`); the nodes hold exactly the keys
inserted and not removed, in order (`KeysInOrder`); parents, positions, depths,
capacities, first and last leaf and the count are right after every call
(`WellFormed`); a scan from any key, and from the beginning, visits all that is
not smaller and ends (`ScansComplete`).

The map only compares keys, and an address means nothing. So after each call
`MCContainers` renames the keys it holds to 2, 4, 6, ... and numbers the nodes
by their least keys. An insertion of an odd number stands for every key between two of
them. This keeps the states few without leaving out an order of calls.

### Format, start-up, life of a device

`pc` names the operation whose completion the program awaits: each callback is an
action, with its error branch. `disk` is what a crash leaves. `Exit` is possible
at every moment, so a crash is covered between any two callbacks, and inside
those that change the device: a layout of several pages may be half written (the
first page and any of the others), a blobstore half made, an unload done or not
(`AfterCrash`). `sl[s].resv` is the address of an open blob, which the formatter
writes to the device among the ids. Assumed of SPDK: one page is written whole,
a page write and the creation of a blob are durable when they complete, the size
of a blob when it is synced or closed, the root blob when the blobstore is
unloaded; an unload fails while a blob is open.

`KvsCreate` starts with the options. `-S`, `-C` and `-N` are checked as `long` and
kept as `uint32_t`, and slabs and the clusters of a slab are counted in 32 bits;
`Width` bits take their place. The model follows what comes of it: 2^32 shards pass
the check and become none, an iteration over no slabs never meets its last one, 0
initial nodes leave the formatter idle for ever, and the clusters a slab is resized to
(`InitClusters`, nodes times chunks per node) may be none, or fewer than asked for. The
blobstore takes any size (`Resize`). `-f` is parsed and never read.

The start has two lines of undefined behaviour. An assertion divides by a field of
the new slab that is never set (`kvs_startup.c:127`): `CreateRuntime` may crash. The loop
that waits for the workers reads their number through the context that was freed
before it (`kvs_startup.c:68`): at each test it may go on, end, or look for a worker
that is not there (`TestAfterFree`). So users may be let in before the workers are
ready, and no property says that they are.

Properties: the workers start, and the dump prints, only on a device whose layout one
format wrote from end to end, every slab having a blob of its own with the same
`InitClusters`, and the workers get these blobs, open (`AcceptedIsComplete`); a format
in which nothing failed leaves such a device, with the `InitClusters` of the numbers it
was given (`SuccessIsComplete`); that this product is the one asked for is false
(`format_size`); no operation uses the address of a blob that is not open
(`AddressesOpen`); every key is routed to a shard and a worker that exist, and
that worker alone reclaims the shard (`OwnerReclaims`); every program ends,
except a store that serves and the formatter without initial nodes
(`ProgramEnds`; a crash by undefined behaviour is an end too).

The hash of a key is a walk of jumps over the buckets. A key is the stream of
numbers its CRC and the 64-bit generator produce, and every stream is tried, with
`Scale` in the place of 2^31; quotients are exact where the code has doubles.

### Page cache

A `struct lru` is identified with its page. A missing page comes, in this order,
from the free list, the never used pages, the deepest level that has more than
its minimum, and for a leaf the level's own oldest page. `halted` records a
NULL `oldest_page` followed and the `assert(0)` for internal nodes. `bytes` is
history: whose data a page holds. External: the callers that fill, write and free
pages; a leaf is read before anything else happens to the cache, as the one
reader in the repository (`bpt.c:9`) does. `TreeInsert`, `TreeDelete` and
`TreeLookup` are the map that `BTree` implements: an insertion keeps the entry of
a hash that is there, a removal of an absent one changes nothing.

Properties: every page is at exactly one place (`PagesAccounted`); map, list and
count of a level agree (`IndexMatchesLru`, the assertion of `pagecache.c:19`); a
flag of an earlier owner never makes its bytes pass for another leaf's
(`DataIsOfItsOwner`: it speaks of the flags, not of the 1 that `get_page` returns for a
page that is still to be read); a level never falls below its minimum
(`MinimumKept`). And what a failing request implies (`OnlyStarvedFails`): for an
internal node, that nodes and minima account for all pages; for a leaf, that its level is
empty and all pages are held by nodes and earlier levels or reserved by later ones. An
earlier level is never asked, however far it is above its minimum; that a page is found
all the same, as a comment has it, is false (`page_starved`).

## 4. Runs

| Run | Question | Bounds, and why they are enough |
|---|---|---|
| `structures` | pool: every order of takes and releases; page cache: all operations; heap and map: all calls | pool: 3 objects: empty, one, several and all free. Page cache: 2 levels of minimum 1, 3 leaves wanted in each, 2 nodes, 3 pages: each way to find a page, and none. Heap: all arrays of up to 5 of 4 keys, three levels, equal keys. Map: up to 19 keys in nodes of 4 (the code has about 10). 4 is the least at which shares of one and of two values and an uneven split differ; 19 keys make a third level come and go. Reached: splits at the front, the middle and the end of a leaf and of an inner node, both rebalancings, merges at both levels, a new root and a shrunk one |
| `worker_readers` | conservation, counts, pins | 3 callers (GET and scan; GET; PUT and DELETE), 1 key, 2 entries, 3 buffers, 2 I/O slots: batches of up to two, two GETs on a chunk, an entry replaced while another is referred to |
| `worker_pair` | refinement, dangling entries, progress | 2 callers, 2 keys, 2 entries, 2 buffers: keys are independent but for the queues they share |
| `worker_sticky` (violation) | is an entry being deleted looked up again? | 3 callers, 1 key |
| `worker_starve` (violation) | is a GET answered among two writers? | 3 callers, 1 key |
| `heap_made` (violation) | does `_make_heap` make a heap? | all arrays of up to 5 of 3 keys |
| `iter` | scans, seek or first, and the release | 2 workers, 3 keys stored or not and sharded in every way, batches of 2: full, short and empty batches, reloads; two scans, so that one may begin among the answers of another; scans may fail |
| `iter_load` (violation) | are all batches loaded when seek merges? | one seek, batches of 3 |
| `lifecycle` | all programs on one device | 2 slabs per shard, a buffer of 4 slabs, 3 bits in the place of 32. Shards 0, 1, 2, 3, 4 and 8: 0 and 3 are refused, 8 overflows itself, 4 overflows as a number of slabs. Nodes 0, 1, 4 and 8, chunks 0, 2 and 3: 0 is refused, 8 overflows itself, 4 times 2 comes to 0, 4 times 3 is cut off to 4, the other products are right. 1, 2 or 4 workers: fewer than, as many as and more than the shards, of which there are at most 2: that each worker reclaims a block of them, and not every other one, is left to `LifeOwnerReclaims`. `Scale` 4, so that a jump can stay in range and leave it |
| `format_size` (violation) | do the slabs get the clusters asked for? | the same |
| `format_success` (violation) | does success mean success? | the same |
| `page_starved` (violation) | is there a page for every leaf? | the page cache of `structures`, with one node |

Symmetry is used for buffers, leaves and nodes, which are only compared, and in
no run with a liveness property. `CHECK_DEADLOCK FALSE` stands where the system
may really stop: the worker after undefined behaviour, the iterator after its
commands or a crash, the page cache after a failed assertion.

**Fairness.** A worker's poller is called for ever by its reactor and completed
I/O is reaped: weak fairness of the poll and of the processing, strong fairness of
the completions, which can run only between polls. A thread that took a buffer
submits it; nothing forces a call to be made. In the iterator the user thread goes
on and workers answer. In the life cycle SPDK completes what it is asked and the
workers recover; nothing forces a program to be started or to exit.

## 5. What the violations show

1. `worker_sticky`: `no_lookup` is set when a GET finds its entry being written
   and is never reset, so a GET that waited for a PUT and then meets a DELETE is
   retried with the old entry pointer, against the comment of `kv_get.c:65`.
2. `worker_starve`: retries are inserted one by one at the head of the submit
   queue (`worker.c:79`), which reverses them at each poll; two writers of one
   key can overtake a GET at every poll.
3. `iter_load`: the inverted waiting loop of `kvs.c:289` lets seek merge before
   all workers have answered; batches that come later are not merged.
4. `heap_made`: `_heap_adjust` exchanges two arguments of its recursive call
   (`kvs.c:208`), so a swap is not carried on and the result is no heap.
5. `format_success`: an error before a blob is open is forgotten by `_unload_bs`
   (`kvs_format.c:115`), and the formatter reports success.
6. `format_size`: the clusters of a slab are a product of two `uint32_t`
   (`kvs_format.c:208`), which may come to 0 or less than the product; the blobstore
   resizes to it, and the format succeeds with slabs that do not have the size the
   comment of `kvs_format.c:545` asks for.
7. `page_starved`: minima are kept but not reserved, and only deeper levels are asked
   to give; a level that holds no page when the others hold them all follows a NULL
   `oldest_page` (`pagecache.c:48`), although the comment of line 26 has a page for
   every leaf, a free one or the oldest.

Further observations, met while modelling and not run:

* `pool.c:65`: the last node of the free list carries the same mark as an object
  in use, so that object can be released twice.
* `kvs.c:72` speaks of a little-top heap; the comparison makes a big-top one, so
  merged keys do not come in ascending order.
* `kvs.c:332`: when all workers have answered before the loop is entered, `first`
  never leaves it; in the model this is `LeavesWaitLoop` staying false.
* `kvs.c:422` and `kvs.c:448` test pointers after following them.
* `pagecache.c:23`: 1 is returned for a page whose read may still be under way,
  without a look at `contains_data`.
* `kvs_startup.c:127` and `kvs_startup.c:68`: a division by a field that is not set, and
  a read through a freed context (section 3).
* `pagecache.c:91`: `assert(0)` when an internal node gets no page, which happens once
  nodes and minima take up all pages.
* `pagecache.c:152`: a dirty page is evicted without being written.
* `bpt.c:86` onwards: `bpt_search` returns NULL on every path, and compares keys
  for equality on its way down.
* `index.c:8`: the index is allocated as a `bpt` and used as an `art_tree`.

## 6. Proofs

TLAPS checks these for every value of the constants, from the named assumptions
of the modules (finite, non-empty sets and positive limits).

**`PoolSafety`, `PoolRefinement`**, and the parts of the first that stand alone,
**`PoolTypes`, `PoolHeldReleasable`, `PoolCountsFree`** (`Pool_proofs`). The
inductive invariant is the conjunction of the type invariant and the three safety
invariants, which need each other: a released object was unlinked because the list
holds only free objects, and the counter stays in its range because it counts
them. The free list is a sequence `f` of the free objects that exists in every
state; each step gives its new sequence. Refinement then maps every step to one of
`PoolSpec`. `CountsFree` follows from `FreeListOK` in any one state, so no run
checks it; the worker uses a pool by this counter only, so it has a theorem.

`StructureLemmas` says what head and tail, append, concatenation, split and removal do
to the elements of a sequence and to their being different, and that a sequence
without repetition is as long as the set of its elements is large. Of search trees it
says what a move of values, an insertion and a removal leave of their bounds and keys.

For `Worker` the results are proved one upon the other, all in `Worker_proofs`.

1. **`WorkerBuffersConserved`**. `BuffersConserved` speaks of
   concatenated rings and is awkward to preserve; the invariant `BufInv` keeps the
   four places of a buffer apart (each ring without repetition, pairwise disjoint,
   their union all buffers) and adds what the poll relies on: `req_array` is empty
   outside the steps that use it, and the used ring is at least as long as
   `process_size` at the dequeue. Five actions move buffers; all others leave rings and poll alone
   (`Frame`, `FrameProcess`).
2. **`WorkerCountsStillHold`**: a positive `process_size` is at most each of the
   three counts, so the difference of unsigned numbers was not cut off; user
   threads only lengthen the ring, and completions wait for the end of the poll.
3. **`WorkerCallsConserved`, `WorkerPoolConserved`**. The state says of a call only where it is: in a published buffer, or in an internal
   request that is queued or waits. `CallInv` says that different published buffers
   name different callers, none of which has an internal request (`BufsName`), that
   the two queues hold each queued request once (`QueuesApart`), and that a call
   has a place (`CallsCarried`). Buffers are only unlike each other because of
   `BufInv`; `PoolConserved` is the count of the requests in use, which goes down
   by the length of the batch at `PollWrap` and up by one at each answer.
4. **`WorkerPinsCountGets`, `WorkerLoadHasMemory`, `WorkerTypes`**. An eviction looks only at the pins, so a load keeps its
   memory exactly if the pins count the GETs that wait; and a GET pins what the
   entry it remembers says, so `PinInv` carries both with the types they need.
   What is left of the type invariant is typed action by action (`RestTyped`).
5. **`WorkerScansInOrder`**, an action property. The callers that wait stand in one
   line: the submit queue, the batch, the used ring. Every action leaves the order of
   two scans in it alone, takes one out, or puts one at its end. A poll moves the
   retries to the front of the submit queue, but a scan is never retried, and turns
   the batch twice.
6. **`WorkerNoDanglingEntry`, `WorkerRefinesKvSpec`**. Both have a condition on the
   callers, `SafeCallers`: *if* anyone deletes, at most one caller reads and at most
   one modifies; without deletes there may be any number of each. It is as
   weak as these sets of operations allow: with two readers, or with a writer and a
   deleter, TLC finds a GET that refers to a freed entry. `PairInv` says that an
   entry that a request keeps is the one the index has for its key (`RefersOK`), and that
   each flag has its owner (`FlagsOwned`). What keeps the entry from being freed
   is the flag for a GET that waits, and the order of the queue for one that will be
   retried without a lookup: the writer it waited for is still at work, or the
   next request of that writer's caller is behind it (`StickyFirst`), since retries
   are moved before new requests are wrapped (`RetryFirst`). With the entries alive,
   each step maps to a step of `KvSpec`: a PUT takes effect when it is done and a
   call is answered by what the index says.

**`CachePagesAccounted`, `CacheIndexMatchesLru`, `CacheDataIsOfItsOwner`,
`CacheMinimumKept`, `CacheTypesKept`** (`PageCache_proofs`) hold for any number of
levels, pages, hashes and internal nodes. `PagesAccounted` counts and is awkward to
preserve; `CacheInv` says instead that lists, free list and nodes hold no page twice
(`Apart`) and hold the pages handed out so far and no others (`Covered`). Both
carry a set of *loose* pages, those taken from one place and not yet put into
another: each source of a page (`FreshLoosens`, `LoseLoosens`) makes one loose, each
use (`EnterFixes`, `InsertFixes`) takes it in again, and an action is one of the
first followed by one of the second; a level that reuses its own oldest page does
both. The map is read from the page to its hash, so that the agreement of
map and list (`IndexOK`) is kept by a removal. The count of `PagesAccounted` then
follows in any one state, from a bijection between the places and the pages.
`MinimumKept` rests on the donor being a level above its minimum, and on the set of
donors having a greatest element, which is drawn from the well-foundedness of `<`.
**`CacheOnlyStarvedFails`** says what a failing request implies: for an internal node, that
the nodes and the minima of all levels account for every page; for a leaf, that its level is
empty and the nodes, all pages of the earlier levels and the minima of the later ones do. In the
state in which it stops (`StoppedInv`) no level that may give has more than its
minimum, so the places its pages have are among the reserved ones (`WithinReserved`),
and the bound is one of cardinalities, without a sum over the levels.

**`HeapItemsKept`** (`MCContainers_proofs`, upon `ItemHeap_proofs`). The recursive call of
`_heap_adjust` has its arguments exchanged and so returns at once (`AdjustIsSifted`): the
recursive function is unique, because a call goes at most one level down. `_make_heap` is a
loop from the last index to the first (`MakeHeapIsLoop`). Both only move items
(`Rearranged`).

**`IteratorTypeCorrect`, `IteratorBatchesOwned`, `IteratorItemsAlive`,
`IteratorSeenOnce`, `IteratorNothingSkipped`** (`Iterator_proofs`) hold for any number of
workers and keys, any batch size and any store. `IterInv` has a part that always
holds: where the user thread is and that a batch that was answered is a run of the keys of its worker
(`PhaseOK`). Without an abandoned scan: what the workers still have to answer
(`QueueOK`), that `next` awaits a batch that begins behind the top of the heap
(`WaitOK`), and that each item of the heap is the one its worker's index points to
(`EntriesOK`). If moreover the sought key is kept: what was returned
(`SeenOK`), and that the heap stands between what was returned and what is to come
(`OrderOK`): an item is not below what its worker has returned, and what lies
below it has been returned. Of the heap only this is used: its items are kept and its top
is one of them. So the theorems hold although no proper heap is made; nothing is said of the order across workers.

**`HashInRange`** (`Lifecycle_proofs`): the jump hash is a recursive function of the
bucket, whose value is the last bucket before the jumps leave the range. That a
function solves its equations is built from the last bucket down, since every jump
goes forward (`JumpIsForward`); that its value is in range follows from the greatest
bucket for which it would not be, drawn from the well-foundedness of `<`.

**`LifeAcceptedIsComplete`, `LifeAddressesOpen`, `LifeOwnerReclaims`,
`LifeSuccessIsComplete`, `LifeTypesKept`** (`Lifecycle_proofs`) hold for any number of
shards, slabs per shard and workers, any widths and options. The invariant `LifeInv` has a part for the device, one
for each program, and one for what each program may await (`ProgramInv`). Its heart
is why a failed format is not taken for a store: the root blob lasts only when the
blobstore is unloaded, the unload fails while a blob is open, and a formatter that
has written its page has a blob open until the last slab is closed, when all of them
have their size on the device (`MakingInv`, `SlabsInv`): the clusters are carried from the resize
of each slab (`Resized`) to its close (`Sized`), and a program that only loads the
blobstore leaves the sizes as they are (`Mirrored`). A device with a root blob beside a page is
therefore complete (`Sound`), at every end of every program (`CrashIsSound`), and dump
and start follow nothing else (`LoadedInv`). The count of the slabs is a product cut
off at `Width` bits; it is exact wherever it fits the buffer, because the number of
shards is a power of two and so divides `2 ^ Width` (`NoOverflow`). That a power of two
does, and that `2 ^ Width` is a number no smaller than the slabs in the buffer, is assumed
(`ArgsAssumption`, `SizesAssumption`): tlapm knows nothing of `^`; TLC evaluates both.
`OwnerReclaims` then is arithmetic: with `n = m * k` shards, shard `s` lies in part
`w` exactly if `w = s \div k` (`OwnPart`). `SuccessIsComplete` is the other direction and
has a second invariant on top, `SuccessInv`: what a formatter that met no error has done by
the time it awaits each operation. It needs that `NONE` is neither a blob nor a layout
(`NoneAssumption`).

Induction over numbers is done without the library's induction theorems, which take
an operator: the least (or greatest) number for which a claim fails is drawn from the
well-foundedness of `<` on a set (`LeastOf`, `DownTo`).

**The map.** `StructureLemmas` says what a search tree is (`SearchTree`): the nodes
name each other as parent and child, and each node has bounds, between which its
values ascend and its children share the rest. The trees are of any size and height, and
a node of any capacity. No key is stored twice in one (**`SearchTreeKeysOnce`**).

* **`MergeKeepsTree`, `RightToLeftKeepsTree`, `LeftToRightKeepsTree`, `SplitKeepsTree`**
  (`MCContainers_proofs`): the operations that move values between siblings leave a
  search tree with the same keys. Each is shown to be one of three moves: two
  siblings and the value between them joined, shared out anew, or cut in two.
  A joined tree is sound with the bounds of the two nodes united (`JoinSound`), a
  split is the way back (`SplitSound`), and a rebalancing is both, because the tree joined before it and
  the one joined after it are the same (`Shared`).
* **`TryMergeKeepsTree`, `RebalanceOrSplitMakesRoom`**: what the code builds from
  the four, by counting. A node that is too empty merges or takes values, and a full one gives
  values away or is split, always within the room of the nodes they move to, with no assert
  failed; afterwards the leaf to insert into has room, and the place handed back is
  where the key belongs. The second asks that the parent of a node to be split
  has room, which is what the code makes sure of by going up first.
* **`FindUniqueFinds`, `FindClosestFinds`, `LocateFindsPlace`**: a look-up finds the place of a
  key exactly if the tree holds it; `find_closest` returns the place of the least key not
  smaller, or the end; and the search of `insert_unique` ends at the leaf and
  the position where an absent key belongs. The way down follows the bounds of the nodes;
  the way up stops at the first place that is behind the whole of the leaf
  (`BehindIs`). Both are recursive functions; that they have values is shown by
  induction over the depth (`DescentSolved`).
* **`InsertValueAddsKey`, `RemoveValueTakesKey`**: at such a place in a leaf, an insertion
  adds that one key and a removal takes that one key, and the search tree stays.
* **`InsertUniquePresent`, `InsertUniqueAddsKey`**: `btree_insert` of a key that is there
  changes nothing; of one that is not there, when its leaf has room, it
  leaves a search tree with exactly that key more.

These theorems are about the operators, not about `Spec`: each assumes a search tree and
returns one. The assumptions are those the callers in `btree.h` establish (siblings,
a parent with room, a full node), and the trees that `structures` reaches meet them.

Only model-checked: every liveness property (`EveryGetAnswered`, `BuffersComeBack`,
`NextReturns`, `ProgramEnds`), since liveness and ENABLED are beyond the prover; and the
four properties of the map as invariants of all calls, `AssertionsHold`, `KeysInOrder`,
`WellFormed` and `ScansComplete`. For these, four things are missing: the
recursion upwards in `rebalance_or_split` and `try_merge_or_rebalance`, where the tree
changes between the levels; the root (growth of a lone leaf, swap with a new root,
shrinking); the removal of a key of an inner node; and that the renaming after
each call keeps the order. `BTree` is written with recursive functions over the nodes,
so that nothing but the length of the argument stands in the way.

## 7. Not modelled

* PUT, DELETE, scans, recovery, chunk and I/O manager: their code is absent; what
  is used of them is external and as weak as the calls allow.
* The B+ tree search and the art tree: the first is a stub, the second absent.
* Of the vendored cpp-btree what the store never instantiates: sets, multimaps,
  hinted and ranged insertion, copies, statistics, and the binary search that
  replaces the linear one for other types of keys.
* The CRC table and the generator of the jump hash (any stream of numbers), `rand`
  shuffling, the slab table, statistics, the options that only pass through, and
  the benchmarks: pure functions, constants or load generators.
* `kvs_shutdown`, which is not in the repository.

## 8. Plan

1. `BTree`: prove what is left of the map (the recursion upwards, the root, the removal
   of an inner key, `Increment` and `Decrement`), then the four invariants of `MCContainers`.
2. `PageCache`: state the search of the B+ tree over the cache once it is finished in
   the code.
3. A composition of `Iterator` with the workers' rings, so that scans compete with
   other requests for buffers.
