------------------------------- MODULE Worker -------------------------------
(***************************************************************************)
(* One worker of the store: the requests that user threads put in its      *)
(* ring, the poll function that takes them out and processes them          *)
(* (src/worker.c), and the asynchronous GET (src/kv_get.c).                *)
(*                                                                         *)
(* User threads and the worker's thread interleave on the two rings.  The  *)
(* poll function and the completions of I/O all run on the worker's        *)
(* thread: completions run only between two polls.                         *)
(*                                                                         *)
(* PUT, DELETE and the scans are not in the repository (worker_process_put *)
(* and the others are only called): they are modelled as the compatibility *)
(* table of include/index.h says they behave, and marked external, as are  *)
(* the page chunk cache and the I/O manager.  A call is identified with    *)
(* the caller (ctx) that waits for it, and an internal request with the    *)
(* call it carries; kv_request_internal_pool is its nb_frees (module Pool  *)
(* shows that nb_frees counts the free objects).                           *)
(***************************************************************************)
EXTENDS Integers, Sequences, FiniteSets, SequencesExt

CONSTANTS
  Ctxs,       \* callers, each with at most one call outstanding
  CtxOps,     \* the operations each caller uses, of Ops
  Keys,
  Entries,    \* addresses of index entries
  Bufs,       \* the kv_request buffers of the worker: request_queue
  MaxIO,      \* imgr->max_pending_io
  NULL

Ops == {"GET", "PUT", "DELETE", "SCAN"}   \* SCAN stands for FIRST, SEEK and NEXT

\* max_pending_kv_request: the number of buffers, of internal requests, and the
\* capacity of both rings.
NReqs == Cardinality(Bufs)

ASSUME WorkerAssumption ==
  /\ CtxOps \in [Ctxs -> SUBSET Ops]
  /\ IsFiniteSet(Ctxs)
  /\ IsFiniteSet(Bufs) /\ Bufs # {}
  /\ MaxIO \in Nat \ {0}
  /\ NULL \notin Ctxs \cup Entries \cup Bufs \cup [op : Ops, key : Keys]
  /\ IsFiniteSet(Keys) /\ IsFiniteSet(Entries)
  /\ Cardinality(Entries) >= Cardinality(Keys)

VARIABLES
  call, res, held,             \* callers: outstanding call, last answer, buffer
                               \* between _get_free_req_buffer and _submit_req_buffer
  req_free_ring, req_used_ring, buf,   \* the rings, and the caller each buffer names
  pc, process_size, req_array, \* the poll function and its locals
  submit, resubmit,            \* the queues of internal requests
  nb_frees, ireq,              \* the pool of internal requests, and their fields
  index,                       \* the memory index: the entry of each key
  entry,                       \* struct index_entry
  desc                         \* the page chunk of an entry: its memory, its pins

callers == <<call, res, held>>
rings   == <<req_free_ring, req_used_ring, buf>>
poll    == <<process_size, req_array>>
store   == <<index, entry, desc>>
vars == <<callers, rings, pc, poll, submit, resubmit, nb_frees, ireq, store>>

Calls   == [op : Ops, key : Keys]
Answers == {"success", "eio", "not_exist"}

\* Where an internal request is: in no queue, linked in one, waiting for chunk
\* memory, for the load of its item, or for the I/O of a PUT or DELETE.
Stages == {"free", "queued", "chunk", "load", "modify"}

FreeReq == [stage |-> "free", no_lookup |-> FALSE, entry |-> NULL]

TypeOK ==
  /\ call \in [Ctxs -> Calls \cup {NULL}]
  /\ res \in [Ctxs -> Answers \cup {NULL}]
  /\ held \in [Ctxs -> Bufs \cup {NULL}]
  /\ req_free_ring \in Seq(Bufs) /\ req_used_ring \in Seq(Bufs)
  /\ buf \in [Bufs -> Ctxs \cup {NULL}]
  /\ pc \in {"idle", "dequeue", "wrap", "refill", "process", "undefined"}
  /\ process_size \in Nat /\ req_array \in Seq(Bufs)
  /\ submit \in Seq(Ctxs) /\ resubmit \in Seq(Ctxs)
  /\ nb_frees \in 0 .. NReqs
  /\ ireq \in [Ctxs -> [stage : Stages, no_lookup : BOOLEAN, entry : Entries \cup {NULL}]]
  /\ index \in [Keys -> Entries \cup {NULL}]
  /\ entry \in [Entries -> [live : BOOLEAN, getting : BOOLEAN,
                            writing : BOOLEAN, deleting : BOOLEAN]]
  /\ desc \in [Entries -> [mem : {"none", "page", "item"}, pins : Nat]]

-----------------------------------------------------------------------------
(* Derived state. *)

InFlight == {c \in Ctxs : ireq[c].stage \in {"chunk", "load", "modify"}}

\* imgr->nb_pending_io: waiting for chunk memory is not an I/O.
nb_pending_io == Cardinality({c \in Ctxs : ireq[c].stage \in {"load", "modify"}})

-----------------------------------------------------------------------------
(* _worker_context_init: every buffer is in the free ring, in some order.   *)
Init ==
  /\ call = [c \in Ctxs |-> NULL]
  /\ res = [c \in Ctxs |-> NULL]
  /\ held = [c \in Ctxs |-> NULL]
  /\ req_free_ring \in {s \in [1 .. NReqs -> Bufs] : ToSet(s) = Bufs}
  /\ req_used_ring = << >>
  /\ buf = [b \in Bufs |-> NULL]
  /\ pc = "idle" /\ process_size = 0 /\ req_array = << >>
  /\ submit = << >> /\ resubmit = << >>
  /\ nb_frees = NReqs
  /\ ireq = [c \in Ctxs |-> FreeReq]
  /\ index = [k \in Keys |-> NULL]
  /\ entry = [e \in Entries |-> [live |-> FALSE, getting |-> FALSE,
                                 writing |-> FALSE, deleting |-> FALSE]]
  /\ desc = [e \in Entries |-> [mem |-> "none", pins |-> 0]]

-----------------------------------------------------------------------------
(* User threads: kv_get_async and its like, down to the worker's ring.      *)

\* _get_free_req_buffer: the thread spins while the free ring is empty.
GetFreeReqBuffer(c) ==
  /\ call[c] = NULL /\ held[c] = NULL
  /\ req_free_ring # << >>
  /\ held' = [held EXCEPT ![c] = Head(req_free_ring)]
  /\ req_free_ring' = Tail(req_free_ring)
  /\ UNCHANGED <<call, res, req_used_ring, buf, pc, poll, submit, resubmit,
                 nb_frees, ireq, store>>

\* _worker_enqueue_common fills the buffer, _submit_req_buffer publishes it.
Enqueue(c) ==
  /\ held[c] # NULL
  /\ \E op \in CtxOps[c], k \in Keys : call' = [call EXCEPT ![c] = [op |-> op, key |-> k]]
  /\ res' = [res EXCEPT ![c] = NULL]
  /\ buf' = [buf EXCEPT ![held[c]] = c]
  /\ req_used_ring' = Append(req_used_ring, held[c])
  /\ held' = [held EXCEPT ![c] = NULL]
  /\ UNCHANGED <<req_free_ring, pc, poll, submit, resubmit, nb_frees, ireq, store>>

-----------------------------------------------------------------------------
(* _worker_business_processor_poll, cut where a user thread can interleave. *)

Least(x, y) == IF x < y THEN x ELSE y

\* Bug: the I/Os under way are not subtracted.
a_ios_all == MaxIO

\* Free I/O slots: nb_pending_io may exceed the limit, the difference is unsigned.
a_ios == IF MaxIO < nb_pending_io THEN 0 ELSE MaxIO - nb_pending_io

\* Bug: the queue is walked without the _SAFE macro; only its first request is
\* moved, the others are unlinked.
PollStartUnsafe ==
  /\ pc = "idle"
  /\ process_size' = Least(Least(Len(req_used_ring), nb_frees), a_ios)
  /\ submit' = (IF resubmit = << >> THEN << >> ELSE <<Head(resubmit)>>) \o submit
  /\ resubmit' = << >>
  /\ pc' = IF process_size' > 0 THEN "dequeue" ELSE "process"
  /\ UNCHANGED <<callers, rings, req_array, nb_frees, ireq, store>>

\* Bug: requests are retried only by a poll that finds no new one.
PollStartNewFirst ==
  /\ pc = "idle"
  /\ process_size' = Least(Least(Len(req_used_ring), nb_frees), a_ios)
  /\ IF process_size' > 0
     THEN UNCHANGED <<submit, resubmit>> /\ pc' = "dequeue"
     ELSE /\ submit' = Reverse(resubmit) \o submit
          /\ resubmit' = << >> /\ pc' = "process"
  /\ UNCHANGED <<callers, rings, req_array, nb_frees, ireq, store>>

\* The counts are read, and the requests to retry are moved one by one to the
\* head of the submit queue, which turns their order around.
PollStart ==
  /\ pc = "idle"
  /\ process_size' = Least(Least(Len(req_used_ring), nb_frees), a_ios)
  /\ submit' = Reverse(resubmit) \o submit
  /\ resubmit' = << >>
  /\ pc' = IF process_size' > 0 THEN "dequeue" ELSE "process"
  /\ UNCHANGED <<callers, rings, req_array, nb_frees, ireq, store>>

PollDequeue ==
  /\ pc = "dequeue"
  /\ req_array' = SubSeq(req_used_ring, 1, process_size)
  /\ req_used_ring' = SubSeq(req_used_ring, process_size + 1, Len(req_used_ring))
  /\ pc' = "wrap"
  /\ UNCHANGED <<callers, req_free_ring, buf, process_size, submit, resubmit,
                 nb_frees, ireq, store>>

\* Bug: the new requests are put before each other.
PollWrapReversed ==
  /\ pc = "wrap"
  /\ LET new == [i \in 1 .. Len(req_array) |-> buf[req_array[i]]]
     IN  /\ submit' = Reverse(new) \o submit
         /\ ireq' = [c \in Ctxs |-> IF c \in ToSet(new)
                                    THEN [FreeReq EXCEPT !.stage = "queued"]
                                    ELSE ireq[c]]
  /\ nb_frees' = nb_frees - Len(req_array)
  /\ pc' = "refill"
  /\ UNCHANGED <<callers, rings, poll, resubmit, store>>

\* Each request is copied into an internal request taken from the pool.
PollWrap ==
  /\ pc = "wrap"
  /\ LET new == [i \in 1 .. Len(req_array) |-> buf[req_array[i]]]
     IN  /\ submit' = submit \o new
         /\ ireq' = [c \in Ctxs |-> IF c \in ToSet(new)
                                    THEN [FreeReq EXCEPT !.stage = "queued"]
                                    ELSE ireq[c]]
  /\ nb_frees' = nb_frees - Len(req_array)
  /\ pc' = "refill"
  /\ UNCHANGED <<callers, rings, poll, resubmit, store>>

\* Bug: one buffer of the batch is given back.
PollRefillOne ==
  /\ pc = "refill"
  /\ req_free_ring' = Append(req_free_ring, Head(req_array))
  /\ req_array' = << >>
  /\ process_size' = 0
  /\ pc' = "process"
  /\ UNCHANGED <<callers, req_used_ring, buf, submit, resubmit, nb_frees, ireq, store>>

\* The buffers go back to the user threads.
PollRefill ==
  /\ pc = "refill"
  /\ req_free_ring' = req_free_ring \o req_array
  /\ req_array' = << >>
  /\ process_size' = 0
  /\ pc' = "process"
  /\ UNCHANGED <<callers, req_used_ring, buf, submit, resubmit, nb_frees, ireq, store>>

PollEnd ==
  /\ pc = "process" /\ submit = << >>
  /\ pc' = "idle"
  /\ UNCHANGED <<callers, rings, poll, submit, resubmit, nb_frees, ireq, store>>

-----------------------------------------------------------------------------
(* _process_one_kv_request: the first request of the submit queue.          *)

Processing(c, op) ==
  /\ pc = "process"
  /\ submit # << >> /\ c = Head(submit) /\ call[c].op = op
  /\ submit' = Tail(submit)
  /\ UNCHANGED <<held, rings, pc, poll>>

\* The callback of the request: the caller has its answer.
CallBack(c, r) ==
  /\ ireq' = [ireq EXCEPT ![c] = FreeReq]
  /\ call' = [call EXCEPT ![c] = NULL]
  /\ res' = [res EXCEPT ![c] = r]

\* pool_release followed by the callback.
Finish(c, r) == nb_frees' = nb_frees + 1 /\ CallBack(c, r)

\* TAILQ_INSERT_TAIL into the resubmit queue.
Resubmit(c) ==
  /\ resubmit' = Append(resubmit, c)
  /\ UNCHANGED <<call, res, nb_frees, store>>

Proceed(c, e, stage) ==
  /\ ireq' = [ireq EXCEPT ![c].stage = stage, ![c].entry = e]
  /\ UNCHANGED <<call, res, resubmit, nb_frees>>

-----------------------------------------------------------------------------
(* worker_process_get                                                       *)

\* pctx.entry: looked up, unless an earlier attempt saw the entry being written.
EntryOf(c) ==
  IF ireq[c].no_lookup THEN ireq[c].entry ELSE index[call[c].key]

\* A GET that found its entry, and may read it.
Getting(c, e) == Processing(c, "GET") /\ e = EntryOf(c) /\ e # NULL /\ entry[e].live

\* Bugs: the request is released twice; it is not released at all.
GetNotExistTwice(c) ==
  /\ Processing(c, "GET") /\ EntryOf(c) = NULL
  /\ CallBack(c, "not_exist")
  /\ nb_frees' = nb_frees + 2
  /\ UNCHANGED <<resubmit, store>>

GetNotExistLeaks(c) ==
  /\ Processing(c, "GET") /\ EntryOf(c) = NULL
  /\ CallBack(c, "not_exist")
  /\ UNCHANGED <<nb_frees, resubmit, store>>

GetNotExist(c) ==
  /\ Processing(c, "GET") /\ EntryOf(c) = NULL
  /\ Finish(c, "not_exist")
  /\ UNCHANGED <<resubmit, store>>

\* Bug: no_lookup is set whatever the request waits for.
GetResubmitNoLookup(c, e) ==
  /\ Getting(c, e) /\ (entry[e].writing \/ entry[e].deleting)
  /\ ireq' = [ireq EXCEPT ![c].entry = e, ![c].no_lookup = TRUE]
  /\ Resubmit(c)

\* no_lookup is set for an entry being written and never reset.
GetResubmit(c, e) ==
  /\ Getting(c, e) /\ (entry[e].writing \/ entry[e].deleting)
  /\ ireq' = [ireq EXCEPT ![c].entry = e,
                          ![c].no_lookup = @ \/ entry[e].writing]
  /\ Resubmit(c)

\* Bug: the item is loaded without asking whether the chunk has memory.
GetStartBlindly(c, e) ==
  /\ Getting(c, e) /\ ~entry[e].writing /\ ~entry[e].deleting
  /\ desc[e].mem # "item"
  /\ entry' = [entry EXCEPT ![e].getting = TRUE]
  /\ desc' = [desc EXCEPT ![e].pins = @ + 1]
  /\ Proceed(c, e, "load")
  /\ UNCHANGED index

\* The item must be brought to memory first: the chunk is pinned, and the GET
\* waits for chunk memory, or for the load of the item into it.
GetStart(c, e) ==
  /\ Getting(c, e) /\ ~entry[e].writing /\ ~entry[e].deleting
  /\ desc[e].mem # "item"
  /\ entry' = [entry EXCEPT ![e].getting = TRUE]
  /\ desc' = [desc EXCEPT ![e].pins = @ + 1]
  /\ Proceed(c, e, IF desc[e].mem = "none" THEN "chunk" ELSE "load")
  /\ UNCHANGED index

\* Bug: the callback is called, the request stays out of the pool.
GetCachedLeaks(c, e) ==
  /\ Getting(c, e) /\ ~entry[e].writing /\ ~entry[e].deleting
  /\ desc[e].mem = "item"
  /\ entry' = [entry EXCEPT ![e].getting = FALSE]
  /\ CallBack(c, "success")
  /\ UNCHANGED <<nb_frees, resubmit, index, desc>>

\* The item is cached: _process_get_load_data_cb is called at once, and takes
\* back the flag and the pin.
GetCached(c, e) ==
  /\ Getting(c, e) /\ ~entry[e].writing /\ ~entry[e].deleting
  /\ desc[e].mem = "item"
  /\ entry' = [entry EXCEPT ![e].getting = FALSE]
  /\ Finish(c, "success")
  /\ UNCHANGED <<resubmit, index, desc>>

-----------------------------------------------------------------------------
(* Completions, on the worker's thread between two polls.                   *)

Completing(c, stage) ==
  /\ pc = "idle" /\ ireq[c].stage = stage
  /\ UNCHANGED <<held, rings, pc, poll, submit, resubmit>>

\* _process_get_pagechunk_cb: the chunk has memory, load the item.
ChunkReady(c) ==
  LET e == ireq[c].entry
  IN  /\ Completing(c, "chunk") /\ entry[e].live
      /\ desc' = [desc EXCEPT ![e].mem = IF @ = "none" THEN "page" ELSE @]
      /\ ireq' = [ireq EXCEPT ![c].stage = "load"]
      /\ UNCHANGED <<call, res, nb_frees, index, entry>>

\* Bugs: the failing load keeps its pin; it is reported as a missing item.
LoadDoneKeepsPin(c) ==
  LET e == ireq[c].entry
  IN  /\ Completing(c, "load") /\ entry[e].live
      /\ \/ /\ Finish(c, "success")
            /\ desc' = [desc EXCEPT ![e].pins = @ - 1, ![e].mem = "item"]
         \/ Finish(c, "eio") /\ UNCHANGED desc
      /\ entry' = [entry EXCEPT ![e].getting = FALSE]
      /\ UNCHANGED index

LoadDoneAsMissing(c) ==
  LET e == ireq[c].entry
  IN  /\ Completing(c, "load") /\ entry[e].live
      /\ Finish(c, "not_exist")
      /\ desc' = [desc EXCEPT ![e].pins = @ - 1]
      /\ entry' = [entry EXCEPT ![e].getting = FALSE]
      /\ UNCHANGED index

\* _process_get_load_data_cb: the load failed, or the item is in the chunk.
LoadDone(c) ==
  LET e == ireq[c].entry
  IN  /\ Completing(c, "load") /\ entry[e].live
      /\ \/ /\ Finish(c, "success")
            /\ desc' = [desc EXCEPT ![e].pins = @ - 1, ![e].mem = "item"]
         \/ /\ Finish(c, "eio")
            /\ desc' = [desc EXCEPT ![e].pins = @ - 1]
      /\ entry' = [entry EXCEPT ![e].getting = FALSE]
      /\ UNCHANGED index

\* A GET uses an entry that was freed: what follows is undefined behaviour, and
\* the model stops there.
UseFreedEntry(c) ==
  /\ \/ /\ pc = "process" /\ submit # << >> /\ c = Head(submit)
        /\ call[c].op = "GET" /\ EntryOf(c) # NULL /\ ~entry[EntryOf(c)].live
     \/ /\ pc = "idle" /\ ireq[c].stage \in {"chunk", "load"}
        /\ ~entry[ireq[c].entry].live
  /\ pc' = "undefined"
  /\ UNCHANGED <<callers, rings, poll, submit, resubmit, nb_frees, ireq, store>>

-----------------------------------------------------------------------------
(***************************************************************************)
(* External: the operations whose code the repository lacks.  A PUT or     *)
(* DELETE always looks its entry up, sets the entry's flag, does its I/O   *)
(* and clears the flag (index.h).  It is resubmitted while another one     *)
(* modifies the entry ('N' in the table of index.h).  During a GET a PUT   *)
(* may start or be resubmitted ('A'), a DELETE starts ('Y') but frees the  *)
(* entry only when no GET is flagged.                                      *)
(***************************************************************************)
Modifying(c, op, e) ==
  Processing(c, op) /\ e = index[call[c].key] /\ e # NULL

Busy(e) == entry[e].writing \/ entry[e].deleting

PutNew(c, e) ==
  /\ Processing(c, "PUT") /\ index[call[c].key] = NULL /\ ~entry[e].live
  /\ index' = [index EXCEPT ![call[c].key] = e]
  /\ entry' = [entry EXCEPT ![e] = [live |-> TRUE, getting |-> FALSE,
                                    writing |-> TRUE, deleting |-> FALSE]]
  /\ desc' = [desc EXCEPT ![e].mem = "item"]
  /\ Proceed(c, e, "modify")

PutStart(c, e) ==
  /\ Modifying(c, "PUT", e) /\ ~Busy(e)
  /\ entry' = [entry EXCEPT ![e].writing = TRUE]
  /\ Proceed(c, e, "modify")
  /\ UNCHANGED <<index, desc>>

DeleteStart(c, e) ==
  /\ Modifying(c, "DELETE", e) /\ ~Busy(e)
  /\ entry' = [entry EXCEPT ![e].deleting = TRUE]
  /\ Proceed(c, e, "modify")
  /\ UNCHANGED <<index, desc>>

DeleteNotExist(c) ==
  /\ Processing(c, "DELETE") /\ index[call[c].key] = NULL
  /\ Finish(c, "not_exist")
  /\ UNCHANGED <<resubmit, store>>

ModifyResubmit(c, e) ==
  /\ \/ Modifying(c, "PUT", e) /\ (Busy(e) \/ entry[e].getting)
     \/ Modifying(c, "DELETE", e) /\ Busy(e)
  /\ Resubmit(c)
  /\ UNCHANGED ireq

PutDone(c) ==
  /\ Completing(c, "modify") /\ call[c].op = "PUT"
  /\ entry' = [entry EXCEPT ![ireq[c].entry].writing = FALSE]
  /\ Finish(c, "success")
  /\ UNCHANGED <<index, desc>>

DeleteDone(c) ==
  LET e == ireq[c].entry
  IN  /\ Completing(c, "modify") /\ call[c].op = "DELETE" /\ ~entry[e].getting
      /\ index' = [index EXCEPT ![call[c].key] = NULL]
      /\ entry' = [entry EXCEPT ![e].live = FALSE, ![e].deleting = FALSE]
      /\ Finish(c, "success")
      /\ UNCHANGED desc

\* worker_process_first, _seek and _next answer at once ("The scan is a
\* sychronized operation").
Scan(c) ==
  /\ Processing(c, "SCAN")
  /\ Finish(c, "success")
  /\ UNCHANGED <<resubmit, store>>

\* The chunk manager takes the memory of a chunk nobody has pinned.
Evict(e) ==
  /\ pc = "idle" /\ desc[e].pins = 0 /\ desc[e].mem # "none"
  /\ desc' = [desc EXCEPT ![e].mem = "none"]
  /\ UNCHANGED <<callers, rings, pc, poll, submit, resubmit, nb_frees, ireq,
                 index, entry>>

-----------------------------------------------------------------------------
Poll == PollStart \/ PollDequeue \/ PollWrap \/ PollRefill \/ PollEnd

Process(c) ==
  \/ GetNotExist(c) \/ DeleteNotExist(c) \/ Scan(c)
  \/ \E e \in Entries :
       \/ GetResubmit(c, e) \/ GetStart(c, e) \/ GetCached(c, e)
       \/ PutNew(c, e) \/ PutStart(c, e) \/ DeleteStart(c, e)
       \/ ModifyResubmit(c, e)

Complete(c) == ChunkReady(c) \/ LoadDone(c) \/ PutDone(c) \/ DeleteDone(c)

Next ==
  \/ Poll
  \/ \E c \in Ctxs : \/ GetFreeReqBuffer(c) \/ Enqueue(c)
                     \/ Process(c) \/ Complete(c) \/ UseFreedEntry(c)
  \/ \E e \in Entries : Evict(e)

Spec == Init /\ [][Next]_vars

\* The reactor keeps polling the worker's thread: its poll function goes on, and
\* finished I/O is reaped.  Completions wait for the end of a poll, hence the
\* strong fairness.  A thread that got a buffer submits it; nothing makes a
\* thread start a call.
Fairness ==
  /\ WF_vars(Poll)
  /\ \A c \in Ctxs : WF_vars(Process(c)) /\ SF_vars(Complete(c)) /\ WF_vars(Enqueue(c))

FairSpec == Spec /\ Fairness

-----------------------------------------------------------------------------
(* Safety. *)

\* Every kv_request buffer is at exactly one place: in the free ring, held by a
\* user thread, in the used ring or in the poll's array.  Neither ring can then
\* overflow, which the assertions on spdk_ring_enqueue claim, and no buffer is
\* overwritten while a request in it is yet to be copied.
BuffersConserved ==
  LET inUse == req_free_ring \o req_used_ring \o req_array
      kept == {c \in Ctxs : held[c] # NULL}
  IN  /\ IsInjective(inUse)
      /\ \A c, d \in kept : held[c] = held[d] => c = d
      /\ ToSet(inUse) \cap {held[c] : c \in kept} = {}
      /\ ToSet(inUse) \cup {held[c] : c \in kept} = Bufs

\* The buffers that name an outstanding call not yet copied.
Published == (IF pc = "wrap" THEN req_array ELSE << >>) \o req_used_ring

\* The callers of those calls.
Ringed == [i \in DOMAIN Published |-> buf[Published[i]]]

\* Every outstanding call is carried by exactly one request, in a ring, in a
\* queue or waiting for a completion, and no request is without a call: no
\* call is lost, none is answered twice.
CallsConserved ==
  LET carried == Ringed \o submit \o resubmit
  IN  /\ IsInjective(carried)
      /\ ToSet(carried) \cap InFlight = {}
      /\ ToSet(carried) \cup InFlight = {c \in Ctxs : call[c] # NULL}
      /\ ToSet(submit \o resubmit) = {c \in Ctxs : ireq[c].stage = "queued"}

\* nb_frees accounts for every internal request: the ones not in a queue or
\* waiting for a completion are back in the pool.
PoolConserved ==
  nb_frees = NReqs - Cardinality({c \in Ctxs : ireq[c].stage # "free"})

\* The counts read at the start of a poll still hold when the requests are
\* dequeued and wrapped: the ring holds as many requests, the pool as many
\* objects, and the I/O manager has room for them.
CountsStillHold ==
  pc \in {"dequeue", "wrap"} =>
    /\ pc = "dequeue" => Len(req_used_ring) >= process_size
    /\ pc = "wrap" => Len(req_array) = process_size
    /\ nb_frees >= process_size
    /\ nb_pending_io + process_size <= MaxIO

\* Every GET that waits for its chunk or its item pins the chunk once, and
\* nothing else does: no pin is leaked, none is dropped early.
PinsCountGets ==
  \A e \in Entries :
    desc[e].pins = Cardinality({c \in Ctxs : /\ ireq[c].stage \in {"chunk", "load"}
                                            /\ ireq[c].entry = e})

\* While a load is under way its chunk has memory to load into.
LoadHasMemory ==
  \A c \in Ctxs : ireq[c].stage = "load" => desc[ireq[c].entry].mem # "none"

\* No GET, waiting to be retried or for its data, refers to a freed entry.
NoDanglingEntry ==
  \A c \in Ctxs :
    (ireq[c].no_lookup \/ ireq[c].stage \in {"chunk", "load"})
      => entry[ireq[c].entry].live

\* c comes before d in the queue s.
Precedes(s, c, d) == \E i, j \in DOMAIN s : i < j /\ s[i] = c /\ s[j] = d

\* Two scans wait, and the worker will process that of c first.
ScanBefore(c, d) ==
  /\ \A x \in {c, d} : call[x] # NULL /\ call[x].op = "SCAN"
  /\ Precedes(submit \o Ringed, c, d)

\* Scans are answered in the order in which they were submitted, whatever is
\* retried meanwhile: of two scans that wait the first stays the first until it
\* is answered, and only a new one comes behind another.  An iterator that asks
\* one worker again and again relies on the answers coming in its order (module
\* Iterator).
ScansInOrder ==
  [][\A c, d \in Ctxs :
       /\ ScanBefore(c, d) => \/ ScanBefore(c, d)'
                              \/ call'[c] = NULL /\ call'[d] # NULL
       /\ ScanBefore(c, d)' => ScanBefore(c, d) \/ call[d] = NULL]_vars

-----------------------------------------------------------------------------
(* The worker as its callers see it. *)

Kv == INSTANCE KvSpec WITH
        present  <- {k \in Keys : index[k] # NULL},
        NoCall   <- NULL,
        NoAnswer <- NULL

\* Calls take effect one at a time, each between its submission and its only
\* answer, and the answers are right.
RefinesKvSpec == Kv!Spec

\* Every GET is answered, whatever modifies its key meanwhile.
EveryGetAnswered ==
  \A c \in Ctxs : (call[c] # NULL /\ call[c].op = "GET") ~> (call[c] = NULL)

\* A thread that spins for a buffer does so only for a while: the free ring does
\* not stay empty, since the worker takes requests out of the used ring as long
\* as internal requests and I/O slots come back.
BuffersComeBack == (req_free_ring = << >>) ~> (req_free_ring # << >>)

-----------------------------------------------------------------------------
(* What a comment of kv_get.c says; the code does otherwise.                *)

\* kv_get.c: "For the entry in deleting state, it has to be re-lookuped".
\* The code keeps no_lookup from an earlier wait for a writer.
DeletingIsLookedUpAgain ==
  \A c \in ToSet(resubmit) :
    (call[c].op = "GET" /\ entry[ireq[c].entry].deleting) => ~ireq[c].no_lookup
=============================================================================
