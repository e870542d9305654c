---------------------------- MODULE Worker_proofs ----------------------------
(***************************************************************************)
(* For any number of user threads, buffers, keys and entries: no           *)
(* kv_request buffer is ever lost, doubled, or in two places, so that the  *)
(* rings never overflow, and the counts a poll reads still hold when it    *)
(* uses them; no call is lost or answered twice, and the pool of internal  *)
(* requests accounts for every request; every pin of a chunk belongs to    *)
(* one GET under way, and a load always has memory to load into; and scans *)
(* are answered in their order.  Where at most one caller reads and one    *)
(* modifies, or nothing is deleted, no GET uses a freed entry and the      *)
(* worker implements KvSpec.                                               *)
(***************************************************************************)
EXTENDS Worker, StructureLemmas, FiniteSetTheorems

\* The buffers of a poll are in req_array between the dequeue and the refill, and
\* the ring still holds the process_size buffers that the poll counted.
PollOK ==
  /\ pc = "dequeue" => process_size \in 1 .. Len(req_used_ring)
  /\ pc \notin {"wrap", "refill"} => req_array = << >>

RingsTyped ==
  /\ held \in [Ctxs -> Bufs \cup {NULL}]
  /\ req_free_ring \in Seq(Bufs)
  /\ req_used_ring \in Seq(Bufs)
  /\ req_array \in Seq(Bufs)
  /\ nb_frees \in Int

HeldBufs == {held[c] : c \in {d \in Ctxs : held[d] # NULL}}

\* BuffersConserved with the four places apart: what each action moves is then a
\* matter of two of them.
BuffersApart ==
  /\ IsInjective(req_free_ring) /\ IsInjective(req_used_ring) /\ IsInjective(req_array)
  /\ \A c, d \in Ctxs : held[c] = held[d] /\ held[c] # NULL => c = d
  /\ ToSet(req_free_ring) \cap ToSet(req_used_ring) = {}
  /\ ToSet(req_free_ring) \cap ToSet(req_array) = {}
  /\ ToSet(req_used_ring) \cap ToSet(req_array) = {}
  /\ \A c \in Ctxs : held[c] \notin ToSet(req_free_ring) \cup ToSet(req_used_ring)
                                      \cup ToSet(req_array)
  /\ ToSet(req_free_ring) \cup ToSet(req_used_ring) \cup ToSet(req_array)
       \cup HeldBufs = Bufs

BufInv == RingsTyped /\ PollOK /\ BuffersApart

-----------------------------------------------------------------------------
(* The inductive invariant holds initially, and is what BuffersConserved says. *)

LEMMA BufInvInit == Init => BufInv
<1> SUFFICES ASSUME Init PROVE BufInv
  OBVIOUS
<1> USE WorkerAssumption
<1>1. NReqs \in Nat
  BY FS_CardinalityType DEF NReqs
<1>2. req_free_ring \in [1 .. NReqs -> Bufs] /\ ToSet(req_free_ring) = Bufs
  BY DEF Init
<1>3. req_free_ring \in Seq(Bufs) /\ DOMAIN req_free_ring = 1 .. NReqs
  BY <1>1, <1>2, SeqDef
<1>4. IsInjective(req_free_ring)
  <2>1. IsFiniteSet(1 .. NReqs) /\ Cardinality(1 .. NReqs) = Cardinality(Bufs)
    BY <1>1, FS_Interval DEF NReqs
  <2>2. req_free_ring \in Surjection(1 .. NReqs, Bufs)
    BY <1>2, <1>3 DEF ToSet, Surjection
  <2>3. req_free_ring \in Injection(1 .. NReqs, Bufs)
    BY <2>1, <2>2, FS_SurjSameCardinalityImpliesInj
  <2> QED BY <1>3, <2>3 DEF IsInjective, Injection, IsInjective
<1>5. RingsTyped
  BY <1>1, <1>3 DEF Init, RingsTyped
<1>6. PollOK
  BY DEF Init, PollOK
<1>7. HeldBufs = {} /\ \A c \in Ctxs : held[c] = NULL
  BY DEF Init, HeldBufs
<1>8. BuffersApart
  BY <1>2, <1>4, <1>7, ElemsEmpty DEF Init, BuffersApart
<1> QED BY <1>5, <1>6, <1>8 DEF BufInv

LEMMA BufInvConserves == BufInv => BuffersConserved
<1> SUFFICES ASSUME BufInv PROVE BuffersConserved
  OBVIOUS
<1> USE DEF BufInv, RingsTyped, BuffersApart
<1> DEFINE two == req_free_ring \o req_used_ring
           all == two \o req_array
<1>1. two \in Seq(Bufs) /\ IsInjective(two)
      /\ ToSet(two) = ToSet(req_free_ring) \cup ToSet(req_used_ring)
  BY ElemsConcat, DistinctConcat, ConcatProperties
<1> HIDE DEF two
<1>2. IsInjective(all) /\ ToSet(all) = ToSet(two) \cup ToSet(req_array)
  BY <1>1, ElemsConcat, DistinctConcat
<1>3. all = req_free_ring \o req_used_ring \o req_array
  BY DEF two
<1> QED BY <1>1, <1>2, <1>3 DEF BuffersConserved, HeldBufs

-----------------------------------------------------------------------------
(* The steps. *)

\* A step that moves no buffer.
LEMMA Frame ==
  ASSUME BufInv, nb_frees' \in Int, PollOK',
         UNCHANGED <<held, req_free_ring, req_used_ring, req_array>>
  PROVE  BufInv'
<1>1. RingsTyped'
  BY DEF BufInv, RingsTyped
<1>2. HeldBufs' = HeldBufs
  BY DEF HeldBufs
<1>3. BuffersApart'
  BY <1>2 DEF BufInv, BuffersApart
<1> QED BY <1>1, <1>3 DEF BufInv

\* What _process_one_kv_request and the completions have in common.
LEMMA FrameProcess ==
  ASSUME BufInv, nb_frees' \in Int, UNCHANGED <<held, rings, pc, poll>>
  PROVE  BufInv'
<1>1. UNCHANGED <<held, req_free_ring, req_used_ring, req_array, process_size, pc>>
  BY DEF rings, poll
<1>2. PollOK'
  BY <1>1 DEF BufInv, PollOK
<1> QED BY <1>1, <1>2, Frame

\* A user thread takes the first free buffer.
LEMMA GetFreeReqBufferStep ==
  ASSUME BufInv, NEW c \in Ctxs, GetFreeReqBuffer(c)
  PROVE  BufInv'
<1> USE DEF GetFreeReqBuffer
<1> DEFINE b == Head(req_free_ring)
<1>1. /\ b \in Bufs /\ req_free_ring' \in Seq(Bufs)
      /\ ToSet(req_free_ring) = {b} \cup ToSet(req_free_ring')
      /\ IsInjective(req_free_ring') /\ b \notin ToSet(req_free_ring')
  BY ElemsHeadTail DEF BufInv, RingsTyped, BuffersApart
<1>2. /\ held[c] = NULL /\ held' = [held EXCEPT ![c] = b]
      /\ UNCHANGED <<req_used_ring, req_array, process_size, pc, nb_frees>>
  BY DEF poll
<1> HIDE DEF b, GetFreeReqBuffer
<1>3. b # NULL
  BY <1>1, WorkerAssumption
<1>4. RingsTyped'
  BY <1>1, <1>2 DEF BufInv, RingsTyped
<1>5. PollOK'
  BY <1>2 DEF BufInv, PollOK
<1>6. HeldBufs' = HeldBufs \cup {b}
  BY <1>1, <1>2, <1>3 DEF HeldBufs, BufInv, RingsTyped
<1>7. BuffersApart'
  <2>1. \A d, e \in Ctxs : held'[d] = held'[e] /\ held'[d] # NULL => d = e
    BY <1>1, <1>2, <1>3 DEF BufInv, RingsTyped, BuffersApart
  <2>2. \A d \in Ctxs : held'[d] \notin ToSet(req_free_ring') \cup ToSet(req_used_ring')
                                            \cup ToSet(req_array')
    BY <1>1, <1>2 DEF BufInv, RingsTyped, BuffersApart
  <2> QED BY <1>1, <1>2, <1>6, <2>1, <2>2 DEF BufInv, BuffersApart
<1> QED BY <1>4, <1>5, <1>7 DEF BufInv

\* It publishes the buffer in the used ring: the ring only grows at its end, so the
\* poll that counted it still finds what it counted.
LEMMA EnqueueStep ==
  ASSUME BufInv, NEW c \in Ctxs, Enqueue(c)
  PROVE  BufInv'
<1> DEFINE b == held[c]
<1>1. /\ b # NULL /\ b \in Bufs
      /\ req_used_ring' = Append(req_used_ring, b)
      /\ held' = [held EXCEPT ![c] = NULL]
      /\ UNCHANGED <<req_free_ring, req_array, process_size, pc, nb_frees>>
  BY DEF Enqueue, poll, BufInv, RingsTyped
<1> HIDE DEF b
<1>2. /\ req_used_ring' \in Seq(Bufs)
      /\ ToSet(req_used_ring') = ToSet(req_used_ring) \cup {b}
      /\ IsInjective(req_used_ring') <=> IsInjective(req_used_ring) /\ b \notin ToSet(req_used_ring)
  BY <1>1, ElemsAppend DEF BufInv, RingsTyped
<1>3. RingsTyped'
  BY <1>1, <1>2 DEF BufInv, RingsTyped
<1>4. PollOK'
  <2>1. Len(req_used_ring) \in Nat /\ Len(req_used_ring') = Len(req_used_ring) + 1
    BY <1>1, AppendProperties, LenProperties DEF BufInv, RingsTyped
  <2> QED BY <1>1, <2>1 DEF BufInv, PollOK
<1>5. /\ b \notin ToSet(req_free_ring) \cup ToSet(req_used_ring) \cup ToSet(req_array)
      /\ \A d \in Ctxs : d # c => held[d] # b
  BY <1>1 DEF b, BufInv, BuffersApart
<1>6. HeldBufs = HeldBufs' \cup {b}
  BY <1>1, <1>5 DEF b, HeldBufs, BufInv, RingsTyped
<1>7. BuffersApart'
  <2>1. \A d, e \in Ctxs : held'[d] = held'[e] /\ held'[d] # NULL => d = e
    BY <1>1 DEF BufInv, RingsTyped, BuffersApart
  <2>2. \A d \in Ctxs : held'[d] \notin ToSet(req_free_ring') \cup ToSet(req_used_ring')
                                            \cup ToSet(req_array')
    <3> SUFFICES ASSUME NEW d \in Ctxs
                 PROVE  held'[d] \notin ToSet(req_free_ring') \cup ToSet(req_used_ring')
                                            \cup ToSet(req_array')
      OBVIOUS
    <3>1. CASE d = c
      <4>1. held'[d] = NULL
        BY <1>1, <3>1 DEF BufInv, RingsTyped
      <4>2. ToSet(req_free_ring') \cup ToSet(req_used_ring') \cup ToSet(req_array')
               \subseteq Bufs
        BY <1>3, ElemsOf DEF RingsTyped
      <4> QED BY <4>1, <4>2, WorkerAssumption
    <3>2. CASE d # c
      BY <1>1, <1>2, <1>5, <3>2 DEF BufInv, RingsTyped, BuffersApart
    <3> QED BY <3>1, <3>2
  <2> QED BY <1>1, <1>2, <1>5, <1>6, <2>1, <2>2 DEF BufInv, BuffersApart
<1> QED BY <1>3, <1>4, <1>7 DEF BufInv

-----------------------------------------------------------------------------
(* The poll. *)

\* The I/O manager's load is a number, so the least of the three counts is one.
LEMMA FreeSlots == a_ios \in Int
<1>1. IsFiniteSet({c \in Ctxs : ireq[c].stage \in {"load", "modify"}})
  BY FS_Subset, WorkerAssumption
<1>2. nb_pending_io \in Nat
  BY <1>1, FS_CardinalityType DEF nb_pending_io
<1> QED BY <1>2, WorkerAssumption DEF a_ios

LEMMA PollStartStep ==
  ASSUME BufInv, PollStart
  PROVE  BufInv'
<1>1. /\ pc = "idle" /\ UNCHANGED <<held, req_free_ring, req_used_ring, req_array, nb_frees>>
      /\ process_size' = Least(Least(Len(req_used_ring), nb_frees), a_ios)
      /\ pc' = IF process_size' > 0 THEN "dequeue" ELSE "process"
  BY DEF PollStart, callers, rings
<1>2. Len(req_used_ring) \in Nat /\ nb_frees \in Int
  BY LenProperties DEF BufInv, RingsTyped
<1>3. process_size' \in Int /\ process_size' <= Len(req_used_ring)
  BY <1>1, <1>2, FreeSlots DEF Least
<1>4. PollOK'
  BY <1>1, <1>2, <1>3 DEF BufInv, PollOK
<1> QED BY <1>1, <1>2, <1>4, Frame

\* The buffers counted move from the used ring to req_array.
LEMMA PollDequeueStep ==
  ASSUME BufInv, PollDequeue
  PROVE  BufInv'
<1>1. /\ req_array' = SubSeq(req_used_ring, 1, process_size)
      /\ req_used_ring' = SubSeq(req_used_ring, process_size + 1, Len(req_used_ring))
      /\ pc = "dequeue" /\ pc' = "wrap"
      /\ UNCHANGED <<held, req_free_ring, nb_frees, process_size>>
  BY DEF PollDequeue, callers
<1>2. process_size \in 1 .. Len(req_used_ring) /\ req_array = << >>
  BY <1>1 DEF BufInv, PollOK
<1>3. /\ req_array' \in Seq(Bufs) /\ req_used_ring' \in Seq(Bufs)
      /\ ToSet(req_used_ring) = ToSet(req_array') \cup ToSet(req_used_ring')
      /\ IsInjective(req_used_ring) <=>
           /\ IsInjective(req_array') /\ IsInjective(req_used_ring')
           /\ ToSet(req_array') \cap ToSet(req_used_ring') = {}
  BY <1>1, <1>2, ElemsSplit DEF BufInv, RingsTyped
<1>4. RingsTyped' /\ PollOK'
  BY <1>1, <1>3 DEF BufInv, RingsTyped, PollOK
<1>5. BuffersApart'
  <2>1. HeldBufs' = HeldBufs /\ ToSet(req_array) = {}
    BY <1>1, <1>2, ElemsEmpty DEF HeldBufs
  <2> QED BY <1>1, <1>3, <2>1 DEF BufInv, BuffersApart
<1> QED BY <1>4, <1>5 DEF BufInv

LEMMA PollWrapStep ==
  ASSUME BufInv, PollWrap
  PROVE  BufInv'
<1>1. /\ pc = "wrap" /\ pc' = "refill" /\ nb_frees' = nb_frees - Len(req_array)
      /\ UNCHANGED <<held, req_free_ring, req_used_ring, req_array, process_size>>
  BY DEF PollWrap, callers, rings, poll
<1>2. nb_frees' \in Int
  BY <1>1, LenProperties DEF BufInv, RingsTyped
<1>3. PollOK'
  BY <1>1 DEF PollOK
<1> QED BY <1>1, <1>2, <1>3, Frame

\* And from req_array to the free ring.
LEMMA PollRefillStep ==
  ASSUME BufInv, PollRefill
  PROVE  BufInv'
<1>1. /\ req_free_ring' = req_free_ring \o req_array /\ req_array' = << >>
      /\ pc' = "process" /\ UNCHANGED <<held, req_used_ring, nb_frees>>
  BY DEF PollRefill, callers
<1>2. /\ req_free_ring' \in Seq(Bufs)
      /\ ToSet(req_free_ring') = ToSet(req_free_ring) \cup ToSet(req_array)
      /\ IsInjective(req_free_ring') <=>
           /\ IsInjective(req_free_ring) /\ IsInjective(req_array)
           /\ ToSet(req_free_ring) \cap ToSet(req_array) = {}
  BY <1>1, ElemsConcat, DistinctConcat, ConcatProperties DEF BufInv, RingsTyped
<1>3. RingsTyped' /\ PollOK'
  BY <1>1, <1>2 DEF BufInv, RingsTyped, PollOK
<1>4. BuffersApart'
  <2>1. HeldBufs' = HeldBufs /\ ToSet(req_array') = {} /\ IsInjective(req_array')
    BY <1>1, ElemsEmpty DEF HeldBufs
  <2> QED BY <1>1, <1>2, <2>1 DEF BufInv, BuffersApart
<1> QED BY <1>3, <1>4 DEF BufInv

LEMMA PollEndStep ==
  ASSUME BufInv, PollEnd
  PROVE  BufInv'
<1>1. /\ pc = "process" /\ pc' = "idle"
      /\ UNCHANGED <<held, req_free_ring, req_used_ring, req_array, nb_frees, process_size>>
  BY DEF PollEnd, callers, rings, poll
<1>2. nb_frees' \in Int /\ PollOK'
  BY <1>1 DEF BufInv, PollOK, RingsTyped
<1> QED BY <1>1, <1>2, Frame

-----------------------------------------------------------------------------
(* Requests: none of them touches a ring or a buffer.                        *)

LEMMA ProcessStep ==
  ASSUME BufInv, NEW c \in Ctxs, Process(c)
  PROVE  BufInv'
<1> USE DEF Processing, Finish, CallBack, Resubmit, Proceed, Getting, Modifying
<1>1. nb_frees \in Int
  BY DEF BufInv, RingsTyped
<1>2. CASE GetNotExist(c)
  BY <1>1, <1>2, FrameProcess DEF GetNotExist
<1>3. CASE DeleteNotExist(c)
  BY <1>1, <1>3, FrameProcess DEF DeleteNotExist
<1>4. CASE Scan(c)
  BY <1>1, <1>4, FrameProcess DEF Scan
<1>5. ASSUME NEW e \in Entries, GetResubmit(c, e) PROVE BufInv'
  BY <1>1, <1>5, FrameProcess DEF GetResubmit
<1>6. ASSUME NEW e \in Entries, GetStart(c, e) PROVE BufInv'
  BY <1>1, <1>6, FrameProcess DEF GetStart
<1>7. ASSUME NEW e \in Entries, GetCached(c, e) PROVE BufInv'
  BY <1>1, <1>7, FrameProcess DEF GetCached
<1>8. ASSUME NEW e \in Entries, PutNew(c, e) PROVE BufInv'
  BY <1>1, <1>8, FrameProcess DEF PutNew
<1>9. ASSUME NEW e \in Entries, PutStart(c, e) PROVE BufInv'
  BY <1>1, <1>9, FrameProcess DEF PutStart
<1>10. ASSUME NEW e \in Entries, DeleteStart(c, e) PROVE BufInv'
  BY <1>1, <1>10, FrameProcess DEF DeleteStart
<1>11. ASSUME NEW e \in Entries, ModifyResubmit(c, e) PROVE BufInv'
  BY <1>1, <1>11, FrameProcess DEF ModifyResubmit
<1> QED BY <1>2, <1>3, <1>4, <1>5, <1>6, <1>7, <1>8, <1>9, <1>10, <1>11 DEF Process

LEMMA CompleteStep ==
  ASSUME BufInv, NEW c \in Ctxs, Complete(c)
  PROVE  BufInv'
<1> USE DEF Completing, Finish, CallBack
<1>1. nb_frees \in Int
  BY DEF BufInv, RingsTyped
<1>2. CASE ChunkReady(c)
  BY <1>1, <1>2, FrameProcess DEF ChunkReady
<1>3. CASE LoadDone(c)
  BY <1>1, <1>3, FrameProcess DEF LoadDone
<1>4. CASE PutDone(c)
  BY <1>1, <1>4, FrameProcess DEF PutDone
<1>5. CASE DeleteDone(c)
  BY <1>1, <1>5, FrameProcess DEF DeleteDone
<1> QED BY <1>2, <1>3, <1>4, <1>5 DEF Complete

LEMMA UseFreedEntryStep ==
  ASSUME BufInv, NEW c \in Ctxs, UseFreedEntry(c)
  PROVE  BufInv'
<1>1. /\ UNCHANGED <<held, req_free_ring, req_used_ring, req_array, nb_frees, process_size>>
      /\ pc \in {"process", "idle"} /\ pc' = "undefined"
  BY DEF UseFreedEntry, callers, rings, poll
<1>2. nb_frees' \in Int /\ PollOK'
  BY <1>1 DEF BufInv, PollOK, RingsTyped
<1> QED BY <1>1, <1>2, Frame

-----------------------------------------------------------------------------
LEMMA BufInvStep == BufInv /\ [Next]_vars => BufInv'
<1> SUFFICES ASSUME BufInv, [Next]_vars PROVE BufInv'
  OBVIOUS
<1>1. CASE UNCHANGED vars
  <2>1. nb_frees' \in Int /\ UNCHANGED <<held, rings, pc, poll>>
    BY <1>1 DEF vars, callers, rings, poll, BufInv, RingsTyped
  <2> QED BY <2>1, FrameProcess
<1>2. CASE Poll
  BY <1>2, PollStartStep, PollDequeueStep, PollWrapStep, PollRefillStep, PollEndStep DEF Poll
<1>3. ASSUME NEW c \in Ctxs, GetFreeReqBuffer(c) \/ Enqueue(c) \/ Process(c)
                             \/ Complete(c) \/ UseFreedEntry(c)
      PROVE  BufInv'
  BY <1>3, GetFreeReqBufferStep, EnqueueStep, ProcessStep, CompleteStep, UseFreedEntryStep
<1>4. ASSUME NEW e \in Entries, Evict(e) PROVE BufInv'
  <2>1. nb_frees' \in Int /\ UNCHANGED <<held, rings, pc, poll>>
    BY <1>4 DEF Evict, callers, BufInv, RingsTyped
  <2> QED BY <2>1, FrameProcess
<1> QED BY <1>1, <1>2, <1>3, <1>4 DEF Next

\* Every kv_request buffer is at exactly one place, for any number of user threads
\* and buffers and whatever the worker processes: the two rings, created with as
\* many slots as there are buffers, never overflow (the assertions on
\* spdk_ring_enqueue in worker.c), and no thread fills a buffer in use.
THEOREM WorkerBuffersConserved == Spec => []BuffersConserved
<1>1. Init => BufInv
  BY BufInvInit
<1>2. BufInv /\ [Next]_vars => BufInv'
  BY BufInvStep
<1>3. BufInv => BuffersConserved
  BY BufInvConserves
<1> QED BY <1>1, <1>2, <1>3, PTL DEF Spec

-----------------------------------------------------------------------------
(* The counts of a poll. *)

CountInv == BufInv /\ CountsStillHold

\* Nothing is promised of the counts outside of the two steps that use them.
LEMMA CountsUnused ==
  ASSUME pc \notin {"dequeue", "wrap"}
  PROVE  CountsStillHold
  BY DEF CountsStillHold

\* A positive process_size is at most each of the three counts, so the difference
\* of the two unsigned numbers was not cut off at 0.
LEMMA CountsRead ==
  ASSUME BufInv, PollStart
  PROVE  CountsStillHold'
<1>1. /\ UNCHANGED <<req_used_ring, nb_frees, ireq>>
      /\ process_size' = Least(Least(Len(req_used_ring), nb_frees), a_ios)
      /\ pc' = IF process_size' > 0 THEN "dequeue" ELSE "process"
  BY DEF PollStart, rings
<1>2. Len(req_used_ring) \in Nat /\ nb_frees \in Int /\ MaxIO \in Nat
  BY LenProperties, WorkerAssumption DEF BufInv, RingsTyped
<1>3. nb_pending_io \in Nat /\ nb_pending_io' = nb_pending_io
  <2>1. IsFiniteSet({c \in Ctxs : ireq[c].stage \in {"load", "modify"}})
    BY FS_Subset, WorkerAssumption
  <2> QED BY <1>1, <2>1, FS_CardinalityType DEF nb_pending_io
<1>4. CASE process_size' > 0
  <2>1. /\ process_size' <= Len(req_used_ring) /\ process_size' <= nb_frees
        /\ process_size' <= a_ios
    BY <1>1, <1>2, FreeSlots DEF Least
  <2>2. a_ios = MaxIO - nb_pending_io
    BY <1>2, <1>3, <1>4, <2>1, FreeSlots, <1>1 DEF a_ios, Least
  <2>3. process_size' \in Int
    BY <1>1, <1>2, FreeSlots DEF Least
  <2> QED BY <1>1, <1>2, <1>3, <1>4, <2>1, <2>2, <2>3 DEF CountsStillHold
<1>5. CASE ~(process_size' > 0)
  BY <1>1, <1>5 DEF CountsStillHold
<1> QED BY <1>4, <1>5

\* User threads only add to the used ring, and touch none of the other counts.
LEMMA CountsWhileCalling ==
  ASSUME CountInv, NEW c \in Ctxs, GetFreeReqBuffer(c) \/ Enqueue(c)
  PROVE  CountsStillHold'
<1>1. UNCHANGED <<pc, process_size, req_array, nb_frees, ireq>>
  BY DEF GetFreeReqBuffer, Enqueue, poll
<1>2. /\ Len(req_used_ring) \in Nat /\ Len(req_used_ring') \in Nat
      /\ Len(req_used_ring') >= Len(req_used_ring)
  <2>1. Len(req_used_ring) \in Nat
    BY LenProperties DEF CountInv, BufInv, RingsTyped
  <2>2. CASE GetFreeReqBuffer(c)
    BY <2>1, <2>2 DEF GetFreeReqBuffer
  <2>3. CASE Enqueue(c)
    <3>1. held[c] \in Bufs
      BY <2>3 DEF Enqueue, CountInv, BufInv, RingsTyped
    <3>2. Len(req_used_ring') = Len(req_used_ring) + 1
      BY <2>3, <3>1, AppendProperties DEF Enqueue, CountInv, BufInv, RingsTyped
    <3> QED BY <2>1, <3>2
  <2> QED BY <2>1, <2>2, <2>3
<1>3. nb_pending_io' = nb_pending_io
  BY <1>1 DEF nb_pending_io
<1>4. pc = "dequeue" => process_size \in Int
  BY DEF CountInv, BufInv, PollOK
<1> QED BY <1>1, <1>2, <1>3, <1>4 DEF CountInv, CountsStillHold

LEMMA CountInvStep == CountInv /\ [Next]_vars => CountInv'
<1> SUFFICES ASSUME CountInv, [Next]_vars PROVE CountInv'
  OBVIOUS
<1>1. BufInv'
  BY BufInvStep DEF CountInv
<1>2. CASE UNCHANGED vars
  <2>1. UNCHANGED <<pc, process_size, req_array, req_used_ring, nb_frees, ireq>>
    BY <1>2 DEF vars, rings, poll
  <2> QED BY <1>1, <2>1 DEF CountInv, CountsStillHold, nb_pending_io
<1>3. CASE PollStart
  BY <1>1, <1>3, CountsRead DEF CountInv
<1>4. CASE PollDequeue
  <2>1. /\ req_array' = SubSeq(req_used_ring, 1, process_size)
        /\ pc = "dequeue" /\ pc' = "wrap"
        /\ UNCHANGED <<nb_frees, process_size, ireq>>
    BY <1>4 DEF PollDequeue
  <2>2. process_size \in 1 .. Len(req_used_ring)
    BY <2>1 DEF CountInv, BufInv, PollOK
  <2>3. Len(req_array') = process_size
    BY <2>1, <2>2, ElemsSplit DEF CountInv, BufInv, RingsTyped
  <2> QED BY <1>1, <2>1, <2>3 DEF CountInv, CountsStillHold, nb_pending_io
<1>5. CASE pc' \notin {"dequeue", "wrap"}
  BY <1>1, <1>5 DEF CountInv, CountsStillHold
<1>6. CASE PollWrap \/ PollRefill \/ PollEnd
  <2>1. pc' \notin {"dequeue", "wrap"}
    BY <1>6 DEF PollWrap, PollRefill, PollEnd
  <2> QED BY <1>5, <2>1
<1>7. ASSUME NEW c \in Ctxs, GetFreeReqBuffer(c) \/ Enqueue(c) PROVE CountInv'
  BY <1>1, <1>7, CountsWhileCalling DEF CountInv
<1>8. ASSUME NEW c \in Ctxs, Process(c) PROVE CountInv'
  <2>1. pc' = "process"
    BY <1>8 DEF Process, Processing, GetNotExist, DeleteNotExist, Scan, GetResubmit,
                GetStart, GetCached, PutNew, PutStart, DeleteStart, ModifyResubmit,
                Getting, Modifying
  <2> QED BY <1>5, <2>1
<1>9. ASSUME NEW c \in Ctxs, Complete(c) PROVE CountInv'
  <2>1. pc' = "idle"
    BY <1>9 DEF Complete, ChunkReady, LoadDone, PutDone, DeleteDone, Completing
  <2> QED BY <1>5, <2>1
<1>10. ASSUME NEW c \in Ctxs, UseFreedEntry(c) PROVE CountInv'
  <2>1. pc' = "undefined"
    BY <1>10 DEF UseFreedEntry
  <2> QED BY <1>5, <2>1
<1>11. ASSUME NEW e \in Entries, Evict(e) PROVE CountInv'
  <2>1. pc' = "idle"
    BY <1>11 DEF Evict
  <2> QED BY <1>5, <2>1
<1> QED BY <1>2, <1>3, <1>4, <1>6, <1>7, <1>8, <1>9, <1>10, <1>11 DEF Next, Poll

\* The counts a poll reads once hold until it has used them, however many threads
\* submit meanwhile and however far nb_pending_io was above its maximum: the dequeue
\* finds the requests it asserts, pool_get never runs out in the loop, and the I/O
\* manager has a slot for each new request.
THEOREM WorkerCountsStillHold == Spec => []CountsStillHold
<1>1. Init => CountInv
  <2>1. Init => pc \notin {"dequeue", "wrap"}
    BY DEF Init
  <2> QED BY <2>1, BufInvInit, CountsUnused DEF CountInv
<1>2. CountInv /\ [Next]_vars => CountInv'
  BY CountInvStep
<1>3. CountInv => CountsStillHold
  BY DEF CountInv
<1> QED BY <1>1, <1>2, <1>3, PTL DEF Spec

-----------------------------------------------------------------------------
(* The outstanding calls and the internal requests.                        *)

IReqs == [stage : Stages, no_lookup : BOOLEAN, entry : Entries \cup {NULL}]

CallsTyped ==
  /\ call \in [Ctxs -> Calls \cup {NULL}]
  /\ buf \in [Bufs -> Ctxs \cup {NULL}]
  /\ submit \in Seq(Ctxs) /\ resubmit \in Seq(Ctxs)
  /\ ireq \in [Ctxs -> IReqs]

\* The buffers that name an outstanding call, as a set.
PublishedBufs ==
  ToSet(req_used_ring) \cup (IF pc = "wrap" THEN ToSet(req_array) ELSE {})

Used == {c \in Ctxs : ireq[c].stage # "free"}
Queued == {c \in Ctxs : ireq[c].stage = "queued"}

\* A published buffer names a caller whose call has no internal request yet, a
\* different one than the others.
BufsName ==
  /\ \A b \in PublishedBufs : /\ buf[b] \in Ctxs /\ call[buf[b]] # NULL
                              /\ ireq[buf[b]].stage = "free"
  /\ \A b, d \in PublishedBufs : buf[b] = buf[d] => b = d

QueuesApart ==
  /\ IsInjective(submit) /\ IsInjective(resubmit)
  /\ ToSet(submit) \cap ToSet(resubmit) = {}
  /\ ToSet(submit) \cup ToSet(resubmit) = Queued

\* CallsConserved caller by caller.
CallsCarried ==
  /\ \A c \in Used : call[c] # NULL
  /\ \A c \in Ctxs : call[c] # NULL =>
       held[c] = NULL /\ (c \in Used \/ \E b \in PublishedBufs : buf[b] = c)

CallsApart == BufsName /\ QueuesApart /\ CallsCarried

CallInv == CallsTyped /\ CallsApart /\ PoolConserved

-----------------------------------------------------------------------------
(* Sequences and sets. *)

LEMMA ElemsReversed ==
  ASSUME NEW S, NEW s \in Seq(S)
  PROVE  /\ Reverse(s) \in Seq(S)
         /\ ToSet(Reverse(s)) = ToSet(s)
         /\ IsInjective(s) => IsInjective(Reverse(s))
<1> DEFINE n == Len(s)
<1>1. n \in Nat /\ DOMAIN s = 1 .. n /\ \A i \in 1 .. n : s[i] \in S
  BY LenProperties, ElementOfSeq
<1>2. \A i \in 1 .. n : n + 1 - i \in 1 .. n /\ n + 1 - (n + 1 - i) = i
  BY <1>1
<1>3. Reverse(s) = [i \in 1 .. n |-> s[n + 1 - i]]
  BY DEF Reverse
<1> HIDE DEF n
<1>4. Reverse(s) \in [1 .. n -> S]
  BY <1>1, <1>2, <1>3
<1>5. Reverse(s) \in Seq(S)
  BY <1>1, <1>4, SeqDef
<1>6. \A i \in 1 .. n : Reverse(s)[i] = s[n + 1 - i] /\ s[i] = Reverse(s)[n + 1 - i]
  BY <1>2, <1>3
<1>7. ToSet(Reverse(s)) = ToSet(s)
  <2>1. DOMAIN Reverse(s) = 1 .. n
    BY <1>3
  <2>2. \A x : (\E i \in 1 .. n : x = Reverse(s)[i]) <=> (\E i \in 1 .. n : x = s[i])
    BY <1>2, <1>6
  <2> QED BY <1>1, <2>1, <2>2 DEF ToSet
<1>8. ASSUME IsInjective(s), NEW i \in 1 .. n, NEW j \in 1 .. n,
             Reverse(s)[i] = Reverse(s)[j]
      PROVE  i = j
  <2>1. n + 1 - i = n + 1 - j
    BY <1>1, <1>2, <1>6, <1>8 DEF IsInjective
  <2> QED BY <1>1, <2>1
<1> QED BY <1>3, <1>5, <1>7, <1>8 DEF IsInjective

\* A sequence mapped one to one.
LEMMA DistinctMapped ==
  ASSUME NEW S, NEW T, NEW s \in Seq(S), IsInjective(s),
         NEW m \in [1 .. Len(s) -> T],
         \A i, j \in 1 .. Len(s) : m[i] = m[j] => s[i] = s[j]
  PROVE  m \in Seq(T) /\ IsInjective(m) /\ Len(m) = Len(s)
<1>1. Len(s) \in Nat /\ DOMAIN s = 1 .. Len(s)
  BY LenProperties
<1>2. m \in Seq(T)
  BY <1>1, SeqDef
<1>3. Len(m) = Len(s)
  BY <1>1, <1>2, LenProperties
<1>4. IsInjective(m)
  BY <1>1 DEF IsInjective
<1> QED BY <1>2, <1>3, <1>4

\* A sequence without repetition has as many elements as its length.
LEMMA DistinctCardinality ==
  ASSUME NEW S, NEW s \in Seq(S), IsInjective(s)
  PROVE  IsFiniteSet(ToSet(s)) /\ Cardinality(ToSet(s)) = Len(s)
<1>1. Len(s) \in Nat /\ DOMAIN s = 1 .. Len(s) /\ s \in [1 .. Len(s) -> S]
  BY LenProperties
<1>2. s \in Surjection(1 .. Len(s), ToSet(s))
  BY <1>1 DEF Surjection, ToSet
<1>3. s \in Injection(1 .. Len(s), ToSet(s))
  BY <1>1, <1>2 DEF Injection, IsInjective, IsInjective, Surjection
<1>4. IsFiniteSet(1 .. Len(s)) /\ Cardinality(1 .. Len(s)) = Len(s)
  <2>1. 1 \in Int /\ Len(s) \in Int /\ Len(s) >= 0
    BY <1>1
  <2> QED BY <2>1, FS_Interval
<1>5. IsFiniteSet(ToSet(s)) /\ Cardinality(ToSet(s)) = Cardinality(1 .. Len(s))
  BY <1>2, <1>3, <1>4, FS_Surjection
<1> QED BY <1>4, <1>5

\* There are finitely many callers, so that sets of them can be counted.
LEMMA CallersFinite ==
  ASSUME NEW T \in SUBSET Ctxs
  PROVE  IsFiniteSet(T) /\ Cardinality(T) \in Nat
  BY WorkerAssumption, FS_Subset, FS_CardinalityType

-----------------------------------------------------------------------------
(* The calls. *)

LEMMA CallInvInit == Init => CallInv
<1> SUFFICES ASSUME Init PROVE CallInv
  OBVIOUS
<1>1. /\ call = [c \in Ctxs |-> NULL] /\ ireq = [c \in Ctxs |-> FreeReq]
      /\ submit = << >> /\ resubmit = << >> /\ req_used_ring = << >> /\ pc = "idle"
      /\ buf = [b \in Bufs |-> NULL] /\ nb_frees = NReqs
  BY DEF Init
<1>2. FreeReq \in IReqs
  BY DEF FreeReq, IReqs, Stages
<1>3. CallsTyped
  BY <1>1, <1>2 DEF CallsTyped
<1>4. Used = {} /\ Queued = {} /\ PublishedBufs = {}
  BY <1>1, ElemsEmpty DEF Used, Queued, PublishedBufs, FreeReq
<1>5. CallsApart
  BY <1>1, <1>4, ElemsEmpty DEF CallsApart, BufsName, QueuesApart, CallsCarried
<1>6. NReqs \in Nat
  BY WorkerAssumption, FS_CardinalityType DEF NReqs
<1>7. PoolConserved
  <2>1. Cardinality(Used) = 0
    BY <1>4, FS_EmptySet
  <2>2. nb_frees = NReqs - Cardinality(Used)
    BY <1>1, <1>6, <2>1
  <2> QED BY <2>2 DEF PoolConserved, Used
<1> QED BY <1>3, <1>5, <1>7 DEF CallInv

\* A step that leaves calls, requests and published buffers alone.
LEMMA FrameCalls ==
  ASSUME CallInv, PublishedBufs' = PublishedBufs,
         UNCHANGED <<call, held, buf, submit, resubmit, ireq, nb_frees>>
  PROVE  CallInv'
<1>1. CallsTyped'
  BY DEF CallInv, CallsTyped
<1>2. Used' = Used /\ Queued' = Queued
  BY DEF Used, Queued
<1>3. CallsApart'
  BY <1>2 DEF CallInv, CallsApart, BufsName, QueuesApart, CallsCarried
<1>4. PoolConserved'
  BY DEF CallInv, PoolConserved
<1> QED BY <1>1, <1>3, <1>4 DEF CallInv

\* What a request of the caller c goes through, once it is out of the ring: it is
\* queued again, waits for a completion, or is released with the call's answer.
LEMMA RequestStep ==
  ASSUME CallInv, NEW c \in Used, NEW r \in IReqs,
         UNCHANGED <<held, rings, pc, poll>>,
         ireq' = [ireq EXCEPT ![c] = r],
         call' = [call EXCEPT ![c] = IF r.stage = "free" THEN NULL ELSE @],
         nb_frees' = IF r.stage = "free" THEN nb_frees + 1 ELSE nb_frees,
         submit' \in Seq(Ctxs), resubmit' \in Seq(Ctxs),
         IsInjective(submit'), IsInjective(resubmit'),
         ToSet(submit') \cap ToSet(resubmit') = {},
         ToSet(submit') \cup ToSet(resubmit') =
           IF r.stage = "queued" THEN Queued \cup {c} ELSE Queued \ {c}
  PROVE  CallInv'
<1>1. /\ c \in Ctxs /\ ireq[c].stage # "free" /\ ireq \in [Ctxs -> IReqs]
      /\ call \in [Ctxs -> Calls \cup {NULL}] /\ call[c] # NULL
  BY DEF Used, CallInv, CallsTyped, CallsApart, CallsCarried
<1>2. /\ UNCHANGED <<held, buf, req_used_ring, req_array, pc>>
      /\ PublishedBufs' = PublishedBufs
  BY DEF rings, poll, PublishedBufs
<1>3. CallsTyped'
  BY <1>1, <1>2 DEF CallInv, CallsTyped
<1>4. \A d \in Ctxs : /\ ireq'[d] = IF d = c THEN r ELSE ireq[d]
                      /\ d # c => call'[d] = call[d]
                      /\ call'[c] = IF r.stage = "free" THEN NULL ELSE call[c]
  BY <1>1
<1>5. Queued' = IF r.stage = "queued" THEN Queued \cup {c} ELSE Queued \ {c}
  BY <1>1, <1>4 DEF Queued
<1>6. Used' = IF r.stage = "free" THEN Used \ {c} ELSE Used
  BY <1>1, <1>4 DEF Used
<1>7. BufsName'
  BY <1>1, <1>2, <1>4 DEF BufsName, CallInv, CallsApart
<1>8. QueuesApart'
  BY <1>5 DEF QueuesApart
<1>9. CallsCarried'
  BY <1>1, <1>2, <1>4, <1>6 DEF CallInv, CallsApart, CallsCarried, Used
<1>10. PoolConserved'
  <2>1. IsFiniteSet(Used) /\ Cardinality(Used) \in Nat
    BY CallersFinite DEF Used
  <2>2. Cardinality(Used \ {c}) = Cardinality(Used) - 1
    BY <2>1, FS_RemoveElement
  <2>3. NReqs \in Nat
    BY WorkerAssumption, FS_CardinalityType DEF NReqs
  <2>4. nb_frees = NReqs - Cardinality(Used)
    BY DEF CallInv, PoolConserved, Used
  <2>5. nb_frees' = NReqs - Cardinality(Used')
    BY <1>6, <2>1, <2>2, <2>3, <2>4
  <2> QED BY <2>5 DEF PoolConserved, Used
<1> QED BY <1>3, <1>7, <1>8, <1>9, <1>10 DEF CallInv, CallsApart

\* The request at the head of the submit queue, taken out of it.
LEMMA HeadOfSubmit ==
  ASSUME CallInv, submit # << >>
  PROVE  LET c == Head(submit)
         IN  /\ c \in Used /\ c \in Ctxs /\ ireq[c].stage = "queued"
             /\ Tail(submit) \in Seq(Ctxs) /\ IsInjective(Tail(submit))
             /\ c \notin ToSet(resubmit)
             /\ ToSet(Tail(submit)) \cap ToSet(resubmit) = {}
             /\ ToSet(Tail(submit)) \cup ToSet(resubmit) = Queued \ {c}
<1> DEFINE c == Head(submit)
<1>1. /\ c \in Ctxs /\ Tail(submit) \in Seq(Ctxs)
      /\ ToSet(submit) = {c} \cup ToSet(Tail(submit))
      /\ IsInjective(submit) => IsInjective(Tail(submit)) /\ c \notin ToSet(Tail(submit))
  BY ElemsHeadTail DEF CallInv, CallsTyped
<1> HIDE DEF c
<1>2. /\ IsInjective(submit) /\ ToSet(submit) \cap ToSet(resubmit) = {}
      /\ ToSet(submit) \cup ToSet(resubmit) = Queued
  BY DEF CallInv, CallsApart, QueuesApart
<1>3. c \in Queued
  BY <1>1, <1>2
<1>4. ireq[c].stage = "queued" /\ c \in Used
  BY <1>1, <1>3 DEF Queued, Used
<1> QED BY <1>1, <1>2, <1>4 DEF c

\* _process_one_kv_request answers the request, puts it back in a queue, or makes
\* it wait for a completion.
LEMMA FinishProcessing ==
  ASSUME CallInv, NEW c \in Ctxs, NEW op, NEW r,
         Processing(c, op), Finish(c, r), UNCHANGED resubmit
  PROVE  CallInv'
<1>1. /\ submit # << >> /\ c = Head(submit) /\ submit' = Tail(submit)
      /\ UNCHANGED <<held, rings, pc, poll>>
  BY DEF Processing
<1>2. /\ ireq' = [ireq EXCEPT ![c] = FreeReq] /\ call' = [call EXCEPT ![c] = NULL]
      /\ nb_frees' = nb_frees + 1
  BY DEF Finish, CallBack
<1>3. FreeReq \in IReqs /\ FreeReq.stage = "free"
  BY DEF FreeReq, IReqs, Stages
<1>4. resubmit \in Seq(Ctxs) /\ IsInjective(resubmit)
  BY DEF CallInv, CallsTyped, CallsApart, QueuesApart
<1>5. call' = [call EXCEPT ![c] = IF FreeReq.stage = "free" THEN NULL ELSE @]
  BY <1>2, <1>3
<1> QED BY <1>1, <1>2, <1>3, <1>4, <1>5, HeadOfSubmit, RequestStep

LEMMA ResubmitProcessing ==
  ASSUME CallInv, NEW c \in Ctxs, NEW op, NEW r \in IReqs, r.stage = "queued",
         Processing(c, op), Resubmit(c), ireq' = [ireq EXCEPT ![c] = r]
  PROVE  CallInv'
<1>1. /\ submit # << >> /\ c = Head(submit) /\ submit' = Tail(submit)
      /\ UNCHANGED <<held, rings, pc, poll>>
  BY DEF Processing
<1>2. resubmit' = Append(resubmit, c) /\ UNCHANGED <<call, nb_frees>>
  BY DEF Resubmit
<1>3. resubmit \in Seq(Ctxs) /\ IsInjective(resubmit) /\ call \in [Ctxs -> Calls \cup {NULL}]
  BY DEF CallInv, CallsTyped, CallsApart, QueuesApart
<1>4. /\ c \in Used /\ Tail(submit) \in Seq(Ctxs) /\ IsInjective(Tail(submit))
      /\ c \notin ToSet(resubmit) /\ ToSet(Tail(submit)) \cap ToSet(resubmit) = {}
      /\ ToSet(Tail(submit)) \cup ToSet(resubmit) = Queued \ {c}
  BY <1>1, HeadOfSubmit
<1>5. /\ resubmit' \in Seq(Ctxs) /\ IsInjective(resubmit')
      /\ ToSet(resubmit') = ToSet(resubmit) \cup {c}
  BY <1>2, <1>3, <1>4, ElemsAppend
<1>6. call' = [call EXCEPT ![c] = IF r.stage = "free" THEN NULL ELSE @]
  BY <1>2, <1>3
<1>7. /\ ToSet(submit') \cap ToSet(resubmit') = {}
      /\ ToSet(submit') \cup ToSet(resubmit') = Queued \cup {c}
  BY <1>1, <1>4, <1>5
<1> QED BY <1>1, <1>2, <1>4, <1>5, <1>6, <1>7, RequestStep

LEMMA ProceedProcessing ==
  ASSUME CallInv, NEW c \in Ctxs, NEW op, NEW e \in Entries,
         NEW stage \in {"chunk", "load", "modify"},
         Processing(c, op), Proceed(c, e, stage)
  PROVE  CallInv'
<1> DEFINE r == [ireq[c] EXCEPT !.stage = stage, !.entry = e]
<1>1. /\ submit # << >> /\ c = Head(submit) /\ submit' = Tail(submit)
      /\ UNCHANGED <<held, rings, pc, poll>>
  BY DEF Processing
<1>2. ireq' = [ireq EXCEPT ![c] = r] /\ UNCHANGED <<call, resubmit, nb_frees>>
  BY DEF Proceed
<1>3. /\ resubmit \in Seq(Ctxs) /\ IsInjective(resubmit) /\ ireq[c] \in IReqs
      /\ call \in [Ctxs -> Calls \cup {NULL}]
  BY DEF CallInv, CallsTyped, CallsApart, QueuesApart
<1>4. r \in IReqs /\ r.stage \notin {"free", "queued"}
  BY <1>3 DEF IReqs, Stages
<1> HIDE DEF r
<1>5. call' = [call EXCEPT ![c] = IF r.stage = "free" THEN NULL ELSE @]
  BY <1>2, <1>3, <1>4
<1>6. /\ c \in Used /\ Tail(submit) \in Seq(Ctxs) /\ IsInjective(Tail(submit))
      /\ ToSet(Tail(submit)) \cap ToSet(resubmit) = {}
      /\ ToSet(Tail(submit)) \cup ToSet(resubmit) = Queued \ {c}
  BY <1>1, HeadOfSubmit
<1> QED BY <1>1, <1>2, <1>3, <1>4, <1>5, <1>6, RequestStep

\* A completion answers the request, or goes on to the load of the item.
LEMMA CompletionStep ==
  ASSUME CallInv, NEW c \in Ctxs, NEW stage \in {"chunk", "load", "modify"},
         Completing(c, stage), NEW r \in IReqs, r.stage # "queued",
         ireq' = [ireq EXCEPT ![c] = r],
         call' = [call EXCEPT ![c] = IF r.stage = "free" THEN NULL ELSE @],
         nb_frees' = IF r.stage = "free" THEN nb_frees + 1 ELSE nb_frees
  PROVE  CallInv'
<1>1. ireq[c].stage = stage /\ UNCHANGED <<held, rings, pc, poll, submit, resubmit>>
  BY DEF Completing
<1>2. c \in Used /\ c \notin Queued
  BY <1>1 DEF Used, Queued
<1>3. /\ submit \in Seq(Ctxs) /\ resubmit \in Seq(Ctxs)
      /\ IsInjective(submit) /\ IsInjective(resubmit)
      /\ ToSet(submit) \cap ToSet(resubmit) = {}
      /\ ToSet(submit) \cup ToSet(resubmit) = Queued \ {c}
  BY <1>2 DEF CallInv, CallsTyped, CallsApart, QueuesApart
<1> QED BY <1>1, <1>2, <1>3, RequestStep

LEMMA FinishCompleting ==
  ASSUME CallInv, NEW c \in Ctxs, NEW stage \in {"chunk", "load", "modify"}, NEW x,
         Completing(c, stage), Finish(c, x)
  PROVE  CallInv'
<1>1. FreeReq \in IReqs /\ FreeReq.stage = "free"
  BY DEF FreeReq, IReqs, Stages
<1>2. /\ ireq' = [ireq EXCEPT ![c] = FreeReq] /\ nb_frees' = nb_frees + 1
      /\ call' = [call EXCEPT ![c] = IF FreeReq.stage = "free" THEN NULL ELSE @]
  BY <1>1 DEF Finish, CallBack
<1> QED BY <1>1, <1>2, CompletionStep

LEMMA CallsProcess ==
  ASSUME CallInv, NEW c \in Ctxs, Process(c)
  PROVE  CallInv'
<1>1. CASE GetNotExist(c)
  BY <1>1, FinishProcessing DEF GetNotExist
<1>2. CASE DeleteNotExist(c)
  BY <1>2, FinishProcessing DEF DeleteNotExist
<1>3. CASE Scan(c)
  BY <1>3, FinishProcessing DEF Scan
<1>4. ASSUME NEW e \in Entries, GetResubmit(c, e) PROVE CallInv'
  <2> DEFINE r == [ireq[c] EXCEPT !.entry = e, !.no_lookup = @ \/ entry[e].writing]
  <2>1. /\ Processing(c, "GET") /\ Resubmit(c)
        /\ ireq' = [ireq EXCEPT ![c] = r]
    BY <1>4 DEF GetResubmit, Getting
  <2>2. ireq[c].stage = "queued" /\ ireq[c] \in IReqs
    BY <2>1, HeadOfSubmit DEF Processing, CallInv, CallsTyped
  <2>3. r \in IReqs /\ r.stage = "queued"
    BY <2>1, <2>2 DEF IReqs
  <2> HIDE DEF r
  <2> QED BY <2>1, <2>3, ResubmitProcessing
<1>5. ASSUME NEW e \in Entries, GetStart(c, e) PROVE CallInv'
  BY <1>5, ProceedProcessing DEF GetStart, Getting
<1>6. ASSUME NEW e \in Entries, GetCached(c, e) PROVE CallInv'
  BY <1>6, FinishProcessing DEF GetCached, Getting
<1>7. ASSUME NEW e \in Entries, PutNew(c, e) PROVE CallInv'
  BY <1>7, ProceedProcessing DEF PutNew
<1>8. ASSUME NEW e \in Entries, PutStart(c, e) PROVE CallInv'
  BY <1>8, ProceedProcessing DEF PutStart, Modifying
<1>9. ASSUME NEW e \in Entries, DeleteStart(c, e) PROVE CallInv'
  BY <1>9, ProceedProcessing DEF DeleteStart, Modifying
<1>10. ASSUME NEW e \in Entries, ModifyResubmit(c, e) PROVE CallInv'
  <2>1. PICK op \in {"PUT", "DELETE"} : Processing(c, op) /\ Resubmit(c) /\ UNCHANGED ireq
    BY <1>10 DEF ModifyResubmit, Modifying
  <2>2. /\ ireq[c].stage = "queued" /\ ireq[c] \in IReqs /\ ireq \in [Ctxs -> IReqs]
    BY <2>1, HeadOfSubmit DEF Processing, CallInv, CallsTyped
  <2>3. ireq' = [ireq EXCEPT ![c] = ireq[c]]
    BY <2>1, <2>2
  <2> QED BY <2>1, <2>2, <2>3, ResubmitProcessing
<1> QED BY <1>1, <1>2, <1>3, <1>4, <1>5, <1>6, <1>7, <1>8, <1>9, <1>10 DEF Process

LEMMA CallsComplete ==
  ASSUME CallInv, NEW c \in Ctxs, Complete(c)
  PROVE  CallInv'
<1>1. CASE ChunkReady(c)
  <2> DEFINE r == [ireq[c] EXCEPT !.stage = "load"]
  <2>1. /\ Completing(c, "chunk") /\ ireq' = [ireq EXCEPT ![c] = r]
        /\ UNCHANGED <<call, nb_frees>>
    BY <1>1 DEF ChunkReady
  <2>2. ireq[c] \in IReqs /\ call \in [Ctxs -> Calls \cup {NULL}]
    BY DEF CallInv, CallsTyped
  <2>3. r \in IReqs /\ r.stage \notin {"free", "queued"}
    BY <2>2 DEF IReqs, Stages
  <2> HIDE DEF r
  <2>4. /\ call' = [call EXCEPT ![c] = IF r.stage = "free" THEN NULL ELSE @]
        /\ nb_frees' = IF r.stage = "free" THEN nb_frees + 1 ELSE nb_frees
    BY <2>1, <2>2, <2>3
  <2> QED BY <2>1, <2>3, <2>4, CompletionStep
<1>2. CASE LoadDone(c)
  <2>1. Completing(c, "load") /\ (Finish(c, "success") \/ Finish(c, "eio"))
    BY <1>2 DEF LoadDone
  <2> QED BY <2>1, FinishCompleting
<1>3. CASE PutDone(c)
  BY <1>3, FinishCompleting DEF PutDone
<1>4. CASE DeleteDone(c)
  BY <1>4, FinishCompleting DEF DeleteDone
<1> QED BY <1>1, <1>2, <1>3, <1>4 DEF Complete

-----------------------------------------------------------------------------
(* The user threads. *)

LEMMA CallsGetFreeReqBuffer ==
  ASSUME CallInv, NEW c \in Ctxs, GetFreeReqBuffer(c)
  PROVE  CallInv'
<1>1. /\ call[c] = NULL /\ \A d \in Ctxs : d # c => held'[d] = held[d]
      /\ UNCHANGED <<call, buf, req_used_ring, req_array, pc, submit, resubmit, ireq, nb_frees>>
  <2>1. held' = [held EXCEPT ![c] = Head(req_free_ring)]
    BY DEF GetFreeReqBuffer
  <2> QED BY <2>1 DEF GetFreeReqBuffer, poll
<1>2. Used' = Used /\ Queued' = Queued /\ PublishedBufs' = PublishedBufs
  BY <1>1 DEF Used, Queued, PublishedBufs
<1>3. CallsTyped' /\ PoolConserved'
  BY <1>1 DEF CallInv, CallsTyped, PoolConserved
<1>4. BufsName' /\ QueuesApart'
  BY <1>1, <1>2 DEF CallInv, CallsApart, BufsName, QueuesApart
<1>5. CallsCarried'
  BY <1>1, <1>2 DEF CallInv, CallsApart, CallsCarried
<1> QED BY <1>3, <1>4, <1>5 DEF CallInv, CallsApart

\* The caller had no call, so no published buffer named it, and its buffer was not
\* published.
LEMMA CallsEnqueue ==
  ASSUME BufInv, CallInv, NEW c \in Ctxs, Enqueue(c)
  PROVE  CallInv'
<1> DEFINE b == held[c]
<1>1. /\ b # NULL /\ b \in Bufs
      /\ req_used_ring' = Append(req_used_ring, b)
      /\ buf' = [buf EXCEPT ![b] = c] /\ held' = [held EXCEPT ![c] = NULL]
      /\ UNCHANGED <<pc, req_array, submit, resubmit, ireq, nb_frees>>
  BY DEF Enqueue, BufInv, RingsTyped, poll
<1>2. PICK x \in Calls : call' = [call EXCEPT ![c] = x]
  <2>1. PICK op \in CtxOps[c], k \in Keys : call' = [call EXCEPT ![c] = [op |-> op, key |-> k]]
    BY DEF Enqueue
  <2>2. [op |-> op, key |-> k] \in Calls
    BY WorkerAssumption DEF Calls
  <2> QED BY <2>1, <2>2
<1>3. x # NULL
  BY WorkerAssumption DEF Calls
<1>4. /\ b \notin PublishedBufs
      /\ \A d \in Ctxs : held[d] = b => d = c
      /\ PublishedBufs \subseteq Bufs
  BY <1>1, ElemsOf DEF BufInv, RingsTyped, BuffersApart, PublishedBufs
<1>5. PublishedBufs' = PublishedBufs \cup {b}
  <2>1. ToSet(req_used_ring') = ToSet(req_used_ring) \cup {b}
    BY <1>1, ElemsAppend DEF BufInv, RingsTyped
  <2> QED BY <1>1, <2>1 DEF PublishedBufs
<1> HIDE DEF b
<1>6. call[c] = NULL
  BY <1>1 DEF b, CallInv, CallsApart, CallsCarried
<1>7. c \notin Used /\ \A d \in PublishedBufs : buf[d] # c
  BY <1>6 DEF CallInv, CallsApart, CallsCarried, BufsName
<1>8. Used' = Used /\ Queued' = Queued
  BY <1>1 DEF Used, Queued
<1>9. /\ buf \in [Bufs -> Ctxs \cup {NULL}] /\ call \in [Ctxs -> Calls \cup {NULL}]
      /\ held \in [Ctxs -> Bufs \cup {NULL}]
  BY DEF CallInv, CallsTyped, BufInv, RingsTyped
<1>10. /\ \A d \in PublishedBufs : buf'[d] = buf[d]
       /\ buf'[b] = c
       /\ \A d \in Ctxs : d # c => call'[d] = call[d] /\ held'[d] = held[d]
       /\ call'[c] = x /\ held'[c] = NULL
  BY <1>1, <1>2, <1>4, <1>9
<1>11. CallsTyped' /\ PoolConserved'
  BY <1>1, <1>2, <1>9 DEF CallInv, CallsTyped, PoolConserved
<1>12. BufsName'
  BY <1>1, <1>3, <1>5, <1>7, <1>10 DEF CallInv, CallsApart, BufsName, Used
<1>13. QueuesApart'
  BY <1>1, <1>8 DEF CallInv, CallsApart, QueuesApart
<1>14. CallsCarried'
  BY <1>3, <1>5, <1>7, <1>8, <1>10 DEF CallInv, CallsApart, CallsCarried, Used
<1> QED BY <1>11, <1>12, <1>13, <1>14 DEF CallInv, CallsApart

-----------------------------------------------------------------------------
(* The poll. *)

LEMMA CallsPollStart ==
  ASSUME CallInv, PollStart
  PROVE  CallInv'
<1>1. /\ pc = "idle" /\ pc' \in {"dequeue", "process"}
      /\ submit' = Reverse(resubmit) \o submit /\ resubmit' = << >>
      /\ UNCHANGED <<call, held, buf, req_used_ring, req_array, ireq, nb_frees>>
  BY DEF PollStart, callers, rings
<1>2. /\ submit \in Seq(Ctxs) /\ resubmit \in Seq(Ctxs)
      /\ IsInjective(submit) /\ IsInjective(resubmit)
      /\ ToSet(submit) \cap ToSet(resubmit) = {}
      /\ ToSet(submit) \cup ToSet(resubmit) = Queued
  BY DEF CallInv, CallsTyped, CallsApart, QueuesApart
<1>3. /\ Reverse(resubmit) \in Seq(Ctxs) /\ IsInjective(Reverse(resubmit))
      /\ ToSet(Reverse(resubmit)) = ToSet(resubmit)
  BY <1>2, ElemsReversed
<1>4. /\ submit' \in Seq(Ctxs) /\ IsInjective(submit')
      /\ ToSet(submit') = ToSet(submit) \cup ToSet(resubmit)
  BY <1>1, <1>2, <1>3, ElemsConcat, DistinctConcat, ConcatProperties
<1>5. Used' = Used /\ Queued' = Queued /\ PublishedBufs' = PublishedBufs
  BY <1>1 DEF Used, Queued, PublishedBufs
<1>6. CallsTyped' /\ PoolConserved'
  BY <1>1, <1>4 DEF CallInv, CallsTyped, PoolConserved
<1>7. BufsName' /\ CallsCarried'
  BY <1>1, <1>5 DEF CallInv, CallsApart, BufsName, CallsCarried
<1>8. QueuesApart'
  BY <1>1, <1>2, <1>4, <1>5, ElemsEmpty DEF QueuesApart
<1> QED BY <1>6, <1>7, <1>8 DEF CallInv, CallsApart

LEMMA CallsPollDequeue ==
  ASSUME BufInv, CallInv, PollDequeue
  PROVE  CallInv'
<1>1. /\ req_array' = SubSeq(req_used_ring, 1, process_size)
      /\ req_used_ring' = SubSeq(req_used_ring, process_size + 1, Len(req_used_ring))
      /\ pc = "dequeue" /\ pc' = "wrap"
      /\ UNCHANGED <<call, held, buf, submit, resubmit, ireq, nb_frees>>
  BY DEF PollDequeue, callers
<1>2. process_size \in 1 .. Len(req_used_ring) /\ req_used_ring \in Seq(Bufs)
  BY <1>1 DEF BufInv, PollOK, RingsTyped
<1>3. ToSet(req_used_ring) = ToSet(req_array') \cup ToSet(req_used_ring')
  BY <1>1, <1>2, ElemsSplit
<1>4. PublishedBufs' = PublishedBufs
  BY <1>1, <1>3 DEF PublishedBufs
<1> QED BY <1>1, <1>4, FrameCalls

\* The callers named by the array get an internal request each, and none had one.
LEMMA CallsPollWrap ==
  ASSUME BufInv, CallInv, PollWrap
  PROVE  CallInv'
<1>1. PICK new : new = [i \in 1 .. Len(req_array) |-> buf[req_array[i]]]
  OBVIOUS
<1>2. /\ pc = "wrap" /\ pc' = "refill"
      /\ submit' = submit \o new
      /\ ireq' = [c \in Ctxs |-> IF c \in ToSet(new) THEN [FreeReq EXCEPT !.stage = "queued"]
                                            ELSE ireq[c]]
      /\ nb_frees' = nb_frees - Len(req_array)
      /\ UNCHANGED <<call, held, buf, req_used_ring, req_array, resubmit>>
  BY <1>1 DEF PollWrap, callers, rings, poll
<1>3. /\ req_array \in Seq(Bufs) /\ IsInjective(req_array)
      /\ ToSet(req_used_ring) \cap ToSet(req_array) = {}
  BY DEF BufInv, RingsTyped, BuffersApart
<1>4. PublishedBufs = ToSet(req_used_ring) \cup ToSet(req_array)
  BY <1>2 DEF PublishedBufs
<1>5. /\ \A b \in PublishedBufs : /\ buf[b] \in Ctxs /\ call[buf[b]] # NULL
                                  /\ ireq[buf[b]].stage = "free"
      /\ \A b, d \in PublishedBufs : buf[b] = buf[d] => b = d
  BY DEF CallInv, CallsApart, BufsName
<1>6. /\ Len(req_array) \in Nat /\ DOMAIN req_array = 1 .. Len(req_array)
      /\ ToSet(req_array) = {req_array[i] : i \in 1 .. Len(req_array)}
      /\ \A i \in 1 .. Len(req_array) : req_array[i] \in PublishedBufs
  BY <1>3, <1>4, LenProperties, ElemsOf
<1>7. /\ new \in [1 .. Len(req_array) -> Ctxs]
      /\ \A i \in 1 .. Len(req_array) : new[i] = buf[req_array[i]]
      /\ \A i, j \in 1 .. Len(req_array) : new[i] = new[j] => req_array[i] = req_array[j]
  BY <1>1, <1>5, <1>6
<1>8. new \in Seq(Ctxs) /\ IsInjective(new) /\ Len(new) = Len(req_array)
  BY <1>3, <1>7, DistinctMapped
<1>9. \A y : y \in ToSet(new) <=> \E b \in ToSet(req_array) : y = buf[b]
  BY <1>6, <1>7 DEF ToSet
<1>10. /\ ToSet(new) \subseteq Ctxs
       /\ ToSet(new) \cap Used = {} /\ ToSet(new) \cap Queued = {}
       /\ \A c \in ToSet(new) : call[c] # NULL
  BY <1>4, <1>5, <1>9 DEF Used, Queued
<1>11. PublishedBufs' = ToSet(req_used_ring)
  BY <1>2 DEF PublishedBufs
<1>12. ireq \in [Ctxs -> IReqs] /\ submit \in Seq(Ctxs) /\ IsInjective(submit)
  BY DEF CallInv, CallsTyped, CallsApart, QueuesApart
<1>13. \A c \in Ctxs : /\ c \in ToSet(new) => ireq'[c].stage = "queued"
                       /\ c \notin ToSet(new) => ireq'[c] = ireq[c]
  BY <1>2 DEF FreeReq
<1>14. Used' = Used \cup ToSet(new) /\ Queued' = Queued \cup ToSet(new)
  <2>1. \A c \in Ctxs :
          /\ ireq'[c].stage # "free" <=> ireq[c].stage # "free" \/ c \in ToSet(new)
          /\ ireq'[c].stage = "queued" <=> ireq[c].stage = "queued" \/ c \in ToSet(new)
    BY <1>13
  <2>2. Used' = {c \in Ctxs : ireq'[c].stage # "free"}
    BY DEF Used
  <2>3. Queued' = {c \in Ctxs : ireq'[c].stage = "queued"}
    BY DEF Queued
  <2>4. Used' = Used \cup ToSet(new)
    BY <1>10, <2>1, <2>2 DEF Used
  <2>5. Queued' = Queued \cup ToSet(new)
    BY <1>10, <2>1, <2>3 DEF Queued
  <2> QED BY <2>4, <2>5
<1>15. /\ ToSet(submit') = ToSet(submit) \cup ToSet(new) /\ submit' \in Seq(Ctxs)
       /\ IsInjective(submit') <=> IsInjective(submit) /\ ToSet(submit) \cap ToSet(new) = {}
  BY <1>2, <1>8, <1>12, ElemsConcat, DistinctConcat, ConcatProperties
<1>16. CallsTyped'
  <2>1. [FreeReq EXCEPT !.stage = "queued"] \in IReqs
    BY DEF FreeReq, IReqs, Stages
  <2>2. ireq' \in [Ctxs -> IReqs]
    BY <1>2, <1>12, <2>1
  <2> QED BY <1>2, <1>15, <2>2 DEF CallInv, CallsTyped
<1>17. BufsName'
  <2>1. \A b \in PublishedBufs' : b \in PublishedBufs /\ buf[b] \notin ToSet(new)
    BY <1>3, <1>4, <1>5, <1>9, <1>11
  <2>2. \A b \in PublishedBufs' : ireq'[buf[b]] = ireq[buf[b]]
    BY <1>5, <1>13, <2>1
  <2> QED BY <1>2, <1>5, <2>1, <2>2 DEF BufsName
<1>18. QueuesApart'
  BY <1>2, <1>10, <1>14, <1>15 DEF CallInv, CallsApart, QueuesApart
<1>19. CallsCarried'
  <2>1. \A c \in Used' : call'[c] # NULL
    BY <1>2, <1>10, <1>14 DEF CallInv, CallsApart, CallsCarried
  <2>2. ASSUME NEW c \in Ctxs, call[c] # NULL
        PROVE  held[c] = NULL /\ (c \in Used' \/ \E b \in PublishedBufs' : buf[b] = c)
    <3>1. held[c] = NULL /\ (c \in Used \/ \E b \in PublishedBufs : buf[b] = c)
      BY <2>2 DEF CallInv, CallsApart, CallsCarried
    <3>2. ASSUME NEW b \in PublishedBufs, buf[b] = c
          PROVE  c \in ToSet(new) \/ b \in PublishedBufs'
      BY <1>4, <1>9, <1>11, <3>2
    <3> QED BY <1>14, <3>1, <3>2
  <2> QED BY <1>2, <2>1, <2>2 DEF CallsCarried
<1>20. PoolConserved'
  <2>1. IsFiniteSet(ToSet(new)) /\ Cardinality(ToSet(new)) = Len(req_array) /\ Len(req_array) \in Nat
    BY <1>3, <1>8, DistinctCardinality, LenProperties
  <2>2. IsFiniteSet(Used) /\ Cardinality(Used) \in Nat
    BY CallersFinite DEF Used
  <2>3. Used \cap ToSet(new) = {}
    BY <1>10
  <2>4. Cardinality(Used \cup ToSet(new)) = Cardinality(Used) + Cardinality(ToSet(new))
    <3>1. Cardinality(Used \cap ToSet(new)) = 0
      BY <2>3, FS_EmptySet
    <3>2. Cardinality(Used \cup ToSet(new))
            = Cardinality(Used) + Cardinality(ToSet(new)) - Cardinality(Used \cap ToSet(new))
      BY <2>1, <2>2, FS_Union
    <3> QED BY <2>1, <2>2, <3>1, <3>2
  <2>5. NReqs \in Nat
    BY WorkerAssumption, FS_CardinalityType DEF NReqs
  <2>6. nb_frees = NReqs - Cardinality(Used)
    BY DEF CallInv, PoolConserved, Used
  <2>7. nb_frees' = NReqs - Cardinality(Used')
    BY <1>2, <1>14, <2>1, <2>2, <2>4, <2>5, <2>6
  <2> QED BY <2>7 DEF PoolConserved, Used
<1> QED BY <1>16, <1>17, <1>18, <1>19, <1>20 DEF CallInv, CallsApart

LEMMA CallsPollRest ==
  ASSUME CallInv, PollRefill \/ PollEnd
  PROVE  CallInv'
<1>1. /\ pc # "wrap" /\ pc' # "wrap"
      /\ UNCHANGED <<call, held, buf, req_used_ring, submit, resubmit, ireq, nb_frees>>
  BY DEF PollRefill, PollEnd, callers, rings
<1>2. PublishedBufs' = PublishedBufs
  BY <1>1 DEF PublishedBufs
<1> QED BY <1>1, <1>2, FrameCalls

\* A step of the worker's thread outside of any request.
LEMMA CallsElsewhere ==
  ASSUME CallInv, (pc # "wrap" /\ pc' # "wrap") \/ UNCHANGED <<pc, req_array>>,
         UNCHANGED <<callers, rings, submit, resubmit, ireq, nb_frees>>
  PROVE  CallInv'
<1>1. UNCHANGED <<call, held, buf, req_used_ring>>
  BY DEF callers, rings
<1>2. PublishedBufs' = PublishedBufs
  BY <1>1 DEF PublishedBufs
<1> QED BY <1>1, <1>2, FrameCalls

LEMMA CallInvStep == BufInv /\ CallInv /\ [Next]_vars => CallInv'
<1> SUFFICES ASSUME BufInv, CallInv, [Next]_vars PROVE CallInv'
  OBVIOUS
<1>1. CASE UNCHANGED vars
  BY <1>1, CallsElsewhere DEF vars, poll
<1>2. CASE Poll
  BY <1>2, CallsPollStart, CallsPollDequeue, CallsPollWrap, CallsPollRest DEF Poll
<1>3. ASSUME NEW c \in Ctxs, GetFreeReqBuffer(c) \/ Enqueue(c) \/ Process(c) \/ Complete(c)
      PROVE  CallInv'
  BY <1>3, CallsGetFreeReqBuffer, CallsEnqueue, CallsProcess, CallsComplete
<1>4. ASSUME NEW c \in Ctxs, UseFreedEntry(c) PROVE CallInv'
  BY <1>4, CallsElsewhere DEF UseFreedEntry
<1>5. ASSUME NEW e \in Entries, Evict(e) PROVE CallInv'
  BY <1>5, CallsElsewhere DEF Evict, poll
<1> QED BY <1>1, <1>2, <1>3, <1>4, <1>5 DEF Next

LEMMA PublishedIs ==
  ASSUME BufInv
  PROVE  /\ Published \in Seq(Bufs) /\ IsInjective(Published)
         /\ ToSet(Published) = PublishedBufs
<1>1. /\ req_array \in Seq(Bufs) /\ req_used_ring \in Seq(Bufs)
      /\ IsInjective(req_array) /\ IsInjective(req_used_ring)
      /\ ToSet(req_used_ring) \cap ToSet(req_array) = {}
  BY DEF BufInv, RingsTyped, BuffersApart
<1>2. CASE pc = "wrap"
  <2>1. Published = req_array \o req_used_ring
    BY <1>2 DEF Published
  <2>2. /\ req_array \o req_used_ring \in Seq(Bufs)
        /\ IsInjective(req_array \o req_used_ring)
        /\ ToSet(req_array \o req_used_ring) = ToSet(req_array) \cup ToSet(req_used_ring)
    BY <1>1, ElemsConcat, DistinctConcat, ConcatProperties
  <2> QED BY <1>2, <2>1, <2>2 DEF PublishedBufs
<1>3. CASE pc # "wrap"
  <2>1. Published = req_used_ring
    BY <1>1, <1>3, ConcatEmptySeq DEF Published
  <2> QED BY <1>1, <1>3, <2>1 DEF PublishedBufs
<1> QED BY <1>2, <1>3

LEMMA CallInvConserves == BufInv /\ CallInv => CallsConserved
<1> SUFFICES ASSUME BufInv, CallInv PROVE CallsConserved
  OBVIOUS
<1>1. /\ Published \in Seq(Bufs) /\ IsInjective(Published) /\ ToSet(Published) = PublishedBufs
  BY PublishedIs
<1>2. PICK ringed : ringed = Ringed
  OBVIOUS
<1>3. BufsName /\ QueuesApart /\ CallsCarried /\ CallsTyped
  BY DEF CallInv, CallsApart
<1>4. /\ Len(Published) \in Nat /\ DOMAIN Published = 1 .. Len(Published)
      /\ ToSet(Published) = {Published[i] : i \in 1 .. Len(Published)}
      /\ \A i \in 1 .. Len(Published) : Published[i] \in PublishedBufs
  BY <1>1, LenProperties, ElemsOf
<1>5. /\ ringed \in [1 .. Len(Published) -> Ctxs]
      /\ \A i \in 1 .. Len(Published) : ringed[i] = buf[Published[i]]
      /\ \A i, j \in 1 .. Len(Published) : ringed[i] = ringed[j] => Published[i] = Published[j]
  BY <1>2, <1>3, <1>4 DEF BufsName, Ringed
<1>6. ringed \in Seq(Ctxs) /\ IsInjective(ringed)
  BY <1>1, <1>5, DistinctMapped
<1>7. \A y : y \in ToSet(ringed) <=> \E b \in PublishedBufs : y = buf[b]
  <2>1. \A y : y \in ToSet(ringed) <=> \E i \in 1 .. Len(Published) : y = buf[Published[i]]
    BY <1>5 DEF ToSet
  <2> QED BY <1>1, <1>4, <2>1
<1>8. PICK queues : queues = submit \o resubmit
  OBVIOUS
<1>9. /\ submit \in Seq(Ctxs) /\ resubmit \in Seq(Ctxs)
      /\ queues \in Seq(Ctxs) /\ IsInjective(queues) /\ ToSet(queues) = Queued
  <2>1. /\ submit \in Seq(Ctxs) /\ resubmit \in Seq(Ctxs)
        /\ IsInjective(submit) /\ IsInjective(resubmit)
        /\ ToSet(submit) \cap ToSet(resubmit) = {}
        /\ ToSet(submit) \cup ToSet(resubmit) = Queued
    BY <1>3 DEF CallsTyped, QueuesApart
  <2>2. queues \in Seq(Ctxs)
    BY <1>8, <2>1, ConcatProperties
  <2>3. IsInjective(queues)
    BY <1>8, <2>1, DistinctConcat
  <2>4. ToSet(queues) = ToSet(submit) \cup ToSet(resubmit)
    BY <1>8, <2>1, ElemsConcat
  <2> QED BY <2>1, <2>2, <2>3, <2>4
<1>10. ToSet(ringed) \cap Used = {}
  BY <1>3, <1>7 DEF BufsName, Used
<1>11. Queued \subseteq Used /\ Used = Queued \cup InFlight /\ Queued \cap InFlight = {}
  BY <1>3 DEF Queued, Used, InFlight, CallsTyped, IReqs, Stages
<1>12. PICK carried : carried = ringed \o queues
  OBVIOUS
<1>13. /\ IsInjective(carried) /\ ToSet(carried) = ToSet(ringed) \cup Queued
       /\ carried = ringed \o submit \o resubmit
  <2>1. ringed \o submit \o resubmit = ringed \o (submit \o resubmit)
    BY <1>6, <1>9, ConcatAssociative
  <2>2. ToSet(carried) = ToSet(ringed) \cup ToSet(queues)
    BY <1>6, <1>9, <1>12, ElemsConcat
  <2>3. ToSet(ringed) \cap ToSet(queues) = {}
    BY <1>9, <1>10, <1>11
  <2>4. IsInjective(carried)
    BY <1>6, <1>9, <1>12, <2>3, DistinctConcat
  <2> QED BY <1>8, <1>9, <1>12, <2>1, <2>2, <2>4
<1>14. ToSet(ringed) \cup Used = {c \in Ctxs : call[c] # NULL}
  <2>1. ToSet(ringed) \cup Used \subseteq {c \in Ctxs : call[c] # NULL}
    BY <1>3, <1>7 DEF BufsName, CallsCarried, Used
  <2>2. ASSUME NEW c \in Ctxs, call[c] # NULL PROVE c \in ToSet(ringed) \cup Used
    BY <1>3, <1>7, <2>2 DEF CallsCarried
  <2> QED BY <2>1, <2>2
<1> QED BY <1>2, <1>8, <1>9, <1>10, <1>11, <1>14, <1>13 DEF CallsConserved, Queued

WorkInv == CountInv /\ CallInv

LEMMA WorkInvInit == Init => WorkInv
<1>1. Init => pc \notin {"dequeue", "wrap"}
  BY DEF Init
<1> QED BY <1>1, BufInvInit, CountsUnused, CallInvInit DEF WorkInv, CountInv

LEMMA WorkInvStep == WorkInv /\ [Next]_vars => WorkInv'
  BY CountInvStep, CallInvStep DEF WorkInv, CountInv

\* Every outstanding call is carried by exactly one request, and no request is
\* without a call, for any number of threads and buffers: the worker loses no call
\* when it copies a request out of the ring, retries it or waits for its I/O, and
\* answers none twice.
THEOREM WorkerCallsConserved == Spec => []CallsConserved
<1>1. WorkInv => CallsConserved
  BY CallInvConserves DEF WorkInv, CountInv
<1> QED BY <1>1, WorkInvInit, WorkInvStep, PTL DEF Spec

\* Every internal request goes back to its pool exactly once, with the answer of
\* the call it carries: nb_frees is always what is left of the pool.
THEOREM WorkerPoolConserved == Spec => []PoolConserved
<1>1. WorkInv => PoolConserved
  BY DEF WorkInv, CallInv
<1> QED BY <1>1, WorkInvInit, WorkInvStep, PTL DEF Spec

-----------------------------------------------------------------------------
(* The pins of the chunks.                                                 *)

Waits(c) == ireq[c].stage \in {"chunk", "load"}
Waiting(e) == {c \in Ctxs : Waits(c) /\ ireq[c].entry = e}

DescTyped == desc \in [Entries -> [mem : {"none", "page", "item"}, pins : Nat]]

\* An eviction looks only at the pins: they must count the loads under way.
PinInv ==
  /\ DescTyped
  /\ \A c \in Ctxs : Waits(c) => ireq[c].entry \in Entries
  /\ \A e \in Entries : desc[e].pins = Cardinality(Waiting(e))
  /\ LoadHasMemory

-----------------------------------------------------------------------------
LEMMA PinInvInit == Init => PinInv
<1> SUFFICES ASSUME Init PROVE PinInv
  OBVIOUS
<1>1. /\ ireq = [c \in Ctxs |-> FreeReq]
      /\ desc = [e \in Entries |-> [mem |-> "none", pins |-> 0]]
  BY DEF Init
<1>2. \A c \in Ctxs : ireq[c].stage = "free"
  BY <1>1 DEF FreeReq
<1>3. \A e \in Entries : Waiting(e) = {}
  BY <1>2 DEF Waiting, Waits
<1>4. \A e \in Entries : desc[e].pins = Cardinality(Waiting(e))
  BY <1>1, <1>3, FS_EmptySet
<1> QED BY <1>1, <1>2, <1>4 DEF PinInv, DescTyped, Waits, LoadHasMemory

LEMMA WaitingFinite ==
  ASSUME NEW e
  PROVE  IsFiniteSet(Waiting(e)) /\ Cardinality(Waiting(e)) \in Nat
  BY CallersFinite DEF Waiting

\* A step by which no GET begins or ends to wait; a chunk loses its memory only
\* while nobody has pinned it.
LEMMA FramePins ==
  ASSUME PinInv, DescTyped',
         \A c \in Ctxs : /\ Waits(c)' <=> Waits(c)
                         /\ Waits(c) => ireq'[c].entry = ireq[c].entry,
         \A c \in Ctxs : ireq'[c].stage = "load" =>
                           ireq[c].stage = "load" \/ desc'[ireq'[c].entry].mem # "none",
         \A e \in Entries : /\ desc'[e].pins = desc[e].pins
                            /\ desc'[e].mem = "none" =>
                                 desc[e].mem = "none" \/ desc[e].pins = 0
  PROVE  PinInv'
<1>1. \A c \in Ctxs : Waits(c)' => ireq'[c].entry \in Entries
  BY DEF PinInv
<1>2. \A e \in Entries : Waiting(e)' = Waiting(e)
  BY DEF Waiting
<1>3. \A e \in Entries : desc'[e].pins = Cardinality(Waiting(e)')
  BY <1>2 DEF PinInv
<1>4. ASSUME NEW c \in Ctxs, ireq'[c].stage = "load", ireq[c].stage = "load"
      PROVE  desc'[ireq'[c].entry].mem # "none"
  <2> DEFINE e == ireq[c].entry
  <2>1. Waits(c) /\ e \in Entries /\ ireq'[c].entry = e
    BY <1>4 DEF Waits, PinInv
  <2>2. desc[e].mem # "none"
    BY <1>4 DEF PinInv, LoadHasMemory
  <2>3. c \in Waiting(e)
    BY <2>1 DEF Waiting
  <2>4. desc[e].pins # 0
    <3>1. Cardinality(Waiting(e)) # 0
      BY <2>3, WaitingFinite, FS_EmptySet
    <3> QED BY <2>1, <3>1 DEF PinInv
  <2> QED BY <2>1, <2>2, <2>4
<1>5. LoadHasMemory'
  BY <1>4 DEF LoadHasMemory
<1> QED BY <1>1, <1>3, <1>5 DEF PinInv

\* The steps that leave the chunks alone.
LEMMA FrameDesc ==
  ASSUME PinInv, UNCHANGED desc,
         \A c \in Ctxs : ireq'[c] = ireq[c] \/ (~Waits(c) /\ ~Waits(c)')
  PROVE  PinInv'
<1>1. DescTyped'
  BY DEF PinInv, DescTyped
<1>2. \A c \in Ctxs : /\ Waits(c)' <=> Waits(c)
                      /\ Waits(c) => ireq'[c].entry = ireq[c].entry
                      /\ ireq'[c].stage = "load" => ireq[c].stage = "load"
  BY DEF Waits
<1> QED BY <1>1, <1>2, FramePins

-----------------------------------------------------------------------------
(* A GET begins to wait, and ends. *)

LEMMA PinsGetStart ==
  ASSUME CallInv, PinInv, NEW c \in Ctxs, NEW e \in Entries, GetStart(c, e)
  PROVE  PinInv'
<1>1. /\ submit # << >> /\ c = Head(submit)
      /\ desc' = [desc EXCEPT ![e].pins = @ + 1]
      /\ ireq' = [ireq EXCEPT ![c].stage = IF desc[e].mem = "none" THEN "chunk" ELSE "load",
                              ![c].entry = e]
  BY DEF GetStart, Getting, Processing, Proceed
<1>2. ireq[c].stage = "queued" /\ ireq \in [Ctxs -> IReqs]
  BY <1>1, HeadOfSubmit DEF CallInv, CallsTyped
<1>3. /\ \A d \in Ctxs : d # c => ireq'[d] = ireq[d]
      /\ ireq'[c].stage = IF desc[e].mem = "none" THEN "chunk" ELSE "load"
      /\ ireq'[c].entry = e
  BY <1>1, <1>2 DEF IReqs
<1>4. DescTyped' /\ \A f \in Entries : /\ desc'[f].mem = desc[f].mem
                                       /\ f # e => desc'[f].pins = desc[f].pins
                                       /\ f = e => desc'[f].pins = desc[f].pins + 1
  BY <1>1 DEF PinInv, DescTyped
<1>5. \A d \in Ctxs : Waits(d)' => ireq'[d].entry \in Entries
  BY <1>3 DEF PinInv, Waits
<1>6. ASSUME NEW f \in Entries
      PROVE  Waiting(f)' = IF f = e THEN Waiting(f) \cup {c} ELSE Waiting(f)
  <2>1. \A d \in Ctxs : d # c => (Waits(d)' /\ ireq'[d].entry = f <=> Waits(d) /\ ireq[d].entry = f)
    BY <1>3 DEF Waits
  <2>2. Waits(c)' /\ ireq'[c].entry = e /\ ~Waits(c)
    BY <1>2, <1>3 DEF Waits
  <2> QED BY <2>1, <2>2 DEF Waiting
<1>7. \A f \in Entries : desc'[f].pins = Cardinality(Waiting(f)')
  <2> SUFFICES ASSUME NEW f \in Entries PROVE desc'[f].pins = Cardinality(Waiting(f)')
    OBVIOUS
  <2>1. desc[f].pins = Cardinality(Waiting(f))
    BY DEF PinInv
  <2>2. CASE f = e
    <3>1. c \notin Waiting(f)
      BY <1>2 DEF Waiting, Waits
    <3>2. Cardinality(Waiting(f) \cup {c}) = Cardinality(Waiting(f)) + 1
      BY <3>1, WaitingFinite, FS_AddElement
    <3> QED BY <1>4, <1>6, <2>1, <2>2, <3>2
  <2>3. CASE f # e
    BY <1>4, <1>6, <2>1, <2>3
  <2> QED BY <2>2, <2>3
<1>8. LoadHasMemory'
  <2> SUFFICES ASSUME NEW d \in Ctxs, ireq'[d].stage = "load"
               PROVE  desc'[ireq'[d].entry].mem # "none"
    BY DEF LoadHasMemory
  <2>1. CASE d = c
    BY <1>3, <1>4, <2>1
  <2>2. CASE d # c
    <3>1. ireq'[d] = ireq[d] /\ ireq[d].entry \in Entries
      BY <1>3, <2>2 DEF PinInv, Waits
    <3> QED BY <1>4, <3>1 DEF PinInv, LoadHasMemory
  <2> QED BY <2>1, <2>2
<1> QED BY <1>4, <1>5, <1>7, <1>8 DEF PinInv

LEMMA PinsLoadDone ==
  ASSUME CallInv, PinInv, NEW c \in Ctxs, LoadDone(c)
  PROVE  PinInv'
<1>1. PICK e : e = ireq[c].entry
  OBVIOUS
<1>2. /\ ireq[c].stage = "load" /\ ireq' = [ireq EXCEPT ![c] = FreeReq]
      /\ \/ desc' = [desc EXCEPT ![e].pins = @ - 1, ![e].mem = "item"]
         \/ desc' = [desc EXCEPT ![e].pins = @ - 1]
  BY <1>1 DEF LoadDone, Completing, Finish, CallBack
<1>3. e \in Entries /\ Waits(c) /\ c \in Waiting(e) /\ ireq \in [Ctxs -> IReqs]
  BY <1>1, <1>2 DEF PinInv, Waits, Waiting, CallInv, CallsTyped
<1>4. /\ \A d \in Ctxs : d # c => ireq'[d] = ireq[d]
      /\ ireq'[c].stage = "free"
  BY <1>2, <1>3 DEF FreeReq
<1>5. Cardinality(Waiting(e) \ {c}) = desc[e].pins - 1 /\ desc[e].pins - 1 \in Nat
  <2>1. desc[e].pins = Cardinality(Waiting(e))
    BY <1>3 DEF PinInv
  <2>2. /\ Cardinality(Waiting(e) \ {c}) = Cardinality(Waiting(e)) - 1
        /\ IsFiniteSet(Waiting(e) \ {c})
    BY <1>3, WaitingFinite, FS_RemoveElement
  <2>3. Cardinality(Waiting(e) \ {c}) \in Nat
    BY <2>2, FS_CardinalityType
  <2> QED BY <2>1, <2>2, <2>3
<1>6. DescTyped' /\ \A f \in Entries : /\ desc[f].mem # "none" => desc'[f].mem # "none"
                                       /\ f # e => desc'[f].pins = desc[f].pins
                                       /\ f = e => desc'[f].pins = desc[f].pins - 1
  <2>1. desc \in [Entries -> [mem : {"none", "page", "item"}, pins : Nat]]
    BY DEF PinInv, DescTyped
  <2>2. CASE desc' = [desc EXCEPT ![e].pins = @ - 1, ![e].mem = "item"]
    BY <1>3, <1>5, <2>1, <2>2 DEF DescTyped
  <2>3. CASE desc' = [desc EXCEPT ![e].pins = @ - 1]
    BY <1>3, <1>5, <2>1, <2>3 DEF DescTyped
  <2> QED BY <1>2, <2>2, <2>3
<1>7. \A d \in Ctxs : Waits(d)' => d # c /\ Waits(d) /\ ireq'[d] = ireq[d]
  BY <1>4 DEF Waits
<1>8. \A d \in Ctxs : d # c => (Waits(d)' <=> Waits(d)) /\ ireq'[d] = ireq[d]
  BY <1>4 DEF Waits
<1>9. \A f \in Entries : desc'[f].pins = Cardinality(Waiting(f)')
  <2> SUFFICES ASSUME NEW f \in Entries PROVE desc'[f].pins = Cardinality(Waiting(f)')
    OBVIOUS
  <2>1. CASE f = e
    <3>1. Waiting(f)' = Waiting(e) \ {c}
      BY <1>7, <1>8, <2>1 DEF Waiting
    <3> QED BY <1>5, <1>6, <2>1, <3>1
  <2>2. CASE f # e
    <3>1. Waiting(f)' = Waiting(f)
      BY <1>1, <1>7, <1>8, <2>2 DEF Waiting
    <3> QED BY <1>6, <2>2, <3>1 DEF PinInv
  <2> QED BY <2>1, <2>2
<1>10. \A d \in Ctxs : Waits(d)' => ireq'[d].entry \in Entries
  BY <1>7 DEF PinInv
<1>11. LoadHasMemory'
  <2> SUFFICES ASSUME NEW d \in Ctxs, ireq'[d].stage = "load"
               PROVE  desc'[ireq'[d].entry].mem # "none"
    BY DEF LoadHasMemory
  <2>1. Waits(d) /\ ireq'[d] = ireq[d] /\ ireq[d].entry \in Entries
    <3>1. Waits(d)'
      BY DEF Waits
    <3> QED BY <1>7, <3>1 DEF PinInv
  <2> QED BY <1>6, <2>1 DEF PinInv, LoadHasMemory
<1> QED BY <1>6, <1>9, <1>10, <1>11 DEF PinInv

\* The chunk gets its memory, and the wait goes on.
LEMMA PinsChunkReady ==
  ASSUME CallInv, PinInv, NEW c \in Ctxs, ChunkReady(c)
  PROVE  PinInv'
<1>1. PICK e : e = ireq[c].entry
  OBVIOUS
<1>2. /\ ireq[c].stage = "chunk" /\ ireq' = [ireq EXCEPT ![c].stage = "load"]
      /\ desc' = [desc EXCEPT ![e].mem = IF @ = "none" THEN "page" ELSE @]
  BY <1>1 DEF ChunkReady, Completing
<1>3. e \in Entries /\ Waits(c) /\ ireq \in [Ctxs -> IReqs]
  BY <1>1, <1>2 DEF PinInv, Waits, CallInv, CallsTyped
<1>4. /\ \A d \in Ctxs : d # c => ireq'[d] = ireq[d]
      /\ ireq'[c].stage = "load" /\ ireq'[c].entry = e
  BY <1>1, <1>2, <1>3 DEF IReqs
<1>5. DescTyped' /\ \A f \in Entries : /\ desc'[f].pins = desc[f].pins
                                       /\ desc[f].mem # "none" => desc'[f].mem # "none"
                                       /\ f = e => desc'[f].mem # "none"
  BY <1>2, <1>3 DEF PinInv, DescTyped
<1>6. \A d \in Ctxs : /\ Waits(d)' <=> Waits(d)
                      /\ Waits(d) => ireq'[d].entry = ireq[d].entry
  BY <1>1, <1>2, <1>4 DEF Waits
<1>7. \A d \in Ctxs : ireq'[d].stage = "load" =>
                        ireq[d].stage = "load" \/ desc'[ireq'[d].entry].mem # "none"
  BY <1>3, <1>4, <1>5
<1> QED BY <1>5, <1>6, <1>7, FramePins

-----------------------------------------------------------------------------
(* The other steps. *)

\* A request that is processed was queued, so its caller did not wait before.
LEMMA PinsUntouched ==
  ASSUME CallInv, PinInv, NEW c \in Ctxs, ~Waits(c), UNCHANGED desc, NEW r \in IReqs,
         r.stage \notin {"chunk", "load"}, ireq' = [ireq EXCEPT ![c] = r]
  PROVE  PinInv'
<1>1. \A d \in Ctxs : /\ d # c => ireq'[d] = ireq[d]
                      /\ d = c => ireq'[d] = r
  BY DEF CallInv, CallsTyped
<1>2. \A d \in Ctxs : ireq'[d] = ireq[d] \/ (~Waits(d) /\ ~Waits(d)')
  BY <1>1 DEF Waits
<1> QED BY <1>2, FrameDesc

LEMMA PinsFinish ==
  ASSUME CallInv, PinInv, NEW c \in Ctxs, NEW x, ~Waits(c), UNCHANGED desc, Finish(c, x)
  PROVE  PinInv'
<1>1. ireq' = [ireq EXCEPT ![c] = FreeReq]
  BY DEF Finish, CallBack
<1>2. FreeReq \in IReqs /\ FreeReq.stage \notin {"chunk", "load"}
  BY DEF FreeReq, IReqs, Stages
<1> QED BY <1>1, <1>2, PinsUntouched

LEMMA PinsProceed ==
  ASSUME CallInv, PinInv, NEW c \in Ctxs, ~Waits(c), UNCHANGED desc,
         NEW e \in Entries, Proceed(c, e, "modify")
  PROVE  PinInv'
<1> DEFINE r == [ireq[c] EXCEPT !.stage = "modify", !.entry = e]
<1>1. ireq' = [ireq EXCEPT ![c] = r]
  BY DEF Proceed
<1>2. r \in IReqs /\ r.stage = "modify"
  BY DEF CallInv, CallsTyped, IReqs, Stages
<1> HIDE DEF r
<1> QED BY <1>1, <1>2, PinsUntouched

LEMMA QueuedDoNotWait ==
  ASSUME CallInv, NEW c \in Ctxs, NEW op, Processing(c, op)
  PROVE  ~Waits(c) /\ ireq[c].stage = "queued"
  BY HeadOfSubmit DEF Processing, Waits

LEMMA PinsPutNew ==
  ASSUME CallInv, PinInv, NEW c \in Ctxs, NEW e \in Entries, PutNew(c, e)
  PROVE  PinInv'
<1>1. /\ ~Waits(c) /\ ireq[c].stage = "queued" /\ ireq \in [Ctxs -> IReqs]
      /\ desc' = [desc EXCEPT ![e].mem = "item"]
      /\ ireq' = [ireq EXCEPT ![c].stage = "modify", ![c].entry = e]
  BY QueuedDoNotWait DEF PutNew, Proceed, CallInv, CallsTyped
<1>2. DescTyped' /\ \A f \in Entries : /\ desc'[f].pins = desc[f].pins
                                       /\ desc'[f].mem = "none" => desc[f].mem = "none"
  BY <1>1 DEF PinInv, DescTyped
<1>3. /\ \A d \in Ctxs : d # c => ireq'[d] = ireq[d]
      /\ ireq'[c].stage = "modify"
  BY <1>1 DEF IReqs
<1>4. \A d \in Ctxs : /\ Waits(d)' <=> Waits(d)
                      /\ Waits(d) => ireq'[d].entry = ireq[d].entry
                      /\ ireq'[d].stage = "load" => ireq[d].stage = "load"
  BY <1>1, <1>3 DEF Waits
<1> QED BY <1>2, <1>4, FramePins

LEMMA PinsProcess ==
  ASSUME CallInv, PinInv, NEW c \in Ctxs, Process(c)
  PROVE  PinInv'
<1> USE DEF store
<1>1. CASE GetNotExist(c)
  BY <1>1, QueuedDoNotWait, PinsFinish DEF GetNotExist
<1>2. CASE DeleteNotExist(c)
  BY <1>2, QueuedDoNotWait, PinsFinish DEF DeleteNotExist
<1>3. CASE Scan(c)
  BY <1>3, QueuedDoNotWait, PinsFinish DEF Scan
<1>4. ASSUME NEW e \in Entries, GetResubmit(c, e) PROVE PinInv'
  <2> DEFINE r == [ireq[c] EXCEPT !.entry = e, !.no_lookup = @ \/ entry[e].writing]
  <2>1. /\ Processing(c, "GET") /\ UNCHANGED desc /\ ireq' = [ireq EXCEPT ![c] = r]
    BY <1>4 DEF GetResubmit, Getting, Resubmit
  <2>2. ~Waits(c) /\ ireq[c].stage = "queued" /\ ireq[c] \in IReqs
    BY <2>1, QueuedDoNotWait DEF CallInv, CallsTyped
  <2>3. r \in IReqs /\ r.stage = "queued"
    BY <2>2 DEF IReqs
  <2> HIDE DEF r
  <2> QED BY <2>1, <2>2, <2>3, PinsUntouched
<1>5. ASSUME NEW e \in Entries, GetStart(c, e) PROVE PinInv'
  BY <1>5, PinsGetStart
<1>6. ASSUME NEW e \in Entries, GetCached(c, e) PROVE PinInv'
  BY <1>6, QueuedDoNotWait, PinsFinish DEF GetCached, Getting
<1>7. ASSUME NEW e \in Entries, PutNew(c, e) PROVE PinInv'
  BY <1>7, PinsPutNew
<1>8. ASSUME NEW e \in Entries, PutStart(c, e) PROVE PinInv'
  BY <1>8, QueuedDoNotWait, PinsProceed DEF PutStart, Modifying
<1>9. ASSUME NEW e \in Entries, DeleteStart(c, e) PROVE PinInv'
  BY <1>9, QueuedDoNotWait, PinsProceed DEF DeleteStart, Modifying
<1>10. ASSUME NEW e \in Entries, ModifyResubmit(c, e) PROVE PinInv'
  BY <1>10, FrameDesc DEF ModifyResubmit, Resubmit
<1> QED BY <1>1, <1>2, <1>3, <1>4, <1>5, <1>6, <1>7, <1>8, <1>9, <1>10 DEF Process

LEMMA PinsComplete ==
  ASSUME CallInv, PinInv, NEW c \in Ctxs, Complete(c)
  PROVE  PinInv'
<1>1. CASE ChunkReady(c)
  BY <1>1, PinsChunkReady
<1>2. CASE LoadDone(c)
  BY <1>2, PinsLoadDone
<1>3. CASE PutDone(c)
  BY <1>3, PinsFinish DEF PutDone, Completing, Waits
<1>4. CASE DeleteDone(c)
  BY <1>4, PinsFinish DEF DeleteDone, Completing, Waits
<1> QED BY <1>1, <1>2, <1>3, <1>4 DEF Complete

\* The callers named by the ring have no internal request yet.
LEMMA PinsPoll ==
  ASSUME BufInv, CallInv, PinInv, Poll
  PROVE  PinInv'
<1>1. CASE PollStart \/ PollDequeue \/ PollRefill \/ PollEnd
  <2>1. UNCHANGED <<desc, ireq>>
    BY <1>1 DEF PollStart, PollDequeue, PollRefill, PollEnd, store
  <2> QED BY <2>1, FrameDesc
<1>2. CASE PollWrap
  <2>1. PICK new : new = [i \in 1 .. Len(req_array) |-> buf[req_array[i]]]
    OBVIOUS
  <2>2. /\ pc = "wrap" /\ UNCHANGED desc
        /\ ireq' = [c \in Ctxs |-> IF c \in ToSet(new) THEN [FreeReq EXCEPT !.stage = "queued"]
                                                       ELSE ireq[c]]
    BY <1>2, <2>1 DEF PollWrap, store
  <2>3. /\ Len(req_array) \in Nat
        /\ \A i \in 1 .. Len(req_array) : req_array[i] \in PublishedBufs
    BY <2>2, LenProperties, ElemsOf DEF BufInv, RingsTyped, PublishedBufs
  <2>4. \A i \in 1 .. Len(req_array) : ireq[new[i]].stage = "free"
    BY <2>1, <2>3 DEF CallInv, CallsApart, BufsName
  <2>5. \A c \in ToSet(new) : ireq[c].stage = "free"
    BY <2>1, <2>3, <2>4 DEF ToSet
  <2>6. \A c \in Ctxs : ireq'[c] = ireq[c] \/ (~Waits(c) /\ ~Waits(c)')
    BY <2>2, <2>5 DEF Waits, FreeReq
  <2> QED BY <2>2, <2>6, FrameDesc
<1> QED BY <1>1, <1>2 DEF Poll

LEMMA PinsEvict ==
  ASSUME PinInv, NEW e \in Entries, Evict(e)
  PROVE  PinInv'
<1>1. /\ desc[e].pins = 0 /\ desc' = [desc EXCEPT ![e].mem = "none"]
      /\ UNCHANGED ireq
  BY DEF Evict
<1>2. DescTyped' /\ \A f \in Entries :
        /\ desc'[f].pins = desc[f].pins
        /\ desc'[f].mem = "none" => desc[f].mem = "none" \/ desc[f].pins = 0
  BY <1>1 DEF PinInv, DescTyped
<1>3. \A c \in Ctxs : Waits(c)' <=> Waits(c)
  BY <1>1 DEF Waits
<1> QED BY <1>1, <1>2, <1>3, FramePins

LEMMA PinInvStep == WorkInv /\ PinInv /\ [Next]_vars => PinInv'
<1> SUFFICES ASSUME WorkInv, PinInv, [Next]_vars PROVE PinInv'
  OBVIOUS
<1>1. BufInv /\ CallInv
  BY DEF WorkInv, CountInv
<1>2. CASE UNCHANGED <<ireq, desc>>
  BY <1>2, FrameDesc
<1>3. CASE UNCHANGED vars
  BY <1>2, <1>3 DEF vars, store
<1>4. CASE Poll
  BY <1>1, <1>4, PinsPoll
<1>5. ASSUME NEW c \in Ctxs, GetFreeReqBuffer(c) \/ Enqueue(c) \/ UseFreedEntry(c)
      PROVE  PinInv'
  BY <1>2, <1>5 DEF GetFreeReqBuffer, Enqueue, UseFreedEntry, store
<1>6. ASSUME NEW c \in Ctxs, Process(c) \/ Complete(c) PROVE PinInv'
  BY <1>1, <1>6, PinsProcess, PinsComplete
<1>7. ASSUME NEW e \in Entries, Evict(e) PROVE PinInv'
  BY <1>7, PinsEvict
<1> QED BY <1>3, <1>4, <1>5, <1>6, <1>7 DEF Next

LEMMA PinsInvariant == Spec => [](WorkInv /\ PinInv)
<1> QED BY WorkInvInit, WorkInvStep, PinInvInit, PinInvStep, PTL DEF Spec

\* The pins of a chunk are the GETs that wait for it or load from it, for any
\* number of GETs of one key: each takes one when it starts and gives it back
\* whether its load succeeds or fails, so that no chunk stays in memory for ever
\* and none is let go of under a GET.
THEOREM WorkerPinsCountGets == Spec => []PinsCountGets
<1>1. PinInv => PinsCountGets
  BY DEF PinInv, PinsCountGets, Waiting, Waits
<1> QED BY <1>1, PinsInvariant, PTL

\* No load writes to memory the chunk manager has taken back: it evicts chunks with
\* no pin only, and a GET that loads keeps its pin.
THEOREM WorkerLoadHasMemory == Spec => []LoadHasMemory
<1>1. PinInv => LoadHasMemory
  BY DEF PinInv
<1> QED BY <1>1, PinsInvariant, PTL

-----------------------------------------------------------------------------
(* Types.  The numbers are the point: pins, nb_frees and process_size are   *)
(* unsigned in the code and never go below zero.                            *)

Flags == [live : BOOLEAN, getting : BOOLEAN, writing : BOOLEAN, deleting : BOOLEAN]

RestTyped ==
  /\ res \in [Ctxs -> Answers \cup {NULL}]
  /\ pc \in {"idle", "dequeue", "wrap", "refill", "process", "undefined"}
  /\ process_size \in Nat /\ nb_frees \in Nat
  /\ index \in [Keys -> Entries \cup {NULL}]
  /\ entry \in [Entries -> Flags]

LEMMA RestTypedInit == Init => RestTyped
<1>1. NReqs \in Nat
  BY WorkerAssumption, FS_CardinalityType DEF NReqs
<1> QED BY <1>1 DEF Init, RestTyped, Flags

\* What the steps do to the flags of an entry.
LEMMA FlagsTyped ==
  ASSUME RestTyped, NEW e, NEW b \in BOOLEAN,
         \/ entry' = [entry EXCEPT ![e].getting = b]
         \/ entry' = [entry EXCEPT ![e].writing = b]
         \/ entry' = [entry EXCEPT ![e].deleting = b]
         \/ entry' = [entry EXCEPT ![e].live = b, ![e].deleting = b]
  PROVE  entry' \in [Entries -> Flags]
<1>1. entry \in [Entries -> Flags]
  BY DEF RestTyped
<1>2. CASE entry' = [entry EXCEPT ![e].getting = b]
  BY <1>1, <1>2 DEF Flags
<1>3. CASE entry' = [entry EXCEPT ![e].writing = b]
  BY <1>1, <1>3 DEF Flags
<1>4. CASE entry' = [entry EXCEPT ![e].deleting = b]
  BY <1>1, <1>4 DEF Flags
<1>5. CASE entry' = [entry EXCEPT ![e].live = b, ![e].deleting = b]
  BY <1>1, <1>5 DEF Flags
<1> QED BY <1>2, <1>3, <1>4, <1>5

\* The wrap takes no more objects than the poll counted.
LEMMA RestTypedPoll ==
  ASSUME WorkInv, RestTyped, Poll
  PROVE  RestTyped'
<1>1. UNCHANGED <<res, index, entry>>
  BY DEF Poll, PollStart, PollDequeue, PollWrap, PollRefill, PollEnd, callers, store
<1>2. pc' \in {"idle", "dequeue", "wrap", "refill", "process"}
  BY DEF Poll, PollStart, PollDequeue, PollWrap, PollRefill, PollEnd
<1>3. process_size' \in Nat /\ nb_frees' \in Nat
  <2>1. CASE PollStart
    <3>1. Len(req_used_ring) \in Nat /\ nb_frees \in Nat
      BY LenProperties DEF WorkInv, CountInv, BufInv, RingsTyped, RestTyped
    <3>2. a_ios \in Nat
      <4>1. IsFiniteSet({c \in Ctxs : ireq[c].stage \in {"load", "modify"}})
        BY CallersFinite
      <4>2. nb_pending_io \in Nat
        BY <4>1, FS_CardinalityType DEF nb_pending_io
      <4> QED BY <4>2, WorkerAssumption DEF a_ios
    <3> QED BY <2>1, <3>1, <3>2 DEF PollStart, Least
  <2>2. CASE PollWrap
    <3>1. pc = "wrap" /\ nb_frees' = nb_frees - Len(req_array) /\ UNCHANGED process_size
      BY <2>2 DEF PollWrap, poll
    <3>2. /\ Len(req_array) = process_size /\ nb_frees >= process_size
          /\ process_size \in Nat /\ nb_frees \in Nat
      BY <3>1 DEF WorkInv, CountInv, CountsStillHold, RestTyped
    <3> QED BY <3>1, <3>2
  <2>3. CASE PollDequeue \/ PollRefill \/ PollEnd
    BY <2>3 DEF PollDequeue, PollRefill, PollEnd, poll, RestTyped
  <2> QED BY <2>1, <2>2, <2>3 DEF Poll
<1> QED BY <1>1, <1>2, <1>3 DEF RestTyped

LEMMA RestTypedProcess ==
  ASSUME RestTyped, NEW c \in Ctxs, Process(c)
  PROVE  RestTyped'
<1> USE DEF RestTyped, Processing, Finish, CallBack, Resubmit, Proceed, Getting, Modifying,
            Answers, poll, store
<1>1. CASE GetNotExist(c)
  BY <1>1 DEF GetNotExist
<1>2. CASE DeleteNotExist(c)
  BY <1>2 DEF DeleteNotExist
<1>3. CASE Scan(c)
  BY <1>3 DEF Scan
<1>4. ASSUME NEW e \in Entries, GetResubmit(c, e) PROVE RestTyped'
  BY <1>4 DEF GetResubmit
<1>5. ASSUME NEW e \in Entries, GetStart(c, e) PROVE RestTyped'
  BY <1>5, FlagsTyped DEF GetStart
<1>6. ASSUME NEW e \in Entries, GetCached(c, e) PROVE RestTyped'
  <2>1. entry' \in [Entries -> Flags]
    BY <1>6, FlagsTyped DEF GetCached
  <2>2. /\ UNCHANGED <<pc, process_size, index>> /\ nb_frees' = nb_frees + 1
        /\ res' = [res EXCEPT ![c] = "success"]
    BY <1>6 DEF GetCached
  <2> QED BY <2>1, <2>2
<1>7. ASSUME NEW e \in Entries, PutNew(c, e) PROVE RestTyped'
  BY <1>7 DEF PutNew, Flags
<1>8. ASSUME NEW e \in Entries, PutStart(c, e) PROVE RestTyped'
  <2>1. entry' \in [Entries -> Flags]
    <3>1. entry' = [entry EXCEPT ![e].writing = TRUE]
      BY <1>8 DEF PutStart
    <3> QED BY <3>1, FlagsTyped
  <2> QED BY <1>8, <2>1 DEF PutStart
<1>9. ASSUME NEW e \in Entries, DeleteStart(c, e) PROVE RestTyped'
  BY <1>9, FlagsTyped DEF DeleteStart
<1>10. ASSUME NEW e \in Entries, ModifyResubmit(c, e) PROVE RestTyped'
  BY <1>10 DEF ModifyResubmit
<1> QED BY <1>1, <1>2, <1>3, <1>4, <1>5, <1>6, <1>7, <1>8, <1>9, <1>10 DEF Process

LEMMA RestTypedComplete ==
  ASSUME RestTyped, NEW c \in Ctxs, Complete(c)
  PROVE  RestTyped'
<1> USE DEF Completing, Finish, CallBack, poll
<1>1. nb_frees \in Nat /\ nb_frees + 1 \in Nat
  BY DEF RestTyped
<1>2. \A x \in Answers : [res EXCEPT ![c] = x] \in [Ctxs -> Answers \cup {NULL}]
  BY DEF RestTyped
<1>3. CASE ChunkReady(c)
  BY <1>3 DEF ChunkReady, RestTyped
<1>4. CASE LoadDone(c)
  <2>1. entry' \in [Entries -> Flags]
    BY <1>4, FlagsTyped DEF LoadDone
  <2>2. PICK x \in Answers : Completing(c, "load") /\ Finish(c, x) /\ UNCHANGED index
    BY <1>4 DEF LoadDone, Answers
  <2> QED BY <1>1, <1>2, <2>1, <2>2 DEF RestTyped
<1>5. CASE PutDone(c)
  <2>1. entry' \in [Entries -> Flags]
    BY <1>5, FlagsTyped DEF PutDone
  <2>2. /\ Completing(c, "modify") /\ Finish(c, "success") /\ UNCHANGED index
        /\ "success" \in Answers
    BY <1>5 DEF PutDone, Answers
  <2> QED BY <1>1, <1>2, <2>1, <2>2 DEF RestTyped
<1>6. CASE DeleteDone(c)
  <2>1. entry' \in [Entries -> Flags]
    BY <1>6, FlagsTyped DEF DeleteDone
  <2>2. /\ Completing(c, "modify") /\ Finish(c, "success") /\ "success" \in Answers
        /\ index' = [index EXCEPT ![call[c].key] = NULL]
    BY <1>6 DEF DeleteDone, Answers
  <2>3. index' \in [Keys -> Entries \cup {NULL}]
    BY <2>2 DEF RestTyped
  <2> QED BY <1>1, <1>2, <2>1, <2>2, <2>3 DEF RestTyped
<1> QED BY <1>3, <1>4, <1>5, <1>6 DEF Complete

LEMMA RestTypedStep == WorkInv /\ RestTyped /\ [Next]_vars => RestTyped'
<1> SUFFICES ASSUME WorkInv, RestTyped, [Next]_vars PROVE RestTyped'
  OBVIOUS
<1>1. CASE UNCHANGED vars
  BY <1>1 DEF vars, callers, poll, store, RestTyped
<1>2. CASE Poll
  BY <1>2, RestTypedPoll
<1>3. ASSUME NEW c \in Ctxs, Process(c) \/ Complete(c) PROVE RestTyped'
  BY <1>3, RestTypedProcess, RestTypedComplete
<1>4. ASSUME NEW c \in Ctxs, GetFreeReqBuffer(c) PROVE RestTyped'
  BY <1>4 DEF GetFreeReqBuffer, poll, store, RestTyped
<1>5. ASSUME NEW c \in Ctxs, Enqueue(c) PROVE RestTyped'
  BY <1>5 DEF Enqueue, poll, store, RestTyped
<1>6. ASSUME NEW c \in Ctxs, UseFreedEntry(c) PROVE RestTyped'
  BY <1>6 DEF UseFreedEntry, callers, poll, store, RestTyped
<1>7. ASSUME NEW e \in Entries, Evict(e) PROVE RestTyped'
  BY <1>7 DEF Evict, callers, poll, RestTyped
<1> QED BY <1>1, <1>2, <1>3, <1>4, <1>5, <1>6, <1>7 DEF Next

\* Every variable keeps its type; the unsigned counters of the code (the pins of a
\* chunk, nb_frees, the size of a batch) never go below zero, and nb_frees never
\* above the size of the pool, whatever the numbers of threads and buffers.
THEOREM WorkerTypes == Spec => []TypeOK
<1>1. RestTyped /\ WorkInv /\ PinInv => TypeOK
  <2> SUFFICES ASSUME RestTyped, WorkInv, PinInv PROVE TypeOK
    OBVIOUS
  <2>1. nb_frees \in 0 .. NReqs
    <3>1. NReqs \in Nat /\ Cardinality(Used) \in Nat
      BY CallersFinite, WorkerAssumption, FS_CardinalityType DEF NReqs, Used
    <3>2. nb_frees = NReqs - Cardinality(Used) /\ nb_frees \in Nat
      BY DEF RestTyped, WorkInv, CallInv, PoolConserved, Used
    <3> QED BY <3>1, <3>2
  <2> QED BY <2>1 DEF TypeOK, RestTyped, WorkInv, CountInv, BufInv, RingsTyped, CallInv,
                      CallsTyped, IReqs, PinInv, DescTyped, Flags
<1>2. Spec => []RestTyped
  BY RestTypedInit, RestTypedStep, WorkInvInit, WorkInvStep, PTL DEF Spec
<1> QED BY <1>1, <1>2, PinsInvariant, PTL

-----------------------------------------------------------------------------
(* The order of a queue, and what each operation on it does to the order.  *)

LEMMA PrecedesConcat ==
  ASSUME NEW S, NEW s \in Seq(S), NEW t \in Seq(S), NEW c, NEW d
  PROVE  Precedes(s \o t, c, d) <=> \/ Precedes(s, c, d) \/ Precedes(t, c, d)
                                    \/ c \in ToSet(s) /\ d \in ToSet(t)
<1> DEFINE st == s \o t
<1>1. /\ Len(s) \in Nat /\ Len(t) \in Nat
      /\ DOMAIN s = 1 .. Len(s) /\ DOMAIN t = 1 .. Len(t)
      /\ DOMAIN st = 1 .. Len(s) + Len(t)
      /\ \A i \in 1 .. Len(s) + Len(t) : st[i] = IF i <= Len(s) THEN s[i] ELSE t[i - Len(s)]
  BY LenProperties, ConcatProperties
<1>2. /\ \A i \in 1 .. Len(s) : i \in DOMAIN st /\ st[i] = s[i]
      /\ \A i \in 1 .. Len(t) : i + Len(s) \in DOMAIN st /\ st[i + Len(s)] = t[i]
  <2>1. \A i \in 1 .. Len(s) : i \in DOMAIN st /\ st[i] = s[i]
    BY <1>1
  <2>2. \A i \in 1 .. Len(t) : /\ i + Len(s) \in 1 .. Len(s) + Len(t)
                               /\ ~(i + Len(s) <= Len(s)) /\ i + Len(s) - Len(s) = i
    BY <1>1
  <2>3. \A i \in 1 .. Len(t) : i + Len(s) \in DOMAIN st /\ st[i + Len(s)] = t[i]
    BY <1>1, <2>2
  <2> QED BY <2>1, <2>3
<1>3. \A i \in DOMAIN st : \/ i \in 1 .. Len(s) /\ st[i] = s[i]
                           \/ i > Len(s) /\ i - Len(s) \in 1 .. Len(t) /\ st[i] = t[i - Len(s)]
  BY <1>1
<1> HIDE DEF st
<1>4. ASSUME Precedes(st, c, d)
      PROVE  Precedes(s, c, d) \/ Precedes(t, c, d) \/ (c \in ToSet(s) /\ d \in ToSet(t))
  <2>1. PICK i \in DOMAIN st, j \in DOMAIN st : i < j /\ st[i] = c /\ st[j] = d
    BY <1>4 DEF Precedes
  <2>2. CASE i \in 1 .. Len(s) /\ j \in 1 .. Len(s)
    BY <1>1, <1>2, <2>1, <2>2 DEF Precedes
  <2>3. CASE i \in 1 .. Len(s) /\ j > Len(s)
    BY <1>1, <1>3, <2>1, <2>3 DEF ToSet
  <2>4. CASE i > Len(s)
    <3>1. /\ i - Len(s) \in DOMAIN t /\ j - Len(s) \in DOMAIN t /\ i - Len(s) < j - Len(s)
          /\ t[i - Len(s)] = c /\ t[j - Len(s)] = d
      BY <1>1, <1>3, <2>1, <2>4
    <3> QED BY <3>1 DEF Precedes
  <2> QED BY <1>1, <1>3, <2>1, <2>2, <2>3, <2>4
<1>5. ASSUME Precedes(s, c, d) PROVE Precedes(st, c, d)
  BY <1>1, <1>2, <1>5 DEF Precedes
<1>6. ASSUME Precedes(t, c, d) PROVE Precedes(st, c, d)
  <2>1. PICK i \in DOMAIN t, j \in DOMAIN t : i < j /\ t[i] = c /\ t[j] = d
    BY <1>6 DEF Precedes
  <2>2. i + Len(s) < j + Len(s)
    BY <1>1, <2>1
  <2> QED BY <1>1, <1>2, <2>1, <2>2 DEF Precedes
<1>7. ASSUME c \in ToSet(s), d \in ToSet(t) PROVE Precedes(st, c, d)
  <2>1. PICK i \in 1 .. Len(s), j \in 1 .. Len(t) : s[i] = c /\ t[j] = d
    BY <1>1, <1>7 DEF ToSet
  <2>2. i < j + Len(s)
    BY <1>1
  <2> QED BY <1>1, <1>2, <2>1, <2>2 DEF Precedes
<1> QED BY <1>4, <1>5, <1>6, <1>7 DEF st

LEMMA PrecedesOne ==
  ASSUME NEW x, NEW c, NEW d
  PROVE  ~Precedes(<<x>>, c, d)
  BY DEF Precedes

LEMMA PrecedesElems ==
  ASSUME NEW S, NEW s \in Seq(S), NEW c, NEW d, Precedes(s, c, d)
  PROVE  c \in ToSet(s) /\ d \in ToSet(s)
  BY DEF Precedes, ToSet

LEMMA PrecedesTail ==
  ASSUME NEW S, NEW s \in Seq(S), s # << >>, NEW c, NEW d
  PROVE  Precedes(s, c, d) <=> \/ Precedes(Tail(s), c, d)
                               \/ c = Head(s) /\ d \in ToSet(Tail(s))
<1>1. Head(s) \in S /\ Tail(s) \in Seq(S) /\ <<Head(s)>> \in Seq(S)
  BY ElemsHeadTail
<1>2. s = <<Head(s)>> \o Tail(s)
  BY <1>1, EmptySeq, HeadTailProperties, SubSeqFull, SubSeqRecursiveFirst, TailIsSubSeq
<1>3. Precedes(<<Head(s)>> \o Tail(s), c, d)
        <=> \/ Precedes(<<Head(s)>>, c, d) \/ Precedes(Tail(s), c, d)
            \/ c \in ToSet(<<Head(s)>>) /\ d \in ToSet(Tail(s))
  BY <1>1, PrecedesConcat
<1>4. ToSet(<<Head(s)>>) = {Head(s)}
  BY ElemsSingleton
<1> QED BY <1>2, <1>3, <1>4, PrecedesOne

LEMMA PrecedesAppend ==
  ASSUME NEW S, NEW s \in Seq(S), NEW x \in S, NEW c, NEW d
  PROVE  Precedes(Append(s, x), c, d) <=> \/ Precedes(s, c, d)
                                          \/ c \in ToSet(s) /\ d = x
<1>1. Append(s, x) = s \o <<x>> /\ <<x>> \in Seq(S)
  BY AppendIsConcat
<1>2. Precedes(s \o <<x>>, c, d) <=> \/ Precedes(s, c, d) \/ Precedes(<<x>>, c, d)
                                     \/ c \in ToSet(s) /\ d \in ToSet(<<x>>)
  BY <1>1, PrecedesConcat
<1>3. ToSet(<<x>>) = {x}
  BY ElemsSingleton
<1> QED BY <1>1, <1>2, <1>3, PrecedesOne

\* No element comes before one that comes before it.
LEMMA PrecedesOneWay ==
  ASSUME NEW S, NEW s \in Seq(S), IsInjective(s), NEW c, NEW d, Precedes(s, c, d)
  PROVE  ~Precedes(s, d, c)
<1>1. DOMAIN s = 1 .. Len(s) /\ Len(s) \in Nat
  BY LenProperties
<1> QED BY <1>1 DEF Precedes, IsInjective

-----------------------------------------------------------------------------
(* The callers that wait to be processed, in their order.                  *)

Named(p, names) == [i \in DOMAIN p |-> names[p[i]]]
NamesIn(p, names, T) == \A b \in ToSet(p) : names[b] \in T

LEMMA NamedTyped ==
  ASSUME NEW S, NEW T, NEW p \in Seq(S), NEW names,
         NamesIn(p, names, T)
  PROVE  /\ Named(p, names) \in Seq(T) /\ Len(Named(p, names)) = Len(p)
         /\ \A i \in 1 .. Len(p) : Named(p, names)[i] = names[p[i]]
<1>1. Len(p) \in Nat /\ DOMAIN p = 1 .. Len(p) /\ \A i \in 1 .. Len(p) : p[i] \in ToSet(p)
  BY LenProperties DEF ToSet
<1>2. Named(p, names) \in [1 .. Len(p) -> T]
  BY <1>1 DEF Named, NamesIn
<1>3. Named(p, names) \in Seq(T)
  BY <1>1, <1>2, SeqDef
<1>4. Len(Named(p, names)) = Len(p)
  BY <1>1, <1>2, <1>3, LenProperties
<1> QED BY <1>1, <1>3, <1>4 DEF Named

LEMMA NamedConcat ==
  ASSUME NEW p \in Seq(Bufs), NEW q \in Seq(Bufs), NEW names,
         NamesIn(p, names, Ctxs), NamesIn(q, names, Ctxs)
  PROVE  Named(p \o q, names) = Named(p, names) \o Named(q, names)
<1>1. /\ Named(p, names) \in Seq(Ctxs) /\ Len(Named(p, names)) = Len(p)
      /\ \A i \in 1 .. Len(p) : Named(p, names)[i] = names[p[i]]
  BY NamedTyped
<1>2. /\ Named(q, names) \in Seq(Ctxs) /\ Len(Named(q, names)) = Len(q)
      /\ \A i \in 1 .. Len(q) : Named(q, names)[i] = names[q[i]]
  BY NamedTyped
<1>3. p \o q \in Seq(Bufs) /\ ToSet(p \o q) = ToSet(p) \cup ToSet(q)
  BY ElemsConcat, ConcatProperties
<1>4. /\ Named(p \o q, names) \in Seq(Ctxs) /\ Len(Named(p \o q, names)) = Len(p \o q)
      /\ \A i \in 1 .. Len(p \o q) : Named(p \o q, names)[i] = names[(p \o q)[i]]
  <2>1. PICK pq : pq = p \o q
    OBVIOUS
  <2>2. pq \in Seq(Bufs) /\ NamesIn(pq, names, Ctxs)
    BY <1>3, <2>1 DEF NamesIn
  <2>3. /\ Named(pq, names) \in Seq(Ctxs) /\ Len(Named(pq, names)) = Len(pq)
        /\ \A i \in 1 .. Len(pq) : Named(pq, names)[i] = names[pq[i]]
    BY <2>2, NamedTyped
  <2> QED BY <2>1, <2>3
<1>5. /\ Len(p) \in Nat /\ Len(q) \in Nat /\ Len(p \o q) = Len(p) + Len(q)
      /\ \A i \in 1 .. Len(p) + Len(q) :
           (p \o q)[i] = IF i <= Len(p) THEN p[i] ELSE q[i - Len(p)]
  BY LenProperties, ConcatProperties
<1>6. PICK a, b, ab : /\ a = Named(p, names) /\ b = Named(q, names)
                      /\ ab = Named(p \o q, names)
  OBVIOUS
<1>7. /\ a \o b \in Seq(Ctxs) /\ Len(a \o b) = Len(p) + Len(q)
      /\ \A i \in 1 .. Len(p) + Len(q) :
           (a \o b)[i] = IF i <= Len(p) THEN a[i] ELSE b[i - Len(p)]
  <2>1. a \in Seq(Ctxs) /\ b \in Seq(Ctxs) /\ Len(a) = Len(p) /\ Len(b) = Len(q)
    BY <1>1, <1>2, <1>6
  <2>2. /\ a \o b \in Seq(Ctxs) /\ Len(a \o b) = Len(a) + Len(b)
        /\ \A i \in 1 .. Len(a) + Len(b) :
             (a \o b)[i] = IF i <= Len(a) THEN a[i] ELSE b[i - Len(a)]
    BY <2>1, ConcatProperties
  <2> QED BY <2>1, <2>2
<1>8. \A i \in 1 .. Len(p) + Len(q) : ab[i] = (a \o b)[i]
  <2>1. ASSUME NEW i \in 1 .. Len(p) + Len(q), i <= Len(p) PROVE ab[i] = (a \o b)[i]
    <3>1. i \in 1 .. Len(p)
      BY <1>5, <2>1
    <3>2. (p \o q)[i] = p[i] /\ (a \o b)[i] = a[i]
      BY <1>5, <1>7, <2>1
    <3> QED BY <1>1, <1>4, <1>5, <1>6, <3>1, <3>2
  <2>2. ASSUME NEW i \in 1 .. Len(p) + Len(q), ~(i <= Len(p)) PROVE ab[i] = (a \o b)[i]
    <3>1. i - Len(p) \in 1 .. Len(q)
      BY <1>5, <2>2
    <3>2. (p \o q)[i] = q[i - Len(p)] /\ (a \o b)[i] = b[i - Len(p)]
      BY <1>5, <1>7, <2>2
    <3> QED BY <1>2, <1>4, <1>5, <1>6, <3>1, <3>2
  <2> QED BY <2>1, <2>2
<1>9. ab = a \o b
  <2>1. Len(ab) = Len(a \o b) /\ ab \in Seq(Ctxs)
    BY <1>4, <1>5, <1>6, <1>7
  <2>2. \A i \in 1 .. Len(ab) : ab[i] = (a \o b)[i]
    BY <1>5, <1>6, <1>4, <1>8
  <2> QED BY <1>7, <2>1, <2>2, SeqEqual
<1> QED BY <1>6, <1>9

Line == submit \o Ringed

\* Requests that are retried are GET, PUT or DELETE: a scan is answered at once.
RetryInv == \A c \in ToSet(resubmit) : call[c].op # "SCAN"

LEMMA LineTyped ==
  ASSUME BufInv, CallInv
  PROVE  /\ Published \in Seq(Bufs) /\ ToSet(Published) = PublishedBufs
         /\ Ringed = Named(Published, buf)
         /\ submit \in Seq(Ctxs) /\ Ringed \in Seq(Ctxs) /\ Line \in Seq(Ctxs)
         /\ IsInjective(Line)
         /\ ToSet(Line) = ToSet(submit) \cup ToSet(Ringed)
         /\ \A c \in ToSet(Line) : /\ c \in Ctxs /\ call[c] # NULL
                                   /\ ireq[c].stage \in {"free", "queued"}
                                   /\ c \notin ToSet(resubmit)
<1>1. /\ Published \in Seq(Bufs) /\ IsInjective(Published) /\ ToSet(Published) = PublishedBufs
  BY PublishedIs
<1>2. BufsName /\ QueuesApart /\ CallsCarried /\ CallsTyped
  BY DEF CallInv, CallsApart
<1>3. Ringed = Named(Published, buf)
  BY DEF Ringed, Named
<1>4. /\ Ringed \in Seq(Ctxs) /\ Len(Ringed) = Len(Published)
      /\ \A i \in 1 .. Len(Published) : Ringed[i] = buf[Published[i]]
  <2>1. \A b \in ToSet(Published) : buf[b] \in Ctxs
    BY <1>1, <1>2 DEF BufsName
  <2>2. PICK p : p = Published
    OBVIOUS
  <2>3. p \in Seq(Bufs) /\ NamesIn(p, buf, Ctxs)
    BY <1>1, <2>1, <2>2 DEF NamesIn
  <2>4. /\ Named(p, buf) \in Seq(Ctxs) /\ Len(Named(p, buf)) = Len(p)
        /\ \A i \in 1 .. Len(p) : Named(p, buf)[i] = buf[p[i]]
    BY <2>3, NamedTyped
  <2> QED BY <1>3, <2>2, <2>4
<1>5. /\ Len(Published) \in Nat /\ \A i \in 1 .. Len(Published) : Published[i] \in PublishedBufs
      /\ DOMAIN Ringed = 1 .. Len(Published) /\ DOMAIN Published = 1 .. Len(Published)
  BY <1>1, <1>4, LenProperties, ElemsOf
<1>6. IsInjective(Ringed)
  <2>1. \A i, j \in 1 .. Len(Published) : Ringed[i] = Ringed[j] => i = j
    BY <1>1, <1>2, <1>4, <1>5 DEF BufsName, IsInjective
  <2> QED BY <1>5, <2>1 DEF IsInjective
<1>7. \A c \in ToSet(Ringed) : c \in Ctxs /\ call[c] # NULL /\ ireq[c].stage = "free"
  <2>1. ASSUME NEW c \in ToSet(Ringed) PROVE \E b \in PublishedBufs : c = buf[b]
    BY <1>4, <1>5 DEF ToSet
  <2> QED BY <1>2, <2>1 DEF BufsName
<1>8. /\ submit \in Seq(Ctxs) /\ resubmit \in Seq(Ctxs) /\ IsInjective(submit)
      /\ ToSet(submit) \subseteq Queued /\ ToSet(resubmit) \subseteq Queued
      /\ ToSet(submit) \cap ToSet(resubmit) = {}
  BY <1>2 DEF CallsTyped, QueuesApart
<1>9. \A c \in ToSet(submit) : c \in Ctxs /\ call[c] # NULL /\ ireq[c].stage = "queued"
  BY <1>2, <1>8 DEF Queued, Used, CallsCarried
<1>10. ToSet(submit) \cap ToSet(Ringed) = {} /\ ToSet(resubmit) \cap ToSet(Ringed) = {}
  BY <1>7, <1>8 DEF Queued
<1>11. /\ Line \in Seq(Ctxs) /\ ToSet(Line) = ToSet(submit) \cup ToSet(Ringed)
       /\ IsInjective(Line)
  BY <1>4, <1>6, <1>8, <1>10, ElemsConcat, DistinctConcat, ConcatProperties DEF Line
<1> QED BY <1>1, <1>3, <1>4, <1>7, <1>8, <1>9, <1>10, <1>11

-----------------------------------------------------------------------------
(* The steps, as what they do to the line.                                 *)

ScanStep(c, d) ==
  /\ ScanBefore(c, d) => ScanBefore(c, d)' \/ (call'[c] = NULL /\ call'[d] # NULL)
  /\ ScanBefore(c, d)' => ScanBefore(c, d) \/ call[d] = NULL

ScanSteps == \A c, d \in Ctxs : ScanStep(c, d)

LEMMA LineKept ==
  ASSUME BufInv, CallInv, Line' = Line, \A c \in ToSet(Line) : call'[c] = call[c]
  PROVE  ScanSteps
<1> SUFFICES ASSUME NEW c \in Ctxs, NEW d \in Ctxs PROVE ScanStep(c, d)
  BY DEF ScanSteps
<1>1. PICK l : l = Line
  OBVIOUS
<1>2. l \in Seq(Ctxs) /\ Line' = l
  BY <1>1, LineTyped
<1>3. Precedes(l, c, d) => call'[c] = call[c] /\ call'[d] = call[d]
  BY <1>1, <1>2, PrecedesElems
<1> QED BY <1>1, <1>2, <1>3 DEF ScanStep, ScanBefore, Line

LEMMA LineGrows ==
  ASSUME BufInv, CallInv, NEW x \in Ctxs, Line' = Append(Line, x), call[x] = NULL,
         \A c \in Ctxs \ {x} : call'[c] = call[c]
  PROVE  ScanSteps
<1> SUFFICES ASSUME NEW c \in Ctxs, NEW d \in Ctxs PROVE ScanStep(c, d)
  BY DEF ScanSteps
<1>1. PICK l : l = Line
  OBVIOUS
<1>2. l \in Seq(Ctxs) /\ Line' = Append(l, x) /\ \A y \in ToSet(l) : call[y] # NULL
  BY <1>1, LineTyped
<1>3. Precedes(l, c, d) => c # x /\ d # x
  BY <1>2, PrecedesElems
<1>4. Precedes(Append(l, x), c, d) <=> Precedes(l, c, d) \/ (c \in ToSet(l) /\ d = x)
  BY <1>2, PrecedesAppend
<1> QED BY <1>1, <1>2, <1>3, <1>4 DEF ScanStep, ScanBefore, Line

LEMMA LineShrinks ==
  ASSUME BufInv, CallInv, Line # << >>, Line' = Tail(Line),
         call[Head(Line)].op = "SCAN" => call'[Head(Line)] = NULL,
         \A c \in Ctxs \ {Head(Line)} : call'[c] = call[c]
  PROVE  ScanSteps
<1> SUFFICES ASSUME NEW c \in Ctxs, NEW d \in Ctxs PROVE ScanStep(c, d)
  BY DEF ScanSteps
<1>1. PICK l, h : l = Line /\ h = Head(l)
  OBVIOUS
<1>2. l \in Seq(Ctxs) /\ l # << >> /\ IsInjective(l) /\ Line' = Tail(l)
  BY <1>1, LineTyped
<1>3. Tail(l) \in Seq(Ctxs) /\ h \notin ToSet(Tail(l))
  BY <1>1, <1>2, ElemsHeadTail
<1>4. Precedes(l, c, d) <=> Precedes(Tail(l), c, d) \/ (c = h /\ d \in ToSet(Tail(l)))
  BY <1>1, <1>2, PrecedesTail
<1>5. Precedes(Tail(l), c, d) => c \in ToSet(Tail(l)) /\ d \in ToSet(Tail(l))
  BY <1>3, PrecedesElems
<1>6. /\ call[h].op = "SCAN" => call'[h] = NULL
      /\ \A y \in Ctxs \ {h} : call'[y] = call[y]
  BY <1>1
<1> QED BY <1>1, <1>2, <1>3, <1>4, <1>5, <1>6 DEF ScanStep, ScanBefore, Line

LEMMA LineFronted ==
  ASSUME BufInv, CallInv, NEW p \in Seq(Ctxs), Line' = p \o Line,
         \A c \in ToSet(p) : call[c].op # "SCAN", UNCHANGED call
  PROVE  ScanSteps
<1> SUFFICES ASSUME NEW c \in Ctxs, NEW d \in Ctxs PROVE ScanStep(c, d)
  BY DEF ScanSteps
<1>1. PICK l : l = Line
  OBVIOUS
<1>2. l \in Seq(Ctxs) /\ Line' = p \o l
  BY <1>1, LineTyped
<1>3. Precedes(p \o l, c, d) <=> \/ Precedes(p, c, d) \/ Precedes(l, c, d)
                                 \/ c \in ToSet(p) /\ d \in ToSet(l)
  BY <1>2, PrecedesConcat
<1>4. Precedes(p, c, d) => c \in ToSet(p)
  BY PrecedesElems
<1> QED BY <1>1, <1>2, <1>3, <1>4 DEF ScanStep, ScanBefore, Line

-----------------------------------------------------------------------------
(* The actions.                                                            *)

\* A request that is processed, answered or put aside leaves the line.
LEMMA ScanProcessing ==
  ASSUME BufInv, CallInv, NEW c \in Ctxs, NEW op, Processing(c, op),
         op = "SCAN" => call'[c] = NULL, \A d \in Ctxs \ {c} : call'[d] = call[d]
  PROVE  ScanSteps
<1>1. /\ submit # << >> /\ c = Head(submit) /\ submit' = Tail(submit) /\ call[c].op = op
      /\ UNCHANGED <<buf, req_used_ring, req_array, pc>>
  BY DEF Processing, rings, poll
<1>2. Ringed' = Ringed
  BY <1>1 DEF Ringed, Published
<1>3. PICK s, r : s = submit /\ r = Ringed
  OBVIOUS
<1>4. s \in Seq(Ctxs) /\ r \in Seq(Ctxs) /\ s # << >>
  BY <1>1, <1>3, LineTyped
<1>5. s \o r # << >> /\ Head(s \o r) = Head(s) /\ Tail(s \o r) = Tail(s) \o r
  BY <1>4
<1>6. Line = s \o r /\ Line' = Tail(s) \o r
  BY <1>1, <1>2, <1>3 DEF Line
<1>7. Line # << >> /\ Line' = Tail(Line) /\ c = Head(Line)
  BY <1>1, <1>3, <1>5, <1>6
<1> QED BY <1>1, <1>7, LineShrinks

\* A completion answers a request that is out of the line.
LEMMA ScanCompleting ==
  ASSUME BufInv, CallInv, NEW c \in Ctxs, NEW stage \in {"chunk", "load", "modify"},
         Completing(c, stage), \A d \in Ctxs \ {c} : call'[d] = call[d]
  PROVE  ScanSteps
<1>1. /\ ireq[c].stage = stage /\ UNCHANGED <<submit, buf, req_used_ring, req_array, pc>>
  BY DEF Completing, rings, poll
<1>2. Line' = Line
  BY <1>1 DEF Line, Ringed, Published
<1>3. c \notin ToSet(Line) /\ \A d \in ToSet(Line) : d \in Ctxs
  BY <1>1, LineTyped
<1> QED BY <1>2, <1>3, LineKept

LEMMA ScanProcess ==
  ASSUME BufInv, CallInv, NEW c \in Ctxs, Process(c)
  PROVE  ScanSteps
<1>1. call \in [Ctxs -> Calls \cup {NULL}]
  BY DEF CallInv, CallsTyped
<1>2. ASSUME NEW r, CallBack(c, r)
      PROVE  call'[c] = NULL /\ \A d \in Ctxs \ {c} : call'[d] = call[d]
  BY <1>1, <1>2 DEF CallBack
<1>3. CASE GetNotExist(c) \/ DeleteNotExist(c) \/ Scan(c)
  BY <1>2, <1>3, ScanProcessing DEF GetNotExist, DeleteNotExist, Scan, Finish
<1>4. ASSUME NEW e \in Entries, GetCached(c, e) PROVE ScanSteps
  BY <1>2, <1>4, ScanProcessing DEF GetCached, Getting, Finish
<1>5. ASSUME NEW e \in Entries, GetResubmit(c, e) \/ GetStart(c, e) PROVE ScanSteps
  BY <1>5, ScanProcessing DEF GetResubmit, GetStart, Getting, Resubmit, Proceed
<1>6. ASSUME NEW e \in Entries,
             PutNew(c, e) \/ PutStart(c, e) \/ DeleteStart(c, e) \/ ModifyResubmit(c, e)
      PROVE  ScanSteps
  BY <1>6, ScanProcessing
     DEF PutNew, PutStart, DeleteStart, ModifyResubmit, Modifying, Resubmit, Proceed
<1> QED BY <1>3, <1>4, <1>5, <1>6 DEF Process

LEMMA ScanComplete ==
  ASSUME BufInv, CallInv, NEW c \in Ctxs, Complete(c)
  PROVE  ScanSteps
<1>1. call \in [Ctxs -> Calls \cup {NULL}]
  BY DEF CallInv, CallsTyped
<1>2. ASSUME NEW r, CallBack(c, r)
      PROVE  \A d \in Ctxs \ {c} : call'[d] = call[d]
  BY <1>1, <1>2 DEF CallBack
<1>3. CASE ChunkReady(c)
  BY <1>3, ScanCompleting DEF ChunkReady
<1>4. CASE LoadDone(c) \/ PutDone(c) \/ DeleteDone(c)
  BY <1>2, <1>4, ScanCompleting DEF LoadDone, PutDone, DeleteDone, Finish
<1> QED BY <1>3, <1>4 DEF Complete

LEMMA ScanEnqueue ==
  ASSUME BufInv, CallInv, NEW c \in Ctxs, Enqueue(c)
  PROVE  ScanSteps
<1>1. PICK b : b = held[c]
  OBVIOUS
<1>2. /\ b # NULL /\ b \in Bufs /\ call[c] = NULL
      /\ req_used_ring' = Append(req_used_ring, b)
      /\ buf' = [buf EXCEPT ![b] = c]
      /\ UNCHANGED <<pc, req_array, submit>>
  BY <1>1 DEF Enqueue, BufInv, RingsTyped, poll, CallInv, CallsApart, CallsCarried
<1>3. \A d \in Ctxs \ {c} : call'[d] = call[d]
  BY DEF Enqueue, CallInv, CallsTyped
<1>4. b \notin PublishedBufs /\ buf \in [Bufs -> Ctxs \cup {NULL}] /\ BufsName
  BY <1>1, <1>2 DEF BufInv, BuffersApart, PublishedBufs, CallInv, CallsTyped, CallsApart
<1>5. PICK p : p = Published
  OBVIOUS
<1>6. p \in Seq(Bufs) /\ ToSet(p) = PublishedBufs /\ Ringed = Named(p, buf)
  BY <1>5, LineTyped
<1>7. Published' = p \o <<b>>
  <2>1. PICK a, u : a = (IF pc = "wrap" THEN req_array ELSE << >>) /\ u = req_used_ring
    OBVIOUS
  <2>2. a \in Seq(Bufs) /\ u \in Seq(Bufs) /\ p = a \o u
    BY <1>5, <2>1 DEF BufInv, RingsTyped, Published
  <2>3. Published' = a \o Append(u, b)
    BY <1>2, <2>1 DEF Published
  <2>4. Append(u, b) = u \o <<b>> /\ <<b>> \in Seq(Bufs)
    BY <1>2, <2>2, AppendIsConcat
  <2>5. (a \o u) \o <<b>> = a \o (u \o <<b>>)
    BY <2>2, <2>4, ConcatAssociative
  <2> QED BY <2>2, <2>3, <2>4, <2>5
<1>8. /\ \A x \in ToSet(p) : buf'[x] = buf[x] /\ buf[x] \in Ctxs
      /\ buf'[b] = c
  BY <1>2, <1>4, <1>6, ElemsOf DEF BufsName
<1>9. PICK names : names = buf'
  OBVIOUS
<1>10. Named(p \o <<b>>, names) = Named(p, names) \o Named(<<b>>, names)
  <2>1. <<b>> \in Seq(Bufs) /\ ToSet(<<b>>) = {b}
    BY <1>2, ElemsSingleton
  <2>2. NamesIn(p, names, Ctxs) /\ NamesIn(<<b>>, names, Ctxs)
    BY <1>8, <1>9, <2>1 DEF NamesIn
  <2>3. p \in Seq(Bufs)
    BY <1>6
  <2> QED BY <2>1, <2>2, <2>3, NamedConcat
<1>11. Named(p, names) = Named(p, buf)
  <2>1. \A i \in DOMAIN p : names[p[i]] = buf[p[i]]
    BY <1>8, <1>9 DEF ToSet
  <2> QED BY <2>1 DEF Named
<1>12. Named(<<b>>, names) = <<c>>
  BY <1>8, <1>9 DEF Named
<1>13. Ringed' = Named(p \o <<b>>, names)
  BY <1>7, <1>9 DEF Ringed, Named
<1>14. PICK r, s : r = Ringed /\ s = submit
  OBVIOUS
<1>15. r \in Seq(Ctxs) /\ s \in Seq(Ctxs)
  BY <1>14, LineTyped
<1>16. Ringed' = r \o <<c>> /\ submit' = s
  BY <1>2, <1>6, <1>10, <1>11, <1>12, <1>13, <1>14
<1>17. s \o (r \o <<c>>) = Append(s \o r, c)
  <2>1. s \o (r \o <<c>>) = (s \o r) \o <<c>>
    BY <1>15, ConcatAssociative
  <2>2. s \o r \in Seq(Ctxs)
    BY <1>15, ConcatProperties
  <2> QED BY <2>1, <2>2, AppendIsConcat
<1>18. Line' = Append(Line, c)
  BY <1>14, <1>16, <1>17 DEF Line
<1> QED BY <1>2, <1>3, <1>18, LineGrows

LEMMA ScanPollStart ==
  ASSUME BufInv, CallInv, RetryInv, PollStart
  PROVE  ScanSteps
<1>1. /\ submit' = Reverse(resubmit) \o submit /\ pc = "idle" /\ pc' # "wrap"
      /\ UNCHANGED <<call, buf, req_used_ring>>
  BY DEF PollStart, callers, rings
<1>2. Ringed' = Ringed
  BY <1>1 DEF Ringed, Published
<1>3. PICK p, s, r : p = Reverse(resubmit) /\ s = submit /\ r = Ringed
  OBVIOUS
<1>4. s \in Seq(Ctxs) /\ r \in Seq(Ctxs)
  BY <1>3, LineTyped
<1>5. p \in Seq(Ctxs) /\ ToSet(p) = ToSet(resubmit)
  BY <1>3, ElemsReversed DEF CallInv, CallsTyped
<1>6. (p \o s) \o r = p \o (s \o r)
  BY <1>4, <1>5, ConcatAssociative
<1>7. Line' = p \o Line
  BY <1>1, <1>2, <1>3, <1>6 DEF Line
<1>8. \A c \in ToSet(p) : call[c].op # "SCAN"
  BY <1>5 DEF RetryInv
<1> QED BY <1>1, <1>5, <1>7, <1>8, LineFronted

LEMMA ScanPollDequeue ==
  ASSUME BufInv, CallInv, PollDequeue
  PROVE  ScanSteps
<1>1. /\ req_array' = SubSeq(req_used_ring, 1, process_size)
      /\ req_used_ring' = SubSeq(req_used_ring, process_size + 1, Len(req_used_ring))
      /\ pc = "dequeue" /\ pc' = "wrap"
      /\ UNCHANGED <<call, buf, submit>>
  BY DEF PollDequeue, callers
<1>2. PICK u, n : u = req_used_ring /\ n = process_size
  OBVIOUS
<1>3. u \in Seq(Bufs) /\ n \in 1 .. Len(u)
  BY <1>1, <1>2 DEF BufInv, PollOK, RingsTyped
<1>4. SubSeq(u, 1, n) \o SubSeq(u, n + 1, Len(u)) = u
  <2>1. Len(u) \in n .. Len(u) /\ 1 \in 1 .. Len(u) + 1 /\ n \in 1 - 1 .. Len(u)
    BY <1>3, LenProperties
  <2>2. SubSeq(u, 1, n) \o SubSeq(u, n + 1, Len(u)) = SubSeq(u, 1, Len(u))
    BY <1>3, <2>1, ConcatAdjacentSubSeq
  <2> QED BY <1>3, <2>2, SubSeqFull
<1>5. Published = u
  BY <1>1, <1>2, <1>3, ConcatEmptySeq DEF Published
<1>6. Published' = u
  BY <1>1, <1>2, <1>4 DEF Published
<1>7. Line' = Line
  BY <1>1, <1>5, <1>6 DEF Line, Ringed
<1> QED BY <1>1, <1>7, LineKept

LEMMA ScanPollWrap ==
  ASSUME BufInv, CallInv, PollWrap
  PROVE  ScanSteps
<1>1. PICK new : new = [i \in 1 .. Len(req_array) |-> buf[req_array[i]]]
  OBVIOUS
<1>2. /\ pc = "wrap" /\ pc' = "refill" /\ submit' = submit \o new
      /\ UNCHANGED <<call, buf, req_used_ring>>
  BY <1>1 DEF PollWrap, callers, rings
<1>3. PICK a, u, s : a = req_array /\ u = req_used_ring /\ s = submit
  OBVIOUS
<1>4. a \in Seq(Bufs) /\ u \in Seq(Bufs) /\ s \in Seq(Ctxs)
  BY <1>3, LineTyped DEF BufInv, RingsTyped
<1>5. Published = a \o u /\ Ringed = Named(a \o u, buf)
  BY <1>2, <1>3, LineTyped DEF Published
<1>6. NamesIn(a, buf, Ctxs) /\ NamesIn(u, buf, Ctxs)
  BY <1>2, <1>3 DEF CallInv, CallsApart, BufsName, PublishedBufs, NamesIn
<1>7. /\ Named(a \o u, buf) = Named(a, buf) \o Named(u, buf)
      /\ Named(a, buf) \in Seq(Ctxs) /\ Named(u, buf) \in Seq(Ctxs)
  <2>1. Named(a \o u, buf) = Named(a, buf) \o Named(u, buf)
    BY <1>4, <1>6, NamedConcat
  <2> QED BY <1>4, <1>6, <2>1, NamedTyped
<1>8. new = Named(a, buf)
  BY <1>1, <1>3, <1>4, LenProperties DEF Named
<1>9. Ringed' = Named(u, buf)
  <2>1. Published' = u
    BY <1>2, <1>3, <1>4, ConcatEmptySeq DEF Published
  <2> QED BY <1>2, <2>1 DEF Ringed, Named
<1>10. PICK x, y : x = Named(a, buf) /\ y = Named(u, buf)
  OBVIOUS
<1>11. (s \o x) \o y = s \o (x \o y)
  <2>1. s \in Seq(Ctxs) /\ x \in Seq(Ctxs) /\ y \in Seq(Ctxs)
    BY <1>4, <1>7, <1>10
  <2> QED BY <2>1, ConcatAssociative
<1>12. Line' = Line
  BY <1>2, <1>3, <1>5, <1>7, <1>8, <1>9, <1>10, <1>11 DEF Line
<1> QED BY <1>2, <1>12, LineKept

LEMMA ScanStepsNext ==
  ASSUME BufInv, CallInv, RetryInv, [Next]_vars
  PROVE  ScanSteps
<1>1. ASSUME UNCHANGED <<call, submit, buf, req_used_ring>>,
             (pc # "wrap" /\ pc' # "wrap") \/ UNCHANGED <<pc, req_array>>
      PROVE  ScanSteps
  <2>1. Line' = Line
    BY <1>1 DEF Line, Ringed, Published
  <2> QED BY <1>1, <2>1, LineKept
<1>2. CASE UNCHANGED vars
  BY <1>1, <1>2 DEF vars, callers, rings, poll
<1>3. CASE Poll
  <2>1. CASE PollRefill \/ PollEnd
    BY <1>1, <2>1 DEF PollRefill, PollEnd, callers, rings
  <2> QED BY <1>3, <2>1, ScanPollStart, ScanPollDequeue, ScanPollWrap DEF Poll
<1>4. ASSUME NEW c \in Ctxs, Enqueue(c) \/ Process(c) \/ Complete(c) PROVE ScanSteps
  BY <1>4, ScanEnqueue, ScanProcess, ScanComplete
<1>5. ASSUME NEW c \in Ctxs, GetFreeReqBuffer(c) PROVE ScanSteps
  BY <1>1, <1>5 DEF GetFreeReqBuffer, poll
<1>6. ASSUME NEW c \in Ctxs, UseFreedEntry(c) PROVE ScanSteps
  BY <1>1, <1>6 DEF UseFreedEntry, callers, rings
<1>7. ASSUME NEW e \in Entries, Evict(e) PROVE ScanSteps
  BY <1>1, <1>7 DEF Evict, callers, rings, poll
<1> QED BY <1>2, <1>3, <1>4, <1>5, <1>6, <1>7 DEF Next

-----------------------------------------------------------------------------
(* Scans are never retried.                                                *)

LEMMA RetryInvInit == Init => RetryInv
  BY ElemsEmpty DEF Init, RetryInv

LEMMA RetryInvStep ==
  ASSUME BufInv, CallInv, RetryInv, [Next]_vars
  PROVE  RetryInv'
<1>1. /\ resubmit \in Seq(Ctxs) /\ ToSet(resubmit) \subseteq Queued
      /\ call \in [Ctxs -> Calls \cup {NULL}] /\ CallsCarried
      /\ \A c \in Queued : c \in Ctxs /\ call[c] # NULL /\ ireq[c].stage = "queued"
  BY DEF CallInv, CallsTyped, CallsApart, QueuesApart, CallsCarried, Queued, Used
<1>2. ASSUME UNCHANGED resubmit, \A c \in ToSet(resubmit) : call'[c] = call[c]
      PROVE  RetryInv'
  BY <1>2 DEF RetryInv
<1>3. ASSUME UNCHANGED <<resubmit, call>> PROVE RetryInv'
  BY <1>3 DEF RetryInv
<1>4. ASSUME NEW c \in Ctxs, NEW r, c \notin ToSet(resubmit), CallBack(c, r), UNCHANGED resubmit
      PROVE  RetryInv'
  <2>1. call' = [call EXCEPT ![c] = NULL]
    BY <1>4 DEF CallBack
  <2>2. \A d \in ToSet(resubmit) : call'[d] = call[d]
    BY <1>1, <1>4, <2>1
  <2> QED BY <1>2, <1>4, <2>2
<1>5. ASSUME NEW c \in Ctxs, Process(c) PROVE RetryInv'
  <2>1. ASSUME NEW op, Processing(c, op) PROVE c \notin ToSet(resubmit) /\ call[c].op = op
    BY <2>1, HeadOfSubmit DEF Processing
  <2>2. ASSUME NEW op, Processing(c, op), op # "SCAN", Resubmit(c) PROVE RetryInv'
    <3>1. resubmit' = Append(resubmit, c) /\ UNCHANGED call
      BY <2>2 DEF Resubmit
    <3>2. ToSet(resubmit') = ToSet(resubmit) \cup {c}
      BY <1>1, <3>1, ElemsAppend
    <3> QED BY <2>1, <2>2, <3>1, <3>2 DEF RetryInv
  <2>3. CASE GetNotExist(c) \/ DeleteNotExist(c) \/ Scan(c)
    BY <1>4, <2>1, <2>3 DEF GetNotExist, DeleteNotExist, Scan, Finish
  <2>4. ASSUME NEW e \in Entries, GetCached(c, e) PROVE RetryInv'
    BY <1>4, <2>1, <2>4 DEF GetCached, Getting, Finish
  <2>5. ASSUME NEW e \in Entries, GetResubmit(c, e) \/ ModifyResubmit(c, e) PROVE RetryInv'
    BY <2>2, <2>5 DEF GetResubmit, Getting, ModifyResubmit, Modifying
  <2>6. ASSUME NEW e \in Entries,
               GetStart(c, e) \/ PutNew(c, e) \/ PutStart(c, e) \/ DeleteStart(c, e)
        PROVE  RetryInv'
    BY <1>3, <2>6 DEF GetStart, PutNew, PutStart, DeleteStart, Proceed
  <2> QED BY <1>5, <2>3, <2>4, <2>5, <2>6 DEF Process
<1>6. ASSUME NEW c \in Ctxs, Complete(c) PROVE RetryInv'
  <2>1. ASSUME NEW stage \in {"chunk", "load", "modify"}, Completing(c, stage)
        PROVE  c \notin ToSet(resubmit) /\ UNCHANGED resubmit
    BY <1>1, <2>1 DEF Completing
  <2>2. CASE ChunkReady(c)
    BY <1>3, <2>1, <2>2 DEF ChunkReady
  <2>3. CASE LoadDone(c) \/ PutDone(c) \/ DeleteDone(c)
    BY <1>4, <2>1, <2>3 DEF LoadDone, PutDone, DeleteDone, Finish
  <2> QED BY <1>6, <2>2, <2>3 DEF Complete
<1>7. ASSUME NEW c \in Ctxs, Enqueue(c) PROVE RetryInv'
  <2>1. call[c] = NULL
    BY <1>7 DEF Enqueue, BufInv, RingsTyped, CallInv, CallsApart, CallsCarried
  <2>2. \A d \in ToSet(resubmit) : call'[d] = call[d]
    BY <1>1, <1>7, <2>1 DEF Enqueue
  <2> QED BY <1>2, <1>7, <2>2 DEF Enqueue
<1>8. CASE Poll
  <2>1. CASE PollStart
    BY <2>1, ElemsEmpty DEF PollStart, RetryInv
  <2> QED BY <1>3, <1>8, <2>1 DEF Poll, PollDequeue, PollWrap, PollRefill, PollEnd, callers
<1>9. ASSUME NEW c \in Ctxs, GetFreeReqBuffer(c) \/ UseFreedEntry(c) PROVE RetryInv'
  BY <1>3, <1>9 DEF GetFreeReqBuffer, UseFreedEntry, callers
<1>10. ASSUME NEW e \in Entries, Evict(e) PROVE RetryInv'
  BY <1>3, <1>10 DEF Evict, callers
<1>11. CASE UNCHANGED vars
  BY <1>3, <1>11 DEF vars, callers
<1> QED BY <1>5, <1>6, <1>7, <1>8, <1>9, <1>10, <1>11 DEF Next

\* For any number of callers and buffers, and whatever is retried meanwhile: scans
\* are answered in the order in which they were published in the ring.
THEOREM WorkerScansInOrder == Spec => ScansInOrder
<1>1. Init => WorkInv /\ RetryInv
  BY WorkInvInit, RetryInvInit
<1>2. WorkInv /\ RetryInv /\ [Next]_vars => (WorkInv /\ RetryInv)'
  BY WorkInvStep, RetryInvStep DEF WorkInv, CountInv
<1>3. WorkInv /\ RetryInv /\ [Next]_vars
        => [\A c, d \in Ctxs :
              /\ ScanBefore(c, d) => \/ ScanBefore(c, d)'
                                     \/ call'[c] = NULL /\ call'[d] # NULL
              /\ ScanBefore(c, d)' => ScanBefore(c, d) \/ call[d] = NULL]_vars
  BY ScanStepsNext DEF WorkInv, CountInv, ScanSteps, ScanStep
<1> QED BY <1>1, <1>2, <1>3, PTL DEF Spec, ScansInOrder

-----------------------------------------------------------------------------
(***************************************************************************)
(* Freed entries.  An entry may be freed under a GET that waits for its    *)
(* item when another GET takes the flag back, and under one that is        *)
(* retried without a lookup when another caller deletes the key.  Neither  *)
(* happens when nothing is deleted, or when one caller reads and one       *)
(* modifies: then the worker keeps the promise of KvSpec.                  *)
(***************************************************************************)

ModOps == {"PUT", "DELETE"}

Deletes == \E c \in Ctxs : "DELETE" \in CtxOps[c]

\* Where entries may be deleted, at most one caller reads and at most one modifies.
SafeCallers ==
  Deletes =>
    \A c, d \in Ctxs : c # d =>
      /\ "GET" \notin CtxOps[c] \cap CtxOps[d]
      /\ CtxOps[c] \cap ModOps = {} \/ CtxOps[d] \cap ModOps = {}

Modifies(c) == ireq[c].stage = "modify"

\* A GET that is retried without a lookup; a GET that has an entry's address.
Sticky(c) == ireq[c].no_lookup /\ ireq[c].stage = "queued"
Refers(c) == ireq[c].no_lookup \/ Waits(c)

CallsOwn == \A c \in Ctxs : call[c] # NULL => call[c].op \in CtxOps[c]

IndexOK ==
  /\ \A k \in Keys : index[k] # NULL => entry[index[k]].live
  /\ \A k, j \in Keys : index[k] = index[j] /\ index[k] # NULL => k = j

\* The entry that a request keeps is still the one of its key.
RefersOK ==
  \A c \in Ctxs : Refers(c) \/ Modifies(c) =>
    /\ call[c] # NULL
    /\ ireq[c].entry \in Entries /\ index[call[c].key] = ireq[c].entry
    /\ Refers(c) => call[c].op = "GET" /\ (Sticky(c) \/ Waits(c))
    /\ Waits(c) /\ Deletes => entry[ireq[c].entry].getting
    /\ Modifies(c) => call[c].op \in ModOps

FlagsOwned ==
  \A e \in Entries :
    /\ entry[e].writing
         => \E c \in Ctxs : Modifies(c) /\ ireq[c].entry = e /\ call[c].op = "PUT"
    /\ entry[e].deleting
         => \E c \in Ctxs : Modifies(c) /\ ireq[c].entry = e /\ call[c].op = "DELETE"

\* A GET that will be retried without a lookup comes before any DELETE: the writer
\* it waited for is still at work, or its caller's next request is behind it.
StickyFirst ==
  \A c, m \in Ctxs : Deletes /\ Sticky(c) /\ call[m] # NULL /\ call[m].op \in ModOps =>
    \/ ireq[m].stage = "free"
    \/ Modifies(m) /\ call[m].op = "PUT"
    \/ Precedes(submit, c, m)

\* Requests to retry are moved before new ones are wrapped.
RetryFirst == pc \in {"dequeue", "wrap", "refill"} => resubmit = << >>

PairInv == CallsOwn /\ IndexOK /\ RefersOK /\ FlagsOwned /\ StickyFirst /\ RetryFirst

TypesHold == WorkInv /\ RestTyped

-----------------------------------------------------------------------------
LEMMA PairInvInit == Init => PairInv
<1> SUFFICES ASSUME Init PROVE PairInv
  OBVIOUS
<1>1. /\ call = [c \in Ctxs |-> NULL] /\ ireq = [c \in Ctxs |-> FreeReq]
      /\ index = [k \in Keys |-> NULL] /\ pc = "idle"
      /\ \A e \in Entries : ~entry[e].writing /\ ~entry[e].deleting
  BY DEF Init
<1>2. \A c \in Ctxs : ~Refers(c) /\ ~Modifies(c) /\ ~Sticky(c)
  BY <1>1 DEF FreeReq, Refers, Modifies, Sticky, Waits
<1> QED BY <1>1, <1>2 DEF PairInv, CallsOwn, IndexOK, RefersOK, FlagsOwned, StickyFirst, RetryFirst

LEMMA OneOfEach ==
  ASSUME SafeCallers, Deletes, CallsOwn, NEW c \in Ctxs, NEW d \in Ctxs,
         call[c] # NULL, call[d] # NULL,
         \/ call[c].op = "GET" /\ call[d].op = "GET"
         \/ call[c].op \in ModOps /\ call[d].op \in ModOps
  PROVE  c = d
  BY DEF SafeCallers, CallsOwn

LEMMA CallTypes ==
  ASSUME TypesHold
  PROVE  /\ call \in [Ctxs -> Calls \cup {NULL}] /\ ireq \in [Ctxs -> IReqs]
         /\ submit \in Seq(Ctxs) /\ IsInjective(submit)
         /\ index \in [Keys -> Entries \cup {NULL}] /\ entry \in [Entries -> Flags]
         /\ NULL \notin Entries
         /\ \A c \in Ctxs : call[c] # NULL => call[c].key \in Keys /\ call[c].op \in Ops
  BY WorkerAssumption
     DEF TypesHold, WorkInv, CallInv, CallsTyped, CallsApart, QueuesApart, RestTyped, Calls

\* The request that is processed is the first of its queue.
LEMMA FirstOfSubmit ==
  ASSUME TypesHold, NEW c \in Ctxs, NEW op, Processing(c, op)
  PROVE  /\ ireq[c].stage = "queued" /\ call[c] # NULL /\ call[c].op = op
         /\ call[c].key \in Keys
         /\ \A d, m \in Ctxs : d # c /\ Precedes(submit, d, m) => Precedes(submit', d, m)
         /\ \A d \in Ctxs : ~Precedes(submit, d, c)
         /\ pc = "process" /\ pc' = pc
<1>1. /\ submit # << >> /\ c = Head(submit) /\ submit' = Tail(submit) /\ call[c].op = op
      /\ pc = "process" /\ pc' = pc
  BY DEF Processing
<1>2. ireq[c].stage = "queued" /\ call[c] # NULL /\ call[c].key \in Keys
  BY <1>1, HeadOfSubmit, CallTypes DEF TypesHold, WorkInv, CallInv, CallsApart, CallsCarried
<1>3. PICK s : s = submit
  OBVIOUS
<1>4. s \in Seq(Ctxs) /\ s # << >> /\ IsInjective(s) /\ c = Head(s) /\ submit' = Tail(s)
  BY <1>1, <1>3, CallTypes
<1>5. Tail(s) \in Seq(Ctxs) /\ c \notin ToSet(Tail(s))
  BY <1>4, ElemsHeadTail
<1>6. \A d, m : Precedes(s, d, m) <=> Precedes(Tail(s), d, m) \/ (d = c /\ m \in ToSet(Tail(s)))
  BY <1>4, PrecedesTail
<1>7. \A d, m : Precedes(Tail(s), d, m) => m \in ToSet(Tail(s))
  BY <1>5, PrecedesElems
<1> QED BY <1>1, <1>2, <1>3, <1>4, <1>5, <1>6, <1>7

-----------------------------------------------------------------------------
(* The conjuncts about the calls and about the poll are invariant alone.   *)

LEMMA CallsOwnStep ==
  ASSUME TypesHold, CallsOwn, [Next]_vars
  PROVE  CallsOwn'
<1>1. call \in [Ctxs -> Calls \cup {NULL}]
  BY CallTypes
<1>2. ASSUME UNCHANGED call PROVE CallsOwn'
  BY <1>2 DEF CallsOwn
<1>3. ASSUME NEW c \in Ctxs, NEW r, CallBack(c, r) PROVE CallsOwn'
  BY <1>1, <1>3 DEF CallBack, CallsOwn
<1>4. ASSUME NEW c \in Ctxs, Enqueue(c) PROVE CallsOwn'
  <2>1. PICK op \in CtxOps[c], k \in Keys : call' = [call EXCEPT ![c] = [op |-> op, key |-> k]]
    BY <1>4 DEF Enqueue
  <2>2. call'[c].op \in CtxOps[c] /\ \A d \in Ctxs \ {c} : call'[d] = call[d]
    BY <1>1, <2>1
  <2> QED BY <2>2 DEF CallsOwn
<1>5. ASSUME NEW c \in Ctxs, Process(c) PROVE CallsOwn'
  <2>1. CASE GetNotExist(c) \/ DeleteNotExist(c) \/ Scan(c)
    BY <1>3, <2>1 DEF GetNotExist, DeleteNotExist, Scan, Finish
  <2>2. ASSUME NEW e \in Entries, GetCached(c, e) PROVE CallsOwn'
    BY <1>3, <2>2 DEF GetCached, Finish
  <2>3. ASSUME NEW e \in Entries,
               GetResubmit(c, e) \/ GetStart(c, e) \/ PutNew(c, e) \/ PutStart(c, e)
               \/ DeleteStart(c, e) \/ ModifyResubmit(c, e)
        PROVE  CallsOwn'
    BY <1>2, <2>3
       DEF GetResubmit, GetStart, PutNew, PutStart, DeleteStart, ModifyResubmit, Resubmit, Proceed
  <2> QED BY <1>5, <2>1, <2>2, <2>3 DEF Process
<1>6. ASSUME NEW c \in Ctxs, Complete(c) PROVE CallsOwn'
  <2>1. CASE ChunkReady(c)
    BY <1>2, <2>1 DEF ChunkReady
  <2>2. CASE LoadDone(c) \/ PutDone(c) \/ DeleteDone(c)
    BY <1>3, <2>2 DEF LoadDone, PutDone, DeleteDone, Finish
  <2> QED BY <1>6, <2>1, <2>2 DEF Complete
<1>7. CASE Poll
  BY <1>2, <1>7 DEF Poll, PollStart, PollDequeue, PollWrap, PollRefill, PollEnd, callers
<1>8. ASSUME NEW c \in Ctxs, GetFreeReqBuffer(c) \/ UseFreedEntry(c) PROVE CallsOwn'
  BY <1>2, <1>8 DEF GetFreeReqBuffer, UseFreedEntry, callers
<1>9. ASSUME NEW e \in Entries, Evict(e) PROVE CallsOwn'
  BY <1>2, <1>9 DEF Evict, callers
<1>10. CASE UNCHANGED vars
  BY <1>2, <1>10 DEF vars, callers
<1> QED BY <1>4, <1>5, <1>6, <1>7, <1>8, <1>9, <1>10 DEF Next

LEMMA RetryFirstStep ==
  ASSUME RetryFirst, [Next]_vars
  PROVE  RetryFirst'
<1>1. ASSUME UNCHANGED <<pc, resubmit>> PROVE RetryFirst'
  BY <1>1 DEF RetryFirst
<1>2. ASSUME pc' \in {"process", "idle", "undefined"} PROVE RetryFirst'
  BY <1>2 DEF RetryFirst
<1>3. CASE Poll
  BY <1>3 DEF Poll, PollStart, PollDequeue, PollWrap, PollRefill, PollEnd, RetryFirst
<1>4. ASSUME NEW c \in Ctxs, NEW op, Processing(c, op) PROVE RetryFirst'
  BY <1>2, <1>4 DEF Processing
<1>5. ASSUME NEW c \in Ctxs, NEW stage, Completing(c, stage) PROVE RetryFirst'
  BY <1>1, <1>5 DEF Completing
<1>6. ASSUME NEW c \in Ctxs, Process(c) PROVE RetryFirst'
  BY <1>4, <1>6
     DEF Process, GetNotExist, DeleteNotExist, Scan, GetResubmit, GetStart, GetCached, Getting,
         PutNew, PutStart, DeleteStart, ModifyResubmit, Modifying
<1>7. ASSUME NEW c \in Ctxs, Complete(c) PROVE RetryFirst'
  BY <1>5, <1>7 DEF Complete, ChunkReady, LoadDone, PutDone, DeleteDone
<1>8. ASSUME NEW c \in Ctxs, GetFreeReqBuffer(c) \/ Enqueue(c) PROVE RetryFirst'
  BY <1>1, <1>8 DEF GetFreeReqBuffer, Enqueue
<1>9. ASSUME NEW c \in Ctxs, UseFreedEntry(c) PROVE RetryFirst'
  BY <1>2, <1>9 DEF UseFreedEntry
<1>10. ASSUME NEW e \in Entries, Evict(e) PROVE RetryFirst'
  BY <1>1, <1>10 DEF Evict
<1>11. CASE UNCHANGED vars
  BY <1>1, <1>11 DEF vars
<1> QED BY <1>3, <1>6, <1>7, <1>8, <1>9, <1>10, <1>11 DEF Next

-----------------------------------------------------------------------------
(* What is left of PairInv. *)

StoreInv == IndexOK /\ RefersOK /\ FlagsOwned /\ StickyFirst

\* A step that leaves the requests and the entries alone, and the order of those
\* that are queued.
LEMMA StoreFrame ==
  ASSUME StoreInv, UNCHANGED <<call, ireq, index, entry>>,
         \A c, m \in Ctxs : Precedes(submit, c, m) => Precedes(submit', c, m)
  PROVE  StoreInv'
<1>1. \A c \in Ctxs : /\ Refers(c)' = Refers(c) /\ Modifies(c)' = Modifies(c)
                      /\ Waits(c)' = Waits(c) /\ Sticky(c)' = Sticky(c)
  BY DEF Refers, Modifies, Waits, Sticky
<1>2. IndexOK'
  BY DEF StoreInv, IndexOK
<1>3. RefersOK'
  BY <1>1 DEF StoreInv, RefersOK
<1>4. FlagsOwned'
  BY <1>1 DEF StoreInv, FlagsOwned
<1>5. StickyFirst'
  BY <1>1 DEF StoreInv, StickyFirst
<1> QED BY <1>2, <1>3, <1>4, <1>5 DEF StoreInv

\* What the callback leaves of the caller's request.
LEMMA Released ==
  ASSUME TypesHold, NEW c \in Ctxs, NEW r, CallBack(c, r)
  PROVE  /\ call'[c] = NULL /\ ~Refers(c)' /\ ~Modifies(c)' /\ ~Sticky(c)' /\ ~Waits(c)'
         /\ \A d \in Ctxs \ {c} :
              /\ call'[d] = call[d] /\ ireq'[d] = ireq[d]
              /\ Refers(d)' = Refers(d) /\ Modifies(d)' = Modifies(d)
              /\ Waits(d)' = Waits(d) /\ Sticky(d)' = Sticky(d)
<1>1. /\ call \in [Ctxs -> Calls \cup {NULL}] /\ ireq \in [Ctxs -> IReqs]
      /\ ireq' = [ireq EXCEPT ![c] = FreeReq] /\ call' = [call EXCEPT ![c] = NULL]
  BY CallTypes DEF CallBack
<1>2. /\ call'[c] = NULL /\ ireq'[c] = FreeReq
      /\ \A d \in Ctxs \ {c} : call'[d] = call[d] /\ ireq'[d] = ireq[d]
  BY <1>1
<1> QED BY <1>2 DEF Refers, Modifies, Waits, Sticky, FreeReq

\* A call is answered, the index left alone: the flags that the request's caller
\* alone held may be cleared.
LEMMA StoreRelease ==
  ASSUME TypesHold, StoreInv, NEW c \in Ctxs, NEW r, CallBack(c, r), UNCHANGED index,
         \A d, m \in Ctxs : d # c /\ Precedes(submit, d, m) => Precedes(submit', d, m),
         \A e \in Entries :
           /\ entry'[e].live = entry[e].live
           /\ entry'[e].writing => entry[e].writing /\ ~(/\ Modifies(c) /\ ireq[c].entry = e
                                                         /\ call[c].op = "PUT")
           /\ entry'[e].deleting => entry[e].deleting /\ ~(/\ Modifies(c) /\ ireq[c].entry = e
                                                           /\ call[c].op = "DELETE"),
         \A d \in Ctxs \ {c} : Waits(d) /\ Deletes => entry'[ireq[d].entry].getting
  PROVE  StoreInv'
<1>1. /\ call'[c] = NULL /\ ~Refers(c)' /\ ~Modifies(c)' /\ ~Sticky(c)' /\ ~Waits(c)'
      /\ \A d \in Ctxs \ {c} :
           /\ call'[d] = call[d] /\ ireq'[d] = ireq[d]
           /\ Refers(d)' = Refers(d) /\ Modifies(d)' = Modifies(d)
           /\ Waits(d)' = Waits(d) /\ Sticky(d)' = Sticky(d)
  BY Released
<1>2. index \in [Keys -> Entries \cup {NULL}]
  BY CallTypes
<1>3. IndexOK'
  BY <1>2 DEF StoreInv, IndexOK
<1>4. RefersOK'
  BY <1>1 DEF StoreInv, RefersOK
<1>5. FlagsOwned'
  BY <1>1 DEF StoreInv, FlagsOwned
<1>6. StickyFirst'
  BY <1>1 DEF StoreInv, StickyFirst
<1> QED BY <1>3, <1>4, <1>5, <1>6 DEF StoreInv

\* Requests that end when they are processed.
LEMMA StoreAnswered ==
  ASSUME TypesHold, StoreInv, NEW c \in Ctxs, NEW op, NEW r,
         Processing(c, op), CallBack(c, r), UNCHANGED <<index, entry>>
  PROVE  StoreInv'
<1>1. /\ ireq[c].stage = "queued"
      /\ \A d, m \in Ctxs : d # c /\ Precedes(submit, d, m) => Precedes(submit', d, m)
  BY FirstOfSubmit
<1>2. ~Modifies(c)
  BY <1>1 DEF Modifies
<1>3. \A d \in Ctxs \ {c} : Waits(d) /\ Deletes => entry'[ireq[d].entry].getting
  BY DEF StoreInv, RefersOK, Refers
<1> QED BY <1>1, <1>2, <1>3, StoreRelease

\* No other GET waits: the flag is the caller's alone.
LEMMA StoreGetCached ==
  ASSUME SafeCallers, CallsOwn, TypesHold, StoreInv,
         NEW c \in Ctxs, NEW e \in Entries, GetCached(c, e)
  PROVE  StoreInv'
<1>1. /\ Processing(c, "GET") /\ CallBack(c, "success") /\ UNCHANGED index
      /\ entry' = [entry EXCEPT ![e].getting = FALSE]
  BY DEF GetCached, Getting, Finish
<1>2. /\ ireq[c].stage = "queued" /\ call[c] # NULL /\ call[c].op = "GET"
      /\ \A d, m \in Ctxs : d # c /\ Precedes(submit, d, m) => Precedes(submit', d, m)
  BY <1>1, FirstOfSubmit
<1>3. ~Modifies(c)
  BY <1>2 DEF Modifies
<1>4. \A d \in Ctxs \ {c} : Deletes => ~Waits(d)
  <2>1. ASSUME NEW d \in Ctxs, Waits(d), Deletes PROVE d = c
    <3>1. call[d] # NULL /\ call[d].op = "GET"
      BY <2>1 DEF StoreInv, RefersOK, Refers
    <3> QED BY <1>2, <2>1, <3>1, OneOfEach
  <2> QED BY <2>1
<1>5. \A x \in Entries : /\ entry'[x].live = entry[x].live
                         /\ entry'[x].writing = entry[x].writing
                         /\ entry'[x].deleting = entry[x].deleting
  BY <1>1, CallTypes DEF Flags
<1> QED BY <1>1, <1>2, <1>3, <1>4, <1>5, StoreRelease

LEMMA StoreLoadDone ==
  ASSUME SafeCallers, CallsOwn, TypesHold, StoreInv, NEW c \in Ctxs, LoadDone(c)
  PROVE  StoreInv'
<1>1. PICK e : e = ireq[c].entry
  OBVIOUS
<1>2. PICK r : CallBack(c, r)
  BY DEF LoadDone, Finish
<1>3. /\ ireq[c].stage = "load" /\ UNCHANGED <<submit, index>>
      /\ entry' = [entry EXCEPT ![e].getting = FALSE]
  BY <1>1 DEF LoadDone, Completing
<1>4. Waits(c) /\ ~Modifies(c)
  BY <1>3 DEF Waits, Modifies
<1>5. call[c] # NULL /\ call[c].op = "GET" /\ e \in Entries
  BY <1>1, <1>4 DEF StoreInv, RefersOK, Refers
<1>6. \A d \in Ctxs \ {c} : Deletes => ~Waits(d)
  <2>1. ASSUME NEW d \in Ctxs, Waits(d), Deletes PROVE d = c
    <3>1. call[d] # NULL /\ call[d].op = "GET"
      BY <2>1 DEF StoreInv, RefersOK, Refers
    <3> QED BY <1>5, <2>1, <3>1, OneOfEach
  <2> QED BY <2>1
<1>7. \A x \in Entries : /\ entry'[x].live = entry[x].live
                         /\ entry'[x].writing = entry[x].writing
                         /\ entry'[x].deleting = entry[x].deleting
  BY <1>3, <1>5, CallTypes DEF Flags
<1>8. \A d, m \in Ctxs : d # c /\ Precedes(submit, d, m) => Precedes(submit', d, m)
  BY <1>3
<1> QED BY <1>2, <1>3, <1>4, <1>6, <1>7, <1>8, StoreRelease

LEMMA StorePutDone ==
  ASSUME TypesHold, StoreInv, NEW c \in Ctxs, PutDone(c)
  PROVE  StoreInv'
<1>1. PICK e : e = ireq[c].entry
  OBVIOUS
<1>2. /\ ireq[c].stage = "modify" /\ call[c].op = "PUT" /\ CallBack(c, "success")
      /\ UNCHANGED <<submit, index>> /\ entry' = [entry EXCEPT ![e].writing = FALSE]
  BY <1>1 DEF PutDone, Completing, Finish
<1>3. Modifies(c) /\ e \in Entries
  BY <1>1, <1>2 DEF Modifies, StoreInv, RefersOK
<1>4. /\ \A x \in Entries : /\ entry'[x].live = entry[x].live
                            /\ entry'[x].getting = entry[x].getting
                            /\ entry'[x].deleting = entry[x].deleting
                            /\ x # e => entry'[x].writing = entry[x].writing
      /\ ~entry'[e].writing
  BY <1>2, <1>3, CallTypes DEF Flags
<1>5. \A d \in Ctxs \ {c} : Waits(d) /\ Deletes => entry'[ireq[d].entry].getting
  BY <1>4 DEF StoreInv, RefersOK, Refers
<1>6. \A x \in Entries : entry'[x].writing => entry[x].writing /\ ~(ireq[c].entry = x)
  BY <1>1, <1>4
<1>7. \A d, m \in Ctxs : d # c /\ Precedes(submit, d, m) => Precedes(submit', d, m)
  BY <1>2
<1> QED BY <1>2, <1>3, <1>4, <1>5, <1>6, <1>7, StoreRelease

\* The entry is freed when no GET is flagged on it; no GET that is retried may be
\* on its way to it.
LEMMA StoreDeleteDone ==
  ASSUME SafeCallers, CallsOwn, TypesHold, StoreInv, NEW c \in Ctxs, DeleteDone(c)
  PROVE  StoreInv'
<1>1. PICK e, k : e = ireq[c].entry /\ k = call[c].key
  OBVIOUS
<1>2. /\ ireq[c].stage = "modify" /\ call[c].op = "DELETE" /\ CallBack(c, "success")
      /\ UNCHANGED submit /\ ~entry[e].getting
      /\ index' = [index EXCEPT ![k] = NULL]
      /\ entry' = [entry EXCEPT ![e].live = FALSE, ![e].deleting = FALSE]
  BY <1>1 DEF DeleteDone, Completing, Finish
<1>3. Modifies(c) /\ e \in Entries /\ index[k] = e /\ call[c] # NULL /\ k \in Keys /\ e # NULL
  BY <1>1, <1>2, CallTypes DEF Modifies, StoreInv, RefersOK
<1>4. /\ call'[c] = NULL /\ ~Refers(c)' /\ ~Modifies(c)' /\ ~Sticky(c)' /\ ~Waits(c)'
      /\ \A d \in Ctxs \ {c} :
           /\ call'[d] = call[d] /\ ireq'[d] = ireq[d]
           /\ Refers(d)' = Refers(d) /\ Modifies(d)' = Modifies(d)
           /\ Waits(d)' = Waits(d) /\ Sticky(d)' = Sticky(d)
  BY <1>2, Released
<1>5. /\ \A x \in Entries : x # e => entry'[x] = entry[x]
      /\ entry'[e].getting = entry[e].getting /\ entry'[e].writing = entry[e].writing
      /\ ~entry'[e].deleting
  BY <1>2, <1>3, CallTypes DEF Flags
<1>6. index'[k] = NULL /\ \A j \in Keys \ {k} : index'[j] = index[j] /\ index[j] # e
  BY <1>2, <1>3, CallTypes DEF StoreInv, IndexOK
<1>7. Deletes
  BY <1>2, <1>3 DEF CallsOwn, Deletes
<1>8. \A d \in Ctxs \ {c} : ~Modifies(d)
  <2>1. ASSUME NEW d \in Ctxs, Modifies(d) PROVE d = c
    <3>1. call[d] # NULL /\ call[d].op \in ModOps
      BY <2>1 DEF StoreInv, RefersOK
    <3> QED BY <1>2, <1>3, <1>7, <3>1, OneOfEach DEF ModOps
  <2> QED BY <2>1
<1>9. \A d \in Ctxs : ~Sticky(d)
  <2>1. ASSUME NEW d \in Ctxs, Sticky(d) PROVE FALSE
    <3>1. \/ ireq[c].stage = "free"
          \/ Modifies(c) /\ call[c].op = "PUT"
          \/ Precedes(submit, d, c)
      BY <1>2, <1>3, <1>7, <2>1 DEF StoreInv, StickyFirst, ModOps
    <3>2. Precedes(submit, d, c)
      BY <1>2, <3>1
    <3>3. c \in Queued
      BY <3>2, PrecedesElems, CallTypes DEF TypesHold, WorkInv, CallInv, CallsApart, QueuesApart
    <3> QED BY <1>2, <3>3 DEF Queued
  <2> QED BY <2>1
<1>10. \A d \in Ctxs \ {c} : Refers(d) =>
         ireq[d].entry # e /\ call[d].key # k /\ call[d].key \in Keys
  <2>1. ASSUME NEW d \in Ctxs \ {c}, Refers(d) PROVE ireq[d].entry # e /\ call[d].key \in Keys
    <3>1. /\ ireq[d].entry \in Entries /\ index[call[d].key] = ireq[d].entry
          /\ call[d] # NULL /\ (Waits(d) => entry[ireq[d].entry].getting)
      BY <1>7, <2>1 DEF StoreInv, RefersOK
    <3>2. Waits(d)
      BY <1>9, <2>1 DEF StoreInv, RefersOK
    <3>3. call[d].key \in Keys
      BY <3>1, CallTypes
    <3>4. ireq[d].entry # e
      BY <1>2, <3>1, <3>2
    <3> QED BY <3>3, <3>4
  <2> QED BY <1>3, <2>1 DEF StoreInv, RefersOK
<1>11. IndexOK'
  <2>1. \A j \in Keys : index'[j] # NULL =>
          index'[j] \in Entries /\ index'[j] # e /\ index'[j] = index[j]
    BY <1>6, CallTypes
  <2> QED BY <1>5, <2>1 DEF StoreInv, IndexOK
<1>12. RefersOK'
  BY <1>4, <1>5, <1>6, <1>8, <1>10 DEF StoreInv, RefersOK
<1>13. FlagsOwned'
  <2>1. \A x \in Entries : ~entry'[x].writing /\ ~entry'[x].deleting
    <3>1. ASSUME NEW x \in Entries PROVE ~entry[x].writing /\ (x # e => ~entry[x].deleting)
      BY <1>1, <1>2, <1>8 DEF StoreInv, FlagsOwned
    <3> QED BY <1>5, <3>1
  <2> QED BY <2>1 DEF FlagsOwned
<1>14. StickyFirst'
  BY <1>4, <1>9 DEF StickyFirst
<1> QED BY <1>11, <1>12, <1>13, <1>14 DEF StoreInv

-----------------------------------------------------------------------------
(* Requests that go on.                                                    *)

\* What the rest of _process_one_kv_request leaves alone.
LEMMA Others ==
  ASSUME TypesHold, NEW c \in Ctxs, NEW r, ireq' = [ireq EXCEPT ![c] = r]
  PROVE  /\ ireq'[c] = r
         /\ \A d \in Ctxs \ {c} :
              /\ ireq'[d] = ireq[d]
              /\ Refers(d)' = Refers(d) /\ Modifies(d)' = Modifies(d)
              /\ Waits(d)' = Waits(d) /\ Sticky(d)' = Sticky(d)
<1>1. ireq'[c] = r /\ \A d \in Ctxs \ {c} : ireq'[d] = ireq[d]
  BY CallTypes
<1> QED BY <1>1 DEF Refers, Modifies, Waits, Sticky

\* A request that takes an entry, and waits.
LEMMA Proceeds ==
  ASSUME TypesHold, StoreInv, NEW c \in Ctxs, NEW op, NEW e \in Entries,
         NEW stage \in {"chunk", "load", "modify"}, Processing(c, op), Proceed(c, e, stage)
  PROVE  /\ UNCHANGED call
         /\ ireq'[c].stage = stage /\ ireq'[c].entry = e /\ ireq'[c].no_lookup = ireq[c].no_lookup
         /\ ~Sticky(c)' /\ (Modifies(c)' <=> stage = "modify") /\ (Waits(c)' <=> stage # "modify")
         /\ \A d \in Ctxs \ {c} :
              /\ ireq'[d] = ireq[d]
              /\ Refers(d)' = Refers(d) /\ Modifies(d)' = Modifies(d)
              /\ Waits(d)' = Waits(d) /\ Sticky(d)' = Sticky(d)
         /\ StickyFirst'
<1>1. PICK r : r = [ireq[c] EXCEPT !.stage = stage, !.entry = e]
  OBVIOUS
<1>2. ireq' = [ireq EXCEPT ![c] = r] /\ UNCHANGED call /\ ireq[c] \in IReqs
  BY <1>1, CallTypes DEF Proceed
<1>3. /\ ireq'[c] = r
      /\ \A d \in Ctxs \ {c} :
           /\ ireq'[d] = ireq[d]
           /\ Refers(d)' = Refers(d) /\ Modifies(d)' = Modifies(d)
           /\ Waits(d)' = Waits(d) /\ Sticky(d)' = Sticky(d)
  BY <1>2, Others
<1>4. r.stage = stage /\ r.entry = e /\ r.no_lookup = ireq[c].no_lookup
  BY <1>1, <1>2 DEF IReqs
<1>5. /\ ~Sticky(c)' /\ (Modifies(c)' <=> stage = "modify") /\ (Waits(c)' <=> stage # "modify")
  BY <1>3, <1>4 DEF Sticky, Modifies, Waits
<1>6. /\ \A d, m \in Ctxs : d # c /\ Precedes(submit, d, m) => Precedes(submit', d, m)
      /\ \A d \in Ctxs : ~Precedes(submit, d, c)
      /\ ireq[c].stage = "queued"
  BY FirstOfSubmit
<1>7. StickyFirst'
  <2>1. ASSUME NEW d \in Ctxs, NEW m \in Ctxs, Deletes, Sticky(d)',
               call[m] # NULL, call[m].op \in ModOps
        PROVE  \/ ireq'[m].stage = "free"
               \/ Modifies(m)' /\ call[m].op = "PUT"
               \/ Precedes(submit', d, m)
    <3>1. d # c /\ Sticky(d)
      BY <1>3, <1>5, <2>1
    <3>2. \/ ireq[m].stage = "free"
          \/ Modifies(m) /\ call[m].op = "PUT"
          \/ Precedes(submit, d, m)
      BY <2>1, <3>1 DEF StoreInv, StickyFirst
    <3>3. m # c
      BY <1>6, <3>2 DEF Modifies
    <3> QED BY <1>3, <1>6, <3>1, <3>2, <3>3
  <2> QED BY <1>2, <2>1 DEF StickyFirst
<1> QED BY <1>2, <1>3, <1>4, <1>5, <1>7

\* The entry that a GET is about to read is the one of its key.
LEMMA GettingEntry ==
  ASSUME TypesHold, StoreInv, NEW c \in Ctxs, NEW e \in Entries, Getting(c, e)
  PROVE  /\ Processing(c, "GET") /\ index[call[c].key] = e /\ call[c].key \in Keys
         /\ call[c] # NULL /\ call[c].op = "GET" /\ ireq[c].stage = "queued"
<1>1. Processing(c, "GET") /\ e = EntryOf(c) /\ e # NULL
  BY DEF Getting
<1>2. ireq[c].stage = "queued" /\ call[c] # NULL /\ call[c].op = "GET" /\ call[c].key \in Keys
  BY <1>1, FirstOfSubmit
<1>3. index[call[c].key] = e
  BY <1>1 DEF EntryOf, StoreInv, RefersOK, Refers
<1> QED BY <1>1, <1>2, <1>3

LEMMA StoreGetStart ==
  ASSUME TypesHold, StoreInv, NEW c \in Ctxs, NEW e \in Entries, GetStart(c, e)
  PROVE  StoreInv'
<1>1. PICK stage : stage = IF desc[e].mem = "none" THEN "chunk" ELSE "load"
  OBVIOUS
<1>2. /\ Processing(c, "GET") /\ Proceed(c, e, stage) /\ stage \in {"chunk", "load", "modify"}
      /\ stage # "modify" /\ UNCHANGED index
      /\ entry' = [entry EXCEPT ![e].getting = TRUE]
  BY <1>1 DEF GetStart, Getting
<1>3. /\ index[call[c].key] = e /\ call[c] # NULL /\ call[c].op = "GET"
  BY GettingEntry DEF GetStart
<1>4. /\ UNCHANGED call
      /\ ireq'[c].entry = e /\ ~Sticky(c)' /\ ~Modifies(c)' /\ Waits(c)'
      /\ \A d \in Ctxs \ {c} :
           /\ ireq'[d] = ireq[d]
           /\ Refers(d)' = Refers(d) /\ Modifies(d)' = Modifies(d)
           /\ Waits(d)' = Waits(d) /\ Sticky(d)' = Sticky(d)
      /\ StickyFirst'
  BY <1>2, Proceeds
<1>5. /\ \A x \in Entries : /\ entry'[x].live = entry[x].live
                            /\ entry'[x].writing = entry[x].writing
                            /\ entry'[x].deleting = entry[x].deleting
                            /\ entry[x].getting => entry'[x].getting
      /\ entry'[e].getting
  BY <1>2, CallTypes DEF Flags
<1>6. IndexOK'
  BY <1>2, <1>5, CallTypes DEF StoreInv, IndexOK
<1>7. RefersOK'
  BY <1>2, <1>3, <1>4, <1>5 DEF StoreInv, RefersOK
<1>8. ~Modifies(c)
  BY <1>2, FirstOfSubmit DEF Modifies
<1>9. FlagsOwned'
  BY <1>4, <1>5, <1>8 DEF StoreInv, FlagsOwned
<1> QED BY <1>4, <1>6, <1>7, <1>9 DEF StoreInv

\* The request was looked up, or it will be, or the flag says who holds the entry:
\* the one caller that modifies, with a PUT under way.
LEMMA StoreGetResubmit ==
  ASSUME SafeCallers, CallsOwn, TypesHold, StoreInv,
         NEW c \in Ctxs, NEW e \in Entries, GetResubmit(c, e)
  PROVE  StoreInv'
<1>1. PICK r : r = [ireq[c] EXCEPT !.entry = e, !.no_lookup = @ \/ entry[e].writing]
  OBVIOUS
<1>2. /\ Getting(c, e) /\ (entry[e].writing \/ entry[e].deleting)
      /\ ireq' = [ireq EXCEPT ![c] = r] /\ UNCHANGED <<call, index, entry>>
  BY <1>1 DEF GetResubmit, Resubmit, store
<1>3. /\ Processing(c, "GET") /\ index[call[c].key] = e
      /\ call[c] # NULL /\ call[c].op = "GET" /\ ireq[c].stage = "queued"
  BY <1>2, GettingEntry
<1>4. /\ ireq'[c] = r
      /\ \A d \in Ctxs \ {c} :
           /\ ireq'[d] = ireq[d]
           /\ Refers(d)' = Refers(d) /\ Modifies(d)' = Modifies(d)
           /\ Waits(d)' = Waits(d) /\ Sticky(d)' = Sticky(d)
  BY <1>2, Others
<1>5. /\ r.stage = "queued" /\ r.entry = e
      /\ r.no_lookup = (ireq[c].no_lookup \/ entry[e].writing)
  BY <1>1, <1>3, CallTypes DEF IReqs
<1>6. /\ ~Modifies(c)' /\ ~Waits(c)' /\ ~Modifies(c) /\ ~Waits(c)
      /\ Refers(c)' => Sticky(c)'
      /\ Sticky(c)' => Sticky(c) \/ entry[e].writing
  BY <1>3, <1>4, <1>5 DEF Modifies, Waits, Refers, Sticky
<1>7. IndexOK'
  BY <1>2 DEF StoreInv, IndexOK
<1>8. RefersOK'
  BY <1>2, <1>3, <1>4, <1>5, <1>6 DEF StoreInv, RefersOK
<1>9. FlagsOwned'
  BY <1>2, <1>4, <1>6 DEF StoreInv, FlagsOwned
<1>10. ASSUME NEW m \in Ctxs, Deletes, Sticky(c)', call[m] # NULL, call[m].op \in ModOps
       PROVE  ireq[m].stage = "free" \/ (Modifies(m) /\ call[m].op = "PUT")
  <2>1. PICK w \in Ctxs : Modifies(w) /\ ireq[w].entry = e
                          /\ (entry[e].writing => call[w].op = "PUT")
    <3>1. CASE entry[e].writing
      BY <3>1 DEF StoreInv, FlagsOwned
    <3>2. CASE ~entry[e].writing
      BY <1>2, <3>2 DEF StoreInv, FlagsOwned
    <3> QED BY <3>1, <3>2
  <2>2. call[w] # NULL /\ call[w].op \in ModOps
    BY <2>1 DEF StoreInv, RefersOK
  <2>3. w = m
    BY <1>10, <2>2, OneOfEach
  <2>4. CASE entry[e].writing
    BY <2>1, <2>3, <2>4
  <2>5. CASE ~entry[e].writing
    <3>1. Sticky(c)
      BY <1>6, <1>10, <2>5
    <3>2. \/ ireq[m].stage = "free"
          \/ Modifies(m) /\ call[m].op = "PUT"
          \/ Precedes(submit, c, m)
      BY <1>10, <3>1 DEF StoreInv, StickyFirst
    <3>3. Precedes(submit, c, m) => m \in Queued
      BY PrecedesElems, CallTypes DEF TypesHold, WorkInv, CallInv, CallsApart, QueuesApart
    <3> QED BY <2>1, <2>3, <3>2, <3>3 DEF Modifies, Queued
  <2> QED BY <2>4, <2>5
<1>11. StickyFirst'
  <2>1. /\ \A d, m \in Ctxs : d # c /\ Precedes(submit, d, m) => Precedes(submit', d, m)
    BY <1>3, FirstOfSubmit
  <2>2. ASSUME NEW d \in Ctxs, NEW m \in Ctxs, Deletes, Sticky(d)',
               call[m] # NULL, call[m].op \in ModOps
        PROVE  \/ ireq'[m].stage = "free"
               \/ Modifies(m)' /\ call[m].op = "PUT"
               \/ Precedes(submit', d, m)
    <3>1. m # c
      BY <1>3, <2>2 DEF ModOps
    <3>2. CASE d = c
      BY <1>4, <1>10, <2>2, <3>1, <3>2
    <3>3. CASE d # c
      <4>1. Sticky(d)
        BY <1>4, <2>2, <3>3
      <4>2. \/ ireq[m].stage = "free"
            \/ Modifies(m) /\ call[m].op = "PUT"
            \/ Precedes(submit, d, m)
        BY <2>2, <4>1 DEF StoreInv, StickyFirst
      <4> QED BY <1>4, <2>1, <3>1, <3>3, <4>2
    <3> QED BY <3>2, <3>3
  <2> QED BY <1>2, <2>2 DEF StickyFirst
<1> QED BY <1>7, <1>8, <1>9, <1>11 DEF StoreInv

LEMMA StoreChunkReady ==
  ASSUME TypesHold, StoreInv, NEW c \in Ctxs, ChunkReady(c)
  PROVE  StoreInv'
<1>1. PICK r : r = [ireq[c] EXCEPT !.stage = "load"]
  OBVIOUS
<1>2. /\ ireq[c].stage = "chunk" /\ ireq' = [ireq EXCEPT ![c] = r]
      /\ UNCHANGED <<call, index, entry, submit>>
  BY <1>1 DEF ChunkReady, Completing
<1>3. /\ ireq'[c] = r
      /\ \A d \in Ctxs \ {c} :
           /\ ireq'[d] = ireq[d]
           /\ Refers(d)' = Refers(d) /\ Modifies(d)' = Modifies(d)
           /\ Waits(d)' = Waits(d) /\ Sticky(d)' = Sticky(d)
  BY <1>2, Others
<1>4. r.stage = "load" /\ r.entry = ireq[c].entry
  BY <1>1, CallTypes DEF IReqs
<1>5. /\ Waits(c) /\ Waits(c)' /\ ~Modifies(c) /\ ~Modifies(c)' /\ ~Sticky(c)'
      /\ Refers(c) /\ ireq'[c].entry = ireq[c].entry /\ ireq'[c].stage # "free"
  BY <1>2, <1>3, <1>4 DEF Waits, Modifies, Sticky, Refers
<1>6. IndexOK'
  BY <1>2 DEF StoreInv, IndexOK
<1>7. RefersOK'
  BY <1>2, <1>3, <1>5 DEF StoreInv, RefersOK
<1>8. FlagsOwned'
  BY <1>2, <1>3, <1>5 DEF StoreInv, FlagsOwned
<1>9. StickyFirst'
  <2>1. call[c].op = "GET"
    BY <1>5 DEF StoreInv, RefersOK
  <2> QED BY <1>2, <1>3, <1>5, <2>1 DEF StoreInv, StickyFirst, ModOps
<1> QED BY <1>6, <1>7, <1>8, <1>9 DEF StoreInv

-----------------------------------------------------------------------------
(* PUT and DELETE.                                                         *)

LEMMA StorePutNew ==
  ASSUME TypesHold, StoreInv, NEW c \in Ctxs, NEW e \in Entries, PutNew(c, e)
  PROVE  StoreInv'
<1>1. PICK k : k = call[c].key
  OBVIOUS
<1>2. /\ Processing(c, "PUT") /\ Proceed(c, e, "modify") /\ index[k] = NULL /\ ~entry[e].live
      /\ index' = [index EXCEPT ![k] = e]
      /\ entry' = [entry EXCEPT ![e] = [live |-> TRUE, getting |-> FALSE,
                                        writing |-> TRUE, deleting |-> FALSE]]
  BY <1>1 DEF PutNew
<1>3. call[c] # NULL /\ call[c].op = "PUT" /\ k \in Keys /\ ireq[c].stage = "queued" /\ e # NULL
  BY <1>1, <1>2, FirstOfSubmit, CallTypes
<1>4. /\ UNCHANGED call
      /\ ireq'[c].entry = e /\ ireq'[c].no_lookup = ireq[c].no_lookup
      /\ ~Sticky(c)' /\ Modifies(c)' /\ ~Waits(c)'
      /\ \A d \in Ctxs \ {c} :
           /\ ireq'[d] = ireq[d]
           /\ Refers(d)' = Refers(d) /\ Modifies(d)' = Modifies(d)
           /\ Waits(d)' = Waits(d) /\ Sticky(d)' = Sticky(d)
      /\ StickyFirst'
  BY <1>2, Proceeds
<1>5. ~Modifies(c) /\ ~Refers(c) /\ ~Refers(c)'
  <2>1. ~Modifies(c) /\ ~Refers(c)
    BY <1>3 DEF StoreInv, RefersOK, Modifies
  <2> QED BY <1>4, <2>1 DEF Refers
<1>6. /\ \A x \in Entries : x # e => entry'[x] = entry[x]
      /\ entry'[e].live /\ ~entry'[e].deleting
      /\ index'[k] = e /\ \A j \in Keys \ {k} : index'[j] = index[j] /\ index[j] # e
  BY <1>2, <1>3, CallTypes DEF StoreInv, IndexOK
<1>7. IndexOK'
  <2>1. \A j \in Keys : index'[j] # NULL => index'[j] \in Entries
    BY <1>6, CallTypes
  <2>2. \A j \in Keys : index'[j] # NULL => entry'[index'[j]].live
    BY <1>6, <2>1 DEF StoreInv, IndexOK
  <2>3. \A i, j \in Keys : index'[i] = index'[j] /\ index'[i] # NULL => i = j
    BY <1>6 DEF StoreInv, IndexOK
  <2> QED BY <2>2, <2>3 DEF IndexOK
<1>8. \A d \in Ctxs : Refers(d) \/ Modifies(d) =>
        call[d].key \in Keys /\ call[d].key # k /\ ireq[d].entry # e
  <2>1. ASSUME NEW d \in Ctxs, Refers(d) \/ Modifies(d)
        PROVE  call[d].key \in Keys /\ call[d].key # k /\ ireq[d].entry # e
    <3>1. /\ call[d] # NULL /\ ireq[d].entry \in Entries
          /\ index[call[d].key] = ireq[d].entry
      BY <2>1 DEF StoreInv, RefersOK
    <3>2. call[d].key \in Keys /\ NULL \notin Entries
      BY <3>1, CallTypes
    <3>3. entry[ireq[d].entry].live
      BY <3>1, <3>2 DEF StoreInv, IndexOK
    <3> QED BY <1>2, <3>1, <3>2, <3>3
  <2> QED BY <2>1
<1>9. RefersOK'
  <2>1. ASSUME NEW d \in Ctxs \ {c}, Refers(d)' \/ Modifies(d)'
        PROVE  /\ call'[d] # NULL
               /\ ireq'[d].entry \in Entries /\ index'[call'[d].key] = ireq'[d].entry
               /\ Refers(d)' => call'[d].op = "GET" /\ (Sticky(d)' \/ Waits(d)')
               /\ Waits(d)' /\ Deletes => entry'[ireq'[d].entry].getting
               /\ Modifies(d)' => call'[d].op \in ModOps
    BY <1>4, <1>6, <1>8, <2>1 DEF StoreInv, RefersOK
  <2>2. /\ call'[c] # NULL /\ call'[c].op \in ModOps
        /\ ireq'[c].entry \in Entries /\ index'[call'[c].key] = ireq'[c].entry
    BY <1>1, <1>3, <1>4, <1>6 DEF ModOps
  <2> QED BY <1>4, <1>5, <2>1, <2>2 DEF RefersOK
<1>10. FlagsOwned'
  <2>1. ASSUME NEW x \in Entries, x # e
        PROVE  /\ entry'[x].writing
                    => \E d \in Ctxs : Modifies(d)' /\ ireq'[d].entry = x /\ call'[d].op = "PUT"
               /\ entry'[x].deleting
                    => \E d \in Ctxs : Modifies(d)' /\ ireq'[d].entry = x /\ call'[d].op = "DELETE"
    <3>1. entry'[x] = entry[x] /\ \A d \in Ctxs : Modifies(d) => d # c
      BY <1>5, <1>6, <2>1
    <3> QED BY <1>4, <3>1 DEF StoreInv, FlagsOwned
  <2>2. Modifies(c)' /\ ireq'[c].entry = e /\ call'[c].op = "PUT"
    BY <1>3, <1>4
  <2> QED BY <1>6, <2>1, <2>2 DEF FlagsOwned
<1> QED BY <1>4, <1>7, <1>9, <1>10 DEF StoreInv

\* PUT and DELETE of an entry that is in the index.
LEMMA StoreModifyStart ==
  ASSUME TypesHold, StoreInv, NEW c \in Ctxs, NEW e \in Entries,
         PutStart(c, e) \/ DeleteStart(c, e)
  PROVE  StoreInv'
<1>1. PICK op \in ModOps : /\ Modifying(c, op, e) /\ Proceed(c, e, "modify") /\ UNCHANGED index
                           /\ op = "PUT" => entry' = [entry EXCEPT ![e].writing = TRUE]
                           /\ op = "DELETE" => entry' = [entry EXCEPT ![e].deleting = TRUE]
  BY DEF PutStart, DeleteStart, ModOps
<1>2. /\ Processing(c, op) /\ index[call[c].key] = e
  BY <1>1 DEF Modifying
<1>3. call[c] # NULL /\ call[c].op = op /\ ireq[c].stage = "queued"
  BY <1>2, FirstOfSubmit
<1>4. /\ UNCHANGED call
      /\ ireq'[c].entry = e /\ ireq'[c].no_lookup = ireq[c].no_lookup
      /\ ~Sticky(c)' /\ Modifies(c)' /\ ~Waits(c)'
      /\ \A d \in Ctxs \ {c} :
           /\ ireq'[d] = ireq[d]
           /\ Refers(d)' = Refers(d) /\ Modifies(d)' = Modifies(d)
           /\ Waits(d)' = Waits(d) /\ Sticky(d)' = Sticky(d)
      /\ StickyFirst'
  BY <1>1, <1>2, Proceeds
<1>5. ~Modifies(c) /\ ~Refers(c) /\ ~Refers(c)'
  <2>1. ~Modifies(c) /\ ~Refers(c)
    BY <1>3 DEF StoreInv, RefersOK, Modifies, ModOps
  <2> QED BY <1>4, <2>1 DEF Refers
<1>6. \A x \in Entries :
        /\ entry'[x].live = entry[x].live /\ entry'[x].getting = entry[x].getting
        /\ entry'[x].writing => entry[x].writing \/ (x = e /\ op = "PUT")
        /\ entry'[x].deleting => entry[x].deleting \/ (x = e /\ op = "DELETE")
  <2>1. CASE op = "PUT"
    BY <1>1, <2>1, CallTypes DEF Flags
  <2>2. CASE op = "DELETE"
    BY <1>1, <2>2, CallTypes DEF Flags
  <2> QED BY <2>1, <2>2 DEF ModOps
<1>7. IndexOK'
  BY <1>1, <1>6, CallTypes DEF StoreInv, IndexOK
<1>8. RefersOK'
  BY <1>1, <1>2, <1>3, <1>4, <1>5, <1>6 DEF StoreInv, RefersOK
<1>9. FlagsOwned'
  <2>1. \A d \in Ctxs : Modifies(d) => d # c /\ Modifies(d)' /\ ireq'[d] = ireq[d]
    BY <1>4, <1>5
  <2> QED BY <1>3, <1>4, <1>6, <2>1 DEF StoreInv, FlagsOwned
<1> QED BY <1>4, <1>7, <1>8, <1>9 DEF StoreInv

LEMMA StoreModifyResubmit ==
  ASSUME TypesHold, StoreInv, NEW c \in Ctxs, NEW e \in Entries, ModifyResubmit(c, e)
  PROVE  StoreInv'
<1>1. PICK op \in ModOps : /\ Processing(c, op)
                           /\ UNCHANGED <<call, ireq, index, entry>>
  BY DEF ModifyResubmit, Modifying, Resubmit, ModOps, store
<1>2. /\ call[c].op = op /\ ireq[c].stage = "queued"
      /\ \A d, m \in Ctxs : d # c /\ Precedes(submit, d, m) => Precedes(submit', d, m)
  BY <1>1, FirstOfSubmit
<1>3. ~Sticky(c)
  BY <1>2 DEF StoreInv, RefersOK, Refers, Sticky, ModOps
<1>4. \A d \in Ctxs : /\ Refers(d)' = Refers(d) /\ Modifies(d)' = Modifies(d)
                      /\ Waits(d)' = Waits(d) /\ Sticky(d)' = Sticky(d)
  BY <1>1 DEF Refers, Modifies, Waits, Sticky
<1>5. IndexOK' /\ RefersOK' /\ FlagsOwned'
  BY <1>1, <1>4 DEF StoreInv, IndexOK, RefersOK, FlagsOwned
<1>6. StickyFirst'
  BY <1>1, <1>2, <1>3, <1>4 DEF StoreInv, StickyFirst
<1> QED BY <1>5, <1>6 DEF StoreInv

-----------------------------------------------------------------------------
(* The poll and the callers.                                               *)

LEMMA StoreEnqueue ==
  ASSUME BufInv, TypesHold, StoreInv, NEW c \in Ctxs, Enqueue(c)
  PROVE  StoreInv'
<1>1. /\ call[c] = NULL /\ UNCHANGED <<ireq, index, entry, submit>>
      /\ \A d \in Ctxs \ {c} : call'[d] = call[d]
  BY CallTypes
     DEF Enqueue, store, BufInv, RingsTyped, TypesHold, WorkInv, CallInv, CallsApart, CallsCarried
<1>2. \A d \in Ctxs : /\ Refers(d)' = Refers(d) /\ Modifies(d)' = Modifies(d)
                      /\ Waits(d)' = Waits(d) /\ Sticky(d)' = Sticky(d)
  BY <1>1 DEF Refers, Modifies, Waits, Sticky
<1>3. ~Refers(c) /\ ~Modifies(c) /\ ireq[c].stage = "free"
  BY <1>1 DEF StoreInv, RefersOK, TypesHold, WorkInv, CallInv, CallsApart, CallsCarried, Used
<1>4. IndexOK'
  BY <1>1 DEF StoreInv, IndexOK
<1>5. RefersOK'
  BY <1>1, <1>2, <1>3 DEF StoreInv, RefersOK
<1>6. FlagsOwned'
  BY <1>1, <1>2, <1>3 DEF StoreInv, FlagsOwned
<1>7. StickyFirst'
  <2>1. ASSUME NEW d \in Ctxs, NEW m \in Ctxs, Deletes, Sticky(d)',
               call'[m] # NULL, call'[m].op \in ModOps
        PROVE  \/ ireq'[m].stage = "free"
               \/ Modifies(m)' /\ call'[m].op = "PUT"
               \/ Precedes(submit', d, m)
    <3>1. CASE m = c
      BY <1>1, <1>3, <3>1
    <3>2. CASE m # c
      BY <1>1, <1>2, <2>1, <3>2 DEF StoreInv, StickyFirst
    <3> QED BY <3>1, <3>2
  <2> QED BY <2>1 DEF StickyFirst
<1> QED BY <1>4, <1>5, <1>6, <1>7 DEF StoreInv

LEMMA StorePollStart ==
  ASSUME TypesHold, StoreInv, PollStart
  PROVE  StoreInv'
<1>1. submit' = Reverse(resubmit) \o submit /\ UNCHANGED <<call, ireq, index, entry>>
  BY DEF PollStart, callers, store
<1>2. PICK p, s : p = Reverse(resubmit) /\ s = submit
  OBVIOUS
<1>3. p \in Seq(Ctxs) /\ s \in Seq(Ctxs) /\ submit' = p \o s
  BY <1>1, <1>2, ElemsReversed, CallTypes DEF TypesHold, WorkInv, CallInv, CallsTyped
<1>4. \A c, m \in Ctxs : Precedes(submit, c, m) => Precedes(submit', c, m)
  BY <1>2, <1>3, PrecedesConcat
<1> QED BY <1>1, <1>4, StoreFrame

\* Every GET that is retried is in the submit queue by then: new requests come
\* behind it.
LEMMA StorePollWrap ==
  ASSUME BufInv, TypesHold, StoreInv, RetryFirst, PollWrap
  PROVE  StoreInv'
<1>1. PICK new : new = [i \in 1 .. Len(req_array) |-> buf[req_array[i]]]
  OBVIOUS
<1>2. /\ pc = "wrap" /\ submit' = submit \o new
      /\ ireq' = [c \in Ctxs |-> IF c \in ToSet(new) THEN [FreeReq EXCEPT !.stage = "queued"]
                                            ELSE ireq[c]]
      /\ UNCHANGED <<call, index, entry>>
  BY <1>1 DEF PollWrap, callers, store
<1>3. /\ new \in Seq(Ctxs) /\ \A c \in ToSet(new) : ireq[c].stage = "free"
  <2>1. req_array \in Seq(Bufs) /\ NamesIn(req_array, buf, Ctxs)
        /\ \A b \in ToSet(req_array) : ireq[buf[b]].stage = "free"
    BY <1>2 DEF BufInv, RingsTyped, TypesHold, WorkInv, CallInv, CallsApart, BufsName,
                PublishedBufs, NamesIn
  <2>2. PICK a : a = req_array
    OBVIOUS
  <2>3. a \in Seq(Bufs) /\ NamesIn(a, buf, Ctxs)
    BY <2>1, <2>2
  <2>4. DOMAIN a = 1 .. Len(a) /\ new = Named(a, buf)
    BY <1>1, <2>2, <2>3, LenProperties DEF Named
  <2>5. new \in Seq(Ctxs)
    BY <2>3, <2>4, NamedTyped
  <2>6. \A c \in ToSet(new) : \E b \in ToSet(a) : c = buf[b]
    BY <2>4 DEF ToSet, Named
  <2> QED BY <2>1, <2>2, <2>5, <2>6
<1>4. \A c \in Ctxs : /\ c \in ToSet(new) => /\ ireq'[c].stage = "queued" /\ ~ireq'[c].no_lookup
                                             /\ ireq[c].stage = "free"
                      /\ c \notin ToSet(new) => ireq'[c] = ireq[c]
  BY <1>2, <1>3 DEF FreeReq
<1>5. \A c \in Ctxs : /\ Modifies(c)' = Modifies(c) /\ Waits(c)' = Waits(c)
                      /\ Sticky(c)' = Sticky(c)
                      /\ c \in ToSet(new) => ~Refers(c)' /\ ~Modifies(c)
                      /\ c \notin ToSet(new) => Refers(c)' = Refers(c)
  BY <1>4 DEF Modifies, Waits, Sticky, Refers
<1>6. IndexOK'
  BY <1>2 DEF StoreInv, IndexOK
<1>7. RefersOK'
  BY <1>2, <1>4, <1>5 DEF StoreInv, RefersOK
<1>8. FlagsOwned'
  BY <1>2, <1>4, <1>5 DEF StoreInv, FlagsOwned
<1>9. PICK s : s = submit
  OBVIOUS
<1>10. s \in Seq(Ctxs) /\ submit' = s \o new
  BY <1>2, <1>9, CallTypes
<1>11. \A c, m : Precedes(s \o new, c, m) <=> \/ Precedes(s, c, m) \/ Precedes(new, c, m)
                                              \/ c \in ToSet(s) /\ m \in ToSet(new)
  BY <1>3, <1>10, PrecedesConcat
<1>12. \A c \in Ctxs : Sticky(c) => c \in ToSet(s)
  <2>1. ToSet(resubmit) = {}
    BY <1>2, ElemsEmpty DEF RetryFirst
  <2> QED BY <1>9, <2>1 DEF Sticky, Queued, TypesHold, WorkInv, CallInv, CallsApart, QueuesApart
<1>13. StickyFirst'
  <2>1. ASSUME NEW c \in Ctxs, NEW m \in Ctxs, Deletes, Sticky(c)',
               call[m] # NULL, call[m].op \in ModOps
        PROVE  \/ ireq'[m].stage = "free"
               \/ Modifies(m)' /\ call[m].op = "PUT"
               \/ Precedes(submit', c, m)
    <3>1. Sticky(c)
      BY <1>5, <2>1
    <3>2. CASE m \in ToSet(new)
      BY <1>10, <1>11, <1>12, <3>1, <3>2
    <3>3. CASE m \notin ToSet(new)
      <4>1. \/ ireq[m].stage = "free"
            \/ Modifies(m) /\ call[m].op = "PUT"
            \/ Precedes(s, c, m)
        BY <1>9, <2>1, <3>1 DEF StoreInv, StickyFirst
      <4> QED BY <1>4, <1>5, <1>10, <1>11, <3>3, <4>1
    <3> QED BY <3>2, <3>3
  <2> QED BY <1>2, <2>1 DEF StickyFirst
<1> QED BY <1>6, <1>7, <1>8, <1>13 DEF StoreInv

LEMMA StoreInvStep ==
  ASSUME SafeCallers, TypesHold, PairInv, [Next]_vars
  PROVE  StoreInv'
<1> USE DEF PairInv
<1>1. StoreInv /\ CallsOwn /\ RetryFirst /\ BufInv
  BY DEF StoreInv, TypesHold, WorkInv, CountInv
<1>2. CASE UNCHANGED vars
  BY <1>1, <1>2, StoreFrame DEF vars, callers, store
<1>3. CASE Poll
  <2>1. CASE PollDequeue \/ PollRefill \/ PollEnd
    BY <1>1, <2>1, StoreFrame DEF PollDequeue, PollRefill, PollEnd, callers, store
  <2> QED BY <1>1, <1>3, <2>1, StorePollStart, StorePollWrap DEF Poll
<1>4. ASSUME NEW c \in Ctxs, GetFreeReqBuffer(c) \/ UseFreedEntry(c) PROVE StoreInv'
  BY <1>1, <1>4, StoreFrame DEF GetFreeReqBuffer, UseFreedEntry, callers, store
<1>5. ASSUME NEW c \in Ctxs, Enqueue(c) PROVE StoreInv'
  BY <1>1, <1>5, StoreEnqueue
<1>6. ASSUME NEW c \in Ctxs, Process(c) PROVE StoreInv'
  <2>1. CASE GetNotExist(c) \/ DeleteNotExist(c) \/ Scan(c)
    BY <1>1, <2>1, StoreAnswered DEF GetNotExist, DeleteNotExist, Scan, Finish, store
  <2>2. ASSUME NEW e \in Entries, GetResubmit(c, e) \/ GetStart(c, e) \/ GetCached(c, e)
        PROVE  StoreInv'
    BY <1>1, <2>2, StoreGetResubmit, StoreGetStart, StoreGetCached
  <2>3. ASSUME NEW e \in Entries, PutNew(c, e) \/ PutStart(c, e) \/ DeleteStart(c, e)
                                  \/ ModifyResubmit(c, e)
        PROVE  StoreInv'
    BY <1>1, <2>3, StorePutNew, StoreModifyStart, StoreModifyResubmit
  <2> QED BY <1>6, <2>1, <2>2, <2>3 DEF Process
<1>7. ASSUME NEW c \in Ctxs, Complete(c) PROVE StoreInv'
  BY <1>1, <1>7, StoreChunkReady, StoreLoadDone, StorePutDone, StoreDeleteDone DEF Complete
<1>8. ASSUME NEW e \in Entries, Evict(e) PROVE StoreInv'
  BY <1>1, <1>8, StoreFrame DEF Evict, callers
<1> QED BY <1>2, <1>3, <1>4, <1>5, <1>6, <1>7, <1>8 DEF Next

SafeInv == TypesHold /\ PairInv

LEMMA SafeInvInit == Init => SafeInv
  BY WorkInvInit, RestTypedInit, PairInvInit DEF SafeInv, TypesHold

LEMMA SafeInvStep ==
  ASSUME SafeCallers
  PROVE  SafeInv /\ [Next]_vars => SafeInv'
<1> SUFFICES ASSUME SafeInv, [Next]_vars PROVE SafeInv'
  OBVIOUS
<1>1. TypesHold'
  BY WorkInvStep, RestTypedStep DEF SafeInv, TypesHold
<1>2. StoreInv'
  BY StoreInvStep DEF SafeInv
<1>3. CallsOwn' /\ RetryFirst'
  BY CallsOwnStep, RetryFirstStep DEF SafeInv, PairInv
<1> QED BY <1>1, <1>2, <1>3 DEF SafeInv, PairInv, StoreInv

\* Unless some call deletes and several callers read, or several modify, no GET uses
\* a freed entry, though a GET that waited for a writer is
\* retried without a lookup ever after (no_lookup), and one bit stands for all
\* the GETs of an entry (getting).
THEOREM WorkerNoDanglingEntry ==
  ASSUME SafeCallers
  PROVE  Spec => []NoDanglingEntry
<1>1. SafeInv => NoDanglingEntry
  <2> SUFFICES ASSUME SafeInv, NEW c \in Ctxs, Refers(c) PROVE entry[ireq[c].entry].live
    BY DEF NoDanglingEntry, Refers, Waits
  <2>1. /\ call[c] # NULL /\ ireq[c].entry \in Entries
        /\ index[call[c].key] = ireq[c].entry
    BY DEF SafeInv, PairInv, RefersOK
  <2>2. call[c].key \in Keys /\ NULL \notin Entries
    BY <2>1, CallTypes DEF SafeInv
  <2> QED BY <2>1, <2>2 DEF SafeInv, PairInv, IndexOK
<1> QED BY <1>1, SafeInvInit, SafeInvStep, PTL DEF Spec

-----------------------------------------------------------------------------
(* The promise to the callers.                                             *)

Present == {k \in Keys : index[k] # NULL}

\* A step that callers do not see.
LEMMA KvUnseen ==
  ASSUME UNCHANGED <<call, res, index>>
  PROVE  [Kv!Next]_<<Present, call, res>>
  BY DEF Present

\* A call is answered, and the keys present stay: the answer must be allowed.
LEMMA KvAnswer ==
  ASSUME TypesHold, NEW c \in Ctxs, NEW r, CallBack(c, r), UNCHANGED index,
         call[c] # NULL, call[c].op # "DELETE" \/ call[c].key \notin Present,
         r \in Kv!Allowed(c)
  PROVE  [Kv!Next]_<<Present, call, res>>
<1>1. /\ call' = [call EXCEPT ![c] = NULL] /\ res' = [res EXCEPT ![c] = r]
  BY DEF CallBack
<1>2. Present' = IF call[c].op = "DELETE" THEN Present \ {call[c].key} ELSE Present
  BY DEF Present
<1>3. Kv!Answer(c)
  BY <1>1, <1>2 DEF Kv!Answer, Present
<1> QED BY <1>3 DEF Kv!Next

LEMMA KvStep ==
  ASSUME SafeCallers, SafeInv, [Next]_vars
  PROVE  [Kv!Next]_<<Present, call, res>>
<1>1. TypesHold /\ StoreInv /\ BufInv
  BY DEF SafeInv, PairInv, StoreInv, TypesHold, WorkInv, CountInv
<1>2. CASE UNCHANGED vars
  BY <1>2, KvUnseen DEF vars, callers, store
<1>3. CASE Poll
  BY <1>3, KvUnseen
     DEF Poll, PollStart, PollDequeue, PollWrap, PollRefill, PollEnd, callers, store
<1>4. ASSUME NEW c \in Ctxs, GetFreeReqBuffer(c) \/ UseFreedEntry(c)
      PROVE  [Kv!Next]_<<Present, call, res>>
  BY <1>4, KvUnseen DEF GetFreeReqBuffer, UseFreedEntry, callers, store
<1>5. ASSUME NEW c \in Ctxs, Enqueue(c) PROVE [Kv!Next]_<<Present, call, res>>
  <2>1. call[c] = NULL
    BY <1>1, <1>5
       DEF Enqueue, BufInv, RingsTyped, TypesHold, WorkInv, CallInv, CallsApart, CallsCarried
  <2>2. Kv!Call(c)
    BY <1>5, <2>1 DEF Enqueue, store, Kv!Call
  <2> QED BY <2>2 DEF Kv!Next
<1>6. ASSUME NEW c \in Ctxs, Process(c) PROVE [Kv!Next]_<<Present, call, res>>
  <2>1. ASSUME NEW op, Processing(c, op)
        PROVE  /\ call[c] # NULL /\ call[c].op = op /\ call[c].key \in Keys
               /\ ireq[c].stage = "queued"
    BY <1>1, <2>1, FirstOfSubmit
  <2>2. CASE GetNotExist(c)
    <3>1. /\ Processing(c, "GET") /\ EntryOf(c) = NULL /\ CallBack(c, "not_exist")
          /\ UNCHANGED index
      BY <2>2 DEF GetNotExist, Finish, store
    <3>2. index[call[c].key] = NULL
      BY <1>1, <3>1, CallTypes DEF EntryOf, StoreInv, RefersOK, Refers
    <3>3. "not_exist" \in Kv!Allowed(c)
      BY <2>1, <3>1, <3>2 DEF Kv!Allowed
    <3> QED BY <1>1, <2>1, <3>1, <3>3, KvAnswer
  <2>3. CASE DeleteNotExist(c)
    <3>1. /\ Processing(c, "DELETE") /\ index[call[c].key] = NULL
          /\ CallBack(c, "not_exist") /\ UNCHANGED index
      BY <2>3 DEF DeleteNotExist, Finish, store
    <3>2. "not_exist" \in Kv!Allowed(c) /\ call[c].key \notin Present
      BY <2>1, <3>1 DEF Kv!Allowed, Present
    <3> QED BY <1>1, <2>1, <3>1, <3>2, KvAnswer
  <2>4. CASE Scan(c)
    <3>1. Processing(c, "SCAN") /\ CallBack(c, "success") /\ UNCHANGED index
      BY <2>4 DEF Scan, Finish, store
    <3>2. "success" \in Kv!Allowed(c)
      BY <2>1, <3>1 DEF Kv!Allowed
    <3> QED BY <1>1, <2>1, <3>1, <3>2, KvAnswer
  <2>5. ASSUME NEW e \in Entries, GetCached(c, e) PROVE [Kv!Next]_<<Present, call, res>>
    <3>1. Getting(c, e) /\ CallBack(c, "success") /\ UNCHANGED index
      BY <2>5 DEF GetCached, Finish
    <3>2. /\ call[c] # NULL /\ call[c].op = "GET" /\ call[c].key \in Keys
          /\ index[call[c].key] # NULL
      BY <1>1, <3>1, GettingEntry, CallTypes
    <3>3. "success" \in Kv!Allowed(c)
      BY <3>2 DEF Kv!Allowed
    <3> QED BY <1>1, <3>1, <3>2, <3>3, KvAnswer
  <2>6. ASSUME NEW e \in Entries,
               GetResubmit(c, e) \/ GetStart(c, e) \/ PutStart(c, e) \/ DeleteStart(c, e)
               \/ ModifyResubmit(c, e)
        PROVE  [Kv!Next]_<<Present, call, res>>
    BY <2>6, KvUnseen
       DEF GetResubmit, GetStart, PutStart, DeleteStart, ModifyResubmit, Resubmit, Proceed, store
  <2>7. ASSUME NEW e \in Entries, PutNew(c, e) PROVE [Kv!Next]_<<Present, call, res>>
    <3>1. /\ Processing(c, "PUT") /\ UNCHANGED <<call, res>>
          /\ index' = [index EXCEPT ![call[c].key] = e]
      BY <2>7 DEF PutNew, Proceed
    <3>2. Present' = Present \cup {call[c].key}
      BY <1>1, <2>1, <3>1, CallTypes DEF Present
    <3>3. Kv!TakeEffect(c)
      BY <2>1, <3>1, <3>2 DEF Kv!TakeEffect, Present
    <3> QED BY <3>3 DEF Kv!Next
  <2> QED BY <1>6, <2>2, <2>3, <2>4, <2>5, <2>6, <2>7 DEF Process
<1>7. ASSUME NEW c \in Ctxs, Complete(c) PROVE [Kv!Next]_<<Present, call, res>>
  <2>1. ASSUME Refers(c) \/ Modifies(c)
        PROVE  /\ call[c] # NULL /\ call[c].key \in Present
               /\ Refers(c) => call[c].op = "GET"
    BY <1>1, <2>1, CallTypes DEF StoreInv, RefersOK, Present
  <2>2. CASE ChunkReady(c)
    BY <2>2, KvUnseen DEF ChunkReady
  <2>3. CASE LoadDone(c)
    <3>1. /\ ireq[c].stage = "load" /\ UNCHANGED index
          /\ \E r \in {"success", "eio"} : CallBack(c, r)
      BY <2>3 DEF LoadDone, Completing, Finish
    <3>2. call[c] # NULL /\ call[c].op = "GET" /\ call[c].key \in Present
      BY <2>1, <3>1 DEF Refers, Waits
    <3>3. "success" \in Kv!Allowed(c) /\ "eio" \in Kv!Allowed(c)
      BY <3>2 DEF Kv!Allowed, Present
    <3> QED BY <1>1, <3>1, <3>2, <3>3, KvAnswer
  <2>4. CASE PutDone(c)
    <3>1. /\ Modifies(c) /\ call[c].op = "PUT" /\ CallBack(c, "success") /\ UNCHANGED index
      BY <2>4 DEF PutDone, Completing, Finish, Modifies
    <3>2. "success" \in Kv!Allowed(c)
      BY <2>1, <3>1 DEF Kv!Allowed, Present
    <3> QED BY <1>1, <2>1, <3>1, <3>2, KvAnswer
  <2>5. CASE DeleteDone(c)
    <3>1. /\ Modifies(c) /\ call[c].op = "DELETE"
          /\ call' = [call EXCEPT ![c] = NULL] /\ res' = [res EXCEPT ![c] = "success"]
          /\ index' = [index EXCEPT ![call[c].key] = NULL]
      BY <2>5 DEF DeleteDone, Completing, Finish, CallBack, Modifies
    <3>2. "success" \in Kv!Allowed(c)
      BY <2>1, <3>1 DEF Kv!Allowed, Present
    <3>3. Present' = Present \ {call[c].key}
      BY <1>1, <3>1, CallTypes DEF Present
    <3>4. Kv!Answer(c)
      BY <2>1, <3>1, <3>2, <3>3 DEF Kv!Answer, Present
    <3> QED BY <3>4 DEF Kv!Next
  <2> QED BY <1>7, <2>2, <2>3, <2>4, <2>5 DEF Complete
<1>8. ASSUME NEW e \in Entries, Evict(e) PROVE [Kv!Next]_<<Present, call, res>>
  BY <1>8, KvUnseen DEF Evict, callers
<1> QED BY <1>2, <1>3, <1>4, <1>5, <1>6, <1>7, <1>8 DEF Next

\* With the same callers the worker implements KvSpec: each call takes effect once,
\* between its submission and its one answer, and a GET that was retried without a
\* lookup still tells the truth about its key.
THEOREM WorkerRefinesKvSpec ==
  ASSUME SafeCallers
  PROVE  Spec => RefinesKvSpec
<1>1. Init => Kv!Init
  BY DEF Init, Kv!Init
<1>2. SafeInv /\ [Next]_vars => [Kv!Next]_<<Present, call, res>>
  BY KvStep
<1> QED BY <1>1, <1>2, SafeInvInit, SafeInvStep, PTL DEF Spec, RefinesKvSpec, Kv!Spec, Present
=============================================================================
