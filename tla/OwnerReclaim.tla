---------------------------- MODULE OwnerReclaim ----------------------------
(***************************************************************************)
(* How the memory of one key on one owner is given back, by the master     *)
(* and the owner together.                                                 *)
(*                                                                         *)
(* Two protocols free an owner's committed slot.  The MASTER reclaims a    *)
(* GlobalShared slot with a Prepare / Commit / Finalize (or Abort)         *)
(* exchange (master_kv_router/reclaim.rs, client_kv_api/reclaim.rs); the   *)
(* OWNER evicts a LocalExclusive slot by fencing its own index, asking the *)
(* master to delete or demote the route, and then running the same         *)
(* Prepare / Commit / Finalize locally (client_kv_api/put.rs).  Both run   *)
(* against puts, deletes and their broadcasts, the owner's own gets of a   *)
(* GlobalShared slot, local readers and remote reads of the slot.          *)
(*                                                                         *)
(* One key, one owner; a value written by the owner is a generation (the   *)
(* code's put_id) with a slot of its own.  RPCs may be late or lost, never *)
(* duplicated (a retry is a request of its own).                           *)
(***************************************************************************)
EXTENDS OwnerSlots

CONSTANTS
  MaxGen,     \* generations of the key that are written
  MaxEpoch,   \* reclaim jobs the master starts
  MaxOp,      \* eviction requests the owner sends
  MaxTry,     \* retries of Abort and of Finalize (the code: 8)
  MaxReader   \* local readers of one MemoryInfo at a time

ASSUME BoundAssumption ==
  /\ MaxGen \in Nat /\ MaxEpoch \in Nat /\ MaxOp \in Nat
  /\ MaxTry \in Nat /\ MaxReader \in Nat

VARIABLES
  \* the master
  nextGen,  \* the last generation written
  epoch,    \* reclaim jobs started
  route,    \* the key's route: its generation, whether its memory replica is on
            \* the owner, and owner_local_indexed; gen = 0 when there is none
  gets,     \* inflight gets that hold the key's activity
  fence,    \* the reclaim item installed in the key's activity
  job,      \* the master's reclaim job
  hand,     \* the master's handlers of the owner's eviction requests
  \* between them
  net,      \* reclaim requests on their way to the owner
  bcast,    \* generations whose delete broadcast is on its way to the owner
  \* the owner
  slot,     \* the slot of each generation
  idx,      \* get_cached_info: the generation readable locally
  sel,      \* source_eviction_selection
  rec,      \* the reclaim record
  probes,   \* Prepares that have let go of the key lock to look at the slot
  pend,     \* pending_local_get_info: the hidden target of an owner get
  readers,  \* local readers of each generation's MemoryInfo
  lput,     \* a local-first put: its generation and step
  evict,    \* the eviction worker
  op,       \* eviction requests sent
  lget,     \* an owner's get of its own GlobalShared slot
  rget,     \* a remote read of the slot
  \* what the properties need to know of the past
  failed,   \* an assert!, expect or unwrap of the code was disappointed
  untold,   \* generations that lost their route without the owner acting on it:
            \* a delete broadcast that was lost, skipped or too early, a late
            \* eviction request, an eviction given up with the slot still held
  regressed \* generations an older get replaced in the owner's index

masterVars == <<nextGen, epoch, route, gets, fence, job, hand>>
netVars    == <<net, bcast>>
localVars  == <<idx, sel, rec, probes, pend, readers, lput>>
evictVars  == <<evict, op>>
ghostVars  == <<failed, untold, regressed>>
vars == <<masterVars, netVars, slot, localVars, evictVars, lget, rget, ghostVars>>

Gens == 1..MaxGen
NoRoute == [gen |-> 0, own |-> FALSE, indexed |-> FALSE]
Item    == [gen : Gens, epoch : Nat, why : {"master", "owner"}]
NoItem  == [gen |-> 0, epoch |-> 0, why |-> "none"]
NoRec   == [st |-> "none", item |-> NoItem, src |-> "none"]
NoJob   == [pc |-> "idle", item |-> NoItem, try |-> 0]
NoPut   == [pc |-> "idle", gen |-> 0]
NoEvict == [pc |-> "idle", gen |-> 0, out |-> "none", debt |-> FALSE]
NoLGet  == [pc |-> "idle", gen |-> 0, ext |-> FALSE, guard |-> FALSE, act |-> FALSE]
NoRGet  == [pc |-> "idle", gen |-> 0, act |-> FALSE]

EvictItem(g, o) == [gen |-> g, epoch |-> o, why |-> "owner"]

Init ==
  /\ nextGen = 0 /\ epoch = 0 /\ route = NoRoute /\ gets = 0 /\ fence = NoItem
  /\ job = NoJob /\ hand = [o \in 1..MaxOp |-> [pc |-> "none", gen |-> 0, resv |-> FALSE]]
  /\ net = {} /\ bcast = {}
  /\ slot = [g \in Gens |-> FreeSlot]
  /\ idx = 0 /\ sel = 0 /\ rec = NoRec /\ probes = {} /\ pend = 0
  /\ readers = [g \in Gens |-> 0]
  /\ lput = NoPut /\ evict = NoEvict /\ op = 0 /\ lget = NoLGet /\ rget = NoRGet
  /\ failed = FALSE /\ untold = {} /\ regressed = {}

-----------------------------------------------------------------------------
(* The owner's key control and the references a MemoryInfo holds.          *)

\* OwnerKeyControlState::local_access_fenced
Fenced == sel # 0 \/ rec # NoRec

\* Dropping one of the owner's own Arcs of generation g's MemoryInfo: the last
\* Arc releases the holder.
DropArc(s, g) == IF readers[g] = 0 THEN [s EXCEPT ![g] = ReleaseHolder(@)] ELSE s

\* Whether a local-first put may start: owner_materialization and external_get
\* make it wait for the get.
GetGuardsKey == lget.pc # "idle" /\ lget.guard

\* The old route of a put or a delete is broadcast to the owner that holds it.
BroadcastOld == bcast' = IF route.own THEN bcast \cup {route.gen} ELSE bcast

-----------------------------------------------------------------------------
(* Puts, the delete, and the delete broadcast.                             *)

\* reserve_external_local_first_put_key, the slot claim, and
\* install_precommit_local_visible_memory_info.
OwnerPutStart ==
  /\ nextGen < MaxGen /\ lput = NoPut /\ ~Fenced /\ ~GetGuardsKey
  /\ nextGen' = nextGen + 1
  /\ lput' = [pc |-> "precommit", gen |-> nextGen + 1]
  /\ slot' = [slot EXCEPT ![nextGen + 1] = RetainHolder(MarkPendingVisible(PreparedSlot))]
  /\ UNCHANGED <<epoch, route, gets, fence, job, hand, netVars, idx, sel, rec, probes, pend,
                 readers, evictVars, lget, rget, ghostVars>>

\* The PutDone of a local-first put at the master: reserve_inflight_put_key
\* refuses it while a reclaim is installed; otherwise the route is replaced.
OwnerPutCommit ==
  /\ lput.pc = "precommit" /\ fence = NoItem
  /\ route' = [gen |-> lput.gen, own |-> TRUE, indexed |-> TRUE]
  /\ BroadcastOld
  /\ lput' = [lput EXCEPT !.pc = "routed"]
  /\ UNCHANGED <<nextGen, epoch, gets, fence, job, hand, net, slot, idx, sel, rec, probes, pend,
                 readers, evictVars, lget, rget, ghostVars>>

\* The put fails before its route is committed; the precommit entry goes.
OwnerPutFail ==
  /\ lput.pc = "precommit"
  /\ lput' = NoPut
  /\ slot' = DropArc(slot, lput.gen)
  /\ UNCHANGED <<masterVars, netVars, idx, sel, rec, probes, pend, readers, evictVars, lget,
                 rget, ghostVars>>

\* The index entry replaced by a publication: its route reference goes, and
\* with its last Arc its holder.
ReplaceIndexed(s) ==
  IF idx = 0 THEN s ELSE DropArc([s EXCEPT ![idx] = ReleaseRoute(@)], idx)
ReplaceFails(s) == idx # 0 /\ ~RouteReleasable(s[idx])

\* promote_precommit_local_reserve_resident_slot_if_same
OwnerPutPublish ==
  /\ lput.pc = "routed"
  /\ LET g == lput.gen
         s == [slot EXCEPT ![g] = PromotePending(@)]
     IN  /\ slot' = ReplaceIndexed(s)
         /\ idx' = g
         /\ failed' = (failed \/ Fenced \/ ReplaceFails(s))
  /\ lput' = NoPut
  /\ UNCHANGED <<masterVars, netVars, sel, rec, probes, pend, readers, evictVars, lget, rget,
                 untold, regressed>>

\* A put whose value lives on another node replaces the route.
OtherPut ==
  /\ nextGen < MaxGen /\ fence = NoItem
  /\ nextGen' = nextGen + 1
  /\ route' = [gen |-> nextGen + 1, own |-> FALSE, indexed |-> FALSE]
  /\ BroadcastOld
  /\ UNCHANGED <<epoch, gets, fence, job, hand, net, slot, localVars, evictVars, lget, rget, ghostVars>>

\* do_delete_one_kv_all_replicas: it neither reserves the key's activity nor
\* looks at the reclaim fence.
MasterDelete ==
  /\ route # NoRoute
  /\ route' = NoRoute
  /\ BroadcastOld
  /\ UNCHANGED <<nextGen, epoch, gets, fence, job, hand, net, slot, localVars, evictVars, lget, rget,
                 ghostVars>>

\* apply_delete_client_kv_meta_cache_item behind a local fence: skipped.
BroadcastSkipped(g) ==
  /\ g \in bcast /\ Fenced
  /\ bcast' = bcast \ {g}
  /\ untold' = untold \cup {g}
  /\ UNCHANGED <<masterVars, net, slot, localVars, evictVars, lget, rget, failed, regressed>>

\* The broadcast RPC fails; nobody sends it again.
BroadcastLost(g) ==
  /\ g \in bcast
  /\ bcast' = bcast \ {g}
  /\ untold' = untold \cup {g}
  /\ UNCHANGED <<masterVars, net, slot, localVars, evictVars, lget, rget, failed, regressed>>

\* Mutant of BroadcastApply: the route of a GlobalShared slot is not released.
BroadcastApplyIndexOnly(g) ==
  /\ g \in bcast /\ ~Fenced
  /\ bcast' = bcast \ {g}
  /\ LET dropIdx == idx # 0 /\ idx <= g
     IN  /\ slot' = IF dropIdx THEN ReplaceIndexed(slot) ELSE slot
         /\ idx' = IF dropIdx THEN 0 ELSE idx
  /\ pend' = IF pend # 0 /\ pend <= g THEN 0 ELSE pend
  /\ untold' = IF lput.gen = g THEN untold \cup {g} ELSE untold
  /\ UNCHANGED <<masterVars, net, sel, rec, probes, readers, lput, evictVars, lget, rget,
                 failed, regressed>>

\* apply_delete_client_kv_meta_cache_item: the index and the hidden get up to
\* this generation, then the GlobalShared route of exactly this generation.  A
\* put of this generation that is not yet published is not among them.
BroadcastApply(g) ==
  /\ g \in bcast /\ ~Fenced
  /\ bcast' = bcast \ {g}
  /\ LET dropIdx  == idx # 0 /\ idx <= g
         dropPend == pend # 0 /\ pend <= g
         global   == slot[g].scope = "GlobalShared" /\ slot[g].route
         s1 == IF global THEN [slot EXCEPT ![g] = ReleaseRoute(@)] ELSE slot
         routeGone == global /\ idx = g
         s2 == IF dropIdx /\ ~routeGone THEN [s1 EXCEPT ![idx] = ReleaseRoute(@)] ELSE s1
     IN  /\ slot' = IF dropIdx THEN DropArc(s2, idx) ELSE s2
         /\ idx' = IF dropIdx THEN 0 ELSE idx
         /\ pend' = IF dropPend THEN 0 ELSE pend
         /\ failed' = (failed \/ (dropIdx /\ ~routeGone /\ ~RouteReleasable(s1[idx])))
  /\ untold' = IF lput.gen = g THEN untold \cup {g} ELSE untold
  /\ UNCHANGED <<masterVars, net, sel, rec, probes, readers, lput, evictVars, lget, rget,
                 regressed>>

-----------------------------------------------------------------------------
(* Readers: local ones, remote ones, and the owner's get of its own slot.  *)

\* local_visible_mem_holder clones the indexed MemoryInfo, unless fenced.
ReadStart ==
  /\ idx # 0 /\ ~Fenced /\ readers[idx] < MaxReader
  /\ readers' = [readers EXCEPT ![idx] = @ + 1]
  /\ UNCHANGED <<masterVars, netVars, slot, idx, sel, rec, probes, pend, lput, evictVars, lget,
                 rget, ghostVars>>

\* Whether one of the owner's own Arcs of g's MemoryInfo is alive.
OwnArc(g) ==
  \/ idx = g \/ sel = g \/ lput.gen = g
  \/ lget.pc \in {"hidden", "accepted", "rejected"} /\ lget.gen = g
  \/ rec.st = "Prepared" /\ rec.src = "index" /\ rec.item.gen = g

\* A reader drops its Arc; the last Arc of all releases the holder.
ReadEnd(g) ==
  /\ readers[g] > 0
  /\ readers' = [readers EXCEPT ![g] = @ - 1]
  /\ LET last == readers[g] = 1 /\ ~OwnArc(g)
     IN  /\ slot' = IF last THEN [slot EXCEPT ![g] = ReleaseHolder(@)] ELSE slot
         /\ failed' = (failed \/ (last /\ ~HolderReleasable(slot[g])))
  /\ UNCHANGED <<masterVars, netVars, idx, sel, rec, probes, pend, lput, evictVars, lget, rget,
                 untold, regressed>>

\* reserve_inflight_get_key: a get is planned only while no reclaim is
\* installed, and the plan holds the key's activity.
RemoteGetPlan ==
  /\ rget = NoRGet /\ route.own /\ fence = NoItem
  /\ gets' = gets + 1
  /\ rget' = [pc |-> "planned", gen |-> route.gen, act |-> TRUE]
  /\ UNCHANGED <<nextGen, epoch, route, fence, job, hand, netVars, slot, localVars, evictVars, lget,
                 ghostVars>>

Acts(get) == IF get.act THEN 1 ELSE 0

\* Mutant of RemoteGetAcquire: the lease is given by generation, unchecked.
RemoteGetAcquireAny ==
  /\ rget.pc = "planned"
  /\ slot' = [slot EXCEPT ![rget.gen] = AcquireSource(@)]
  /\ rget' = [rget EXCEPT !.pc = "leased"]
  /\ UNCHANGED <<masterVars, netVars, localVars, evictVars, lget, ghostVars>>

\* acquire_source at the owner: a lease, or a refusal that ends the get.
RemoteGetAcquire ==
  /\ rget.pc = "planned"
  /\ IF SourceReadable(slot[rget.gen])
     THEN /\ slot' = [slot EXCEPT ![rget.gen] = AcquireSource(@)]
          /\ rget' = [rget EXCEPT !.pc = "leased"]
          /\ UNCHANGED gets
     ELSE /\ rget' = NoRGet
          /\ gets' = gets - Acts(rget)
          /\ UNCHANGED slot
  /\ UNCHANGED <<nextGen, epoch, route, fence, job, hand, netVars, localVars, evictVars, lget, ghostVars>>

\* The transfer is over: release_source, and GetDone or GetRevoke.
RemoteGetDone ==
  /\ rget.pc = "leased"
  /\ slot' = [slot EXCEPT ![rget.gen] = ReleaseSource(@)]
  /\ rget' = NoRGet
  /\ gets' = gets - Acts(rget)
  /\ UNCHANGED <<nextGen, epoch, route, fence, job, hand, netVars, localVars, evictVars, lget, ghostVars>>

\* Mutant of RemoteGetExpire: the finished get gives the activity back again.
RemoteGetExpireTwice ==
  /\ rget.act
  /\ gets' = gets - 1
  /\ UNCHANGED <<nextGen, epoch, route, fence, job, hand, netVars, slot, localVars, evictVars, lget,
                 rget, ghostVars>>

\* The master's inflight entry expires under a get that is still running.
RemoteGetExpire ==
  /\ rget.act
  /\ rget' = [rget EXCEPT !.act = FALSE]
  /\ gets' = gets - 1
  /\ UNCHANGED <<nextGen, epoch, route, fence, job, hand, netVars, slot, localVars, evictVars, lget,
                 ghostVars>>

\* The owner's get of its own GlobalShared slot.  An external client's get owns
\* the key (external_get) from here on, and waits for a local put; batch_get, the
\* direct path, owns nothing yet.
OwnerGetPlan(ext) ==
  /\ lget = NoLGet /\ route.own /\ ~route.indexed /\ fence = NoItem
  /\ idx = 0 \/ Fenced
  /\ ext => lput = NoPut
  /\ gets' = gets + 1
  /\ lget' = [pc |-> "planned", gen |-> route.gen, ext |-> ext, guard |-> ext, act |-> TRUE]
  /\ UNCHANGED <<nextGen, epoch, route, fence, job, hand, netVars, slot, localVars, evictVars, rget,
                 ghostVars>>

OwnerGetExpire ==
  /\ lget.act
  /\ lget' = [lget EXCEPT !.act = FALSE]
  /\ gets' = gets - 1
  /\ UNCHANGED <<nextGen, epoch, route, fence, job, hand, netVars, slot, localVars, evictVars, rget,
                 ghostVars>>

\* install_hidden_owner_slot_get on an ExistingGlobalShared slot, and the
\* decision between the Async path (begin_async_get_key_materialization keeps
\* puts out) and the synchronous one (a local put is already there).
OwnerGetInstall ==
  /\ lget.pc = "planned"
  /\ LET g  == lget.gen
         ok == ~Fenced /\ pend = 0 /\ RouteOnly(slot[g]) /\ slot[g].scope = "GlobalShared"
     IN  IF ok
         THEN /\ slot' = [slot EXCEPT ![g] = RetainHolder(@)]
              /\ pend' = g
              /\ readers' = [readers EXCEPT ![g] = @ + 1]
              /\ lget' = [lget EXCEPT !.pc = "hidden", !.guard = lput = NoPut]
              /\ UNCHANGED gets
         ELSE /\ lget' = NoLGet
              /\ gets' = gets - Acts(lget)
              /\ UNCHANGED <<slot, pend, readers>>
  /\ UNCHANGED <<nextGen, epoch, route, fence, job, hand, netVars, idx, sel, rec, probes, lput,
                 evictVars, rget, ghostVars>>

\* GetDone at the master, promote_global_shared_committed_slot: the route becomes
\* owner-local again, or the get is rejected.  An expired get is rejected.
OwnerGetDone ==
  /\ lget.pc = "hidden"
  /\ LET ok == lget.act /\ route.own /\ route.gen = lget.gen /\ ~route.indexed
     IN  /\ route' = IF ok THEN [route EXCEPT !.indexed = TRUE] ELSE route
         /\ lget' = [lget EXCEPT !.pc = IF ok THEN "accepted" ELSE "rejected", !.act = FALSE]
  /\ gets' = gets - Acts(lget)
  /\ UNCHANGED <<nextGen, epoch, fence, job, hand, netVars, slot, localVars, evictVars, rget, ghostVars>>

\* promote_hidden_owner_slot_get.  A hidden target that a delete has closed
\* ends the get; a fence makes it try again.
OwnerGetPromote ==
  /\ lget.pc = "accepted"
  /\ IF pend = lget.gen
     THEN /\ ~Fenced
          /\ LET s == [slot EXCEPT ![pend] = [@ EXCEPT !.scope = "LocalExclusive"]]
             IN  /\ slot' = ReplaceIndexed(s)
                 /\ failed' = (failed \/ ReplaceFails(s))
          /\ regressed' = IF idx > pend THEN regressed \cup {idx} ELSE regressed
          /\ idx' = pend /\ pend' = 0
     ELSE /\ slot' = DropArc(slot, lget.gen)
          /\ UNCHANGED <<idx, pend, failed, regressed>>
  /\ lget' = NoLGet
  /\ UNCHANGED <<masterVars, netVars, sel, rec, probes, readers, lput, evictVars, rget, untold>>

\* abort_hidden_pending_local_get after a rejected GetDone.
OwnerGetAbort ==
  /\ lget.pc = "rejected"
  /\ slot' = DropArc(slot, lget.gen)
  /\ pend' = IF pend = lget.gen THEN 0 ELSE pend
  /\ lget' = NoLGet
  /\ UNCHANGED <<masterVars, netVars, idx, sel, rec, probes, readers, lput, evictVars, rget,
                 ghostVars>>

-----------------------------------------------------------------------------
(* The master's reclaim job (reclaim_items) and its requests.              *)

Request(ph, i, t) == [ph |-> ph, item |-> i, try |-> t]

Send(ph, t) ==
  /\ net' = net \cup {Request(ph, job.item, t)}
  /\ job' = [job EXCEPT !.pc = ph, !.try = t]

\* route_item: the route still names this generation's slot on the owner.
RouteValid(i) == route.own /\ route.gen = i.gen

\* plan_master_allocation_capacity_victim: an unindexed (GlobalShared) member of
\* the master's capacity cache.
JobPlan ==
  /\ job = NoJob /\ epoch < MaxEpoch /\ route.own /\ ~route.indexed
  /\ epoch' = epoch + 1
  /\ job' = [pc |-> "planned", try |-> 0,
             item |-> [gen |-> route.gen, epoch |-> epoch + 1, why |-> "master"]]
  /\ UNCHANGED <<nextGen, route, gets, fence, hand, netVars, slot, localVars, evictVars, lget,
                 rget, ghostVars>>

\* try_install_reclaim, then item_still_valid: a busy key or a changed route
\* drops the item, otherwise Prepare goes out under the fence.
JobFence ==
  /\ job.pc = "planned"
  /\ IF gets = 0 /\ fence = NoItem /\ RouteValid(job.item)
     THEN fence' = job.item /\ Send("prepare", 0)
     ELSE job' = NoJob /\ UNCHANGED <<fence, net>>
  /\ UNCHANGED <<nextGen, epoch, route, gets, hand, bcast, slot, localVars, evictVars, lget,
                 rget, ghostVars>>

\* The answer to a request moves the job; Busy to the first Abort ends the job
\* with its fence installed, Busy to a retry is retried.
Retry(ph, t) ==
  IF t < MaxTry THEN [job EXCEPT !.pc = ph, !.try = t + 1] ELSE [job EXCEPT !.pc = "stuck"]

OnAnswer(ph, t, a) ==
  LET to(pc) == [job EXCEPT !.pc = pc, !.try = 0]
  IN IF a = "Committed" /\ ph # "finalize" THEN to("finish") ELSE
     CASE ph = "prepare" -> IF a = "Prepared" THEN to("prepared") ELSE to("clear")
       [] ph = "commit"  -> to("toabort")
       [] ph = "abort"   -> IF a \in {"Aborted", "Stale", "Finalized"} THEN to("clear")
                            ELSE IF t = 0 THEN to("stuck") ELSE Retry("toabort", t)
       [] ph = "finalize" -> IF a = "Finalized" THEN to("clear") ELSE Retry("tofinalize", t)

\* Mutant of OnTimeout: a timed-out Commit is taken for one that did not happen.
OnTimeoutForget(ph, t) ==
  CASE ph = "prepare"  -> [job EXCEPT !.pc = "toabort", !.try = 0]
    [] ph = "commit"   -> [job EXCEPT !.pc = "clear", !.try = 0]
    [] ph = "abort"    -> Retry("toabort", t)
    [] ph = "finalize" -> Retry("tofinalize", t)

\* call_owner_phase times out.
OnTimeout(ph, t) ==
  CASE ph \in {"prepare", "commit"} -> [job EXCEPT !.pc = "toabort", !.try = 0]
    [] ph = "abort"    -> Retry("toabort", t)
    [] ph = "finalize" -> Retry("tofinalize", t)

JobTimeout ==
  /\ job.pc \in {"prepare", "commit", "abort", "finalize"}
  /\ job' = OnTimeout(job.pc, job.try)
  /\ UNCHANGED <<nextGen, epoch, route, gets, fence, hand, netVars, slot, localVars, evictVars,
                 lget, rget, ghostVars>>

\* Revalidation between Prepare and Commit.
JobValidate ==
  /\ job.pc = "prepared"
  /\ IF fence = job.item /\ RouteValid(job.item)
     THEN Send("commit", 0)
     ELSE job' = [job EXCEPT !.pc = "toabort"] /\ UNCHANGED net
  /\ UNCHANGED <<nextGen, epoch, route, gets, fence, hand, bcast, slot, localVars, evictVars,
                 lget, rget, ghostVars>>

\* abort_prepared and spawn_abort_retry send Abort.
JobAbort ==
  /\ job.pc = "toabort"
  /\ Send("abort", job.try)
  /\ UNCHANGED <<nextGen, epoch, route, gets, fence, hand, bcast, slot, localVars, evictVars,
                 lget, rget, ghostVars>>

\* Mutant of JobFinish: the committed reclaim is finalized with its route in place.
JobFinishKeepsRoute ==
  /\ job.pc = "finish"
  /\ Send("finalize", 0)
  /\ UNCHANGED <<nextGen, epoch, route, gets, fence, hand, bcast, slot, localVars, evictVars,
                 lget, rget, ghostVars>>

\* finish_committed: remove_reclaimed_replica under the fence, then Finalize.
JobFinish ==
  /\ job.pc = "finish"
  /\ route' = IF fence = job.item /\ RouteValid(job.item) THEN NoRoute ELSE route
  /\ Send("finalize", 0)
  /\ UNCHANGED <<nextGen, epoch, gets, fence, hand, bcast, slot, localVars, evictVars, lget,
                 rget, ghostVars>>

JobFinalizeRetry ==
  /\ job.pc = "tofinalize"
  /\ Send("finalize", job.try)
  /\ UNCHANGED <<nextGen, epoch, route, gets, fence, hand, bcast, slot, localVars, evictVars,
                 lget, rget, ghostVars>>

\* clear_master_fence: only this job's own item is cleared.
JobClear ==
  /\ job.pc = "clear"
  /\ fence' = IF fence = job.item THEN NoItem ELSE fence
  /\ job' = NoJob
  /\ UNCHANGED <<nextGen, epoch, route, gets, hand, netVars, slot, localVars, evictVars, lget,
                 rget, ghostVars>>

\* The owner's answer to request m reaches a job that still waits for it, or
\* is lost.
Answer(m, a) ==
  \/ UNCHANGED job
  \/ /\ job.item = m.item /\ job.pc = m.ph /\ job.try = m.try
     /\ job' = OnAnswer(m.ph, m.try, a)

-----------------------------------------------------------------------------
(* The owner's side of a reclaim (client_kv_api/reclaim.rs).               *)

\* Mutant of PrepareStep: a MemoryInfo that a reader holds is taken.
PrepareStepShared(i) ==
  LET free == lput = NoPut /\ ~(lget.pc = "planned" /\ lget.ext)
  IN CASE sel # 0 -> IF sel = i.gen /\ lput = NoPut /\ pend = 0 THEN "fromSelection" ELSE "busy"
       [] sel = 0 /\ ~free -> "busy"
       [] sel = 0 /\ free /\ rec # NoRec ->
            IF rec.item # i \/ rec.st = "Releasing" THEN "busy"
            ELSE IF rec.st = "Prepared" THEN "prepared" ELSE "committed"
       [] sel = 0 /\ free /\ rec = NoRec ->
            IF pend # 0 THEN "busy"
            ELSE IF idx = 0 /\ i.why = "master" THEN "probe"
            ELSE IF idx # i.gen THEN "stale" ELSE "fromIndex"

\* What prepare_one does with an item, in the order of its checks.  "probe" is
\* the branch that lets go of the key lock to look at the slot.
PrepareStep(i) ==
  LET free == lput = NoPut /\ ~(lget.pc = "planned" /\ lget.ext)
  IN CASE sel # 0 ->
            IF sel = i.gen /\ lput = NoPut /\ pend = 0 /\ readers[sel] = 0
            THEN "fromSelection" ELSE "busy"
       [] sel = 0 /\ ~free -> "busy"
       [] sel = 0 /\ free /\ rec # NoRec ->
            IF rec.item # i \/ rec.st = "Releasing" THEN "busy"
            ELSE IF rec.st = "Prepared" THEN "prepared" ELSE "committed"
       [] sel = 0 /\ free /\ rec = NoRec ->
            IF pend # 0 THEN "busy"
            ELSE IF idx = 0 /\ i.why = "master" THEN "probe"
            ELSE IF idx # i.gen THEN "stale"
            ELSE IF readers[idx] = 0 THEN "fromIndex" ELSE "busy"

PrepareAnswer(st) ==
  CASE st \in {"fromSelection", "fromIndex", "prepared"} -> "Prepared"
    [] st = "committed" -> "Committed"
    [] st = "stale" -> "Stale"
    [] OTHER -> "Busy"

Prepared(i, src) == [st |-> "Prepared", item |-> i, src |-> src]

\* The state change of prepare_one for the step it took.
PrepareEffect(i, st) ==
  /\ rec' = IF st \in {"fromSelection", "fromIndex"} THEN Prepared(i, "index") ELSE rec
  /\ sel' = IF st = "fromSelection" THEN 0 ELSE sel
  /\ idx' = IF st = "fromIndex" THEN 0 ELSE idx
  /\ failed' = (failed \/ (st = "fromSelection" /\ rec # NoRec))

HandlePrepare(m) ==
  /\ m.ph = "prepare"
  /\ LET st == PrepareStep(m.item)
     IN  /\ PrepareEffect(m.item, st)
         /\ IF st = "probe"
            THEN probes' = probes \cup {[req |-> m, seen |-> "no"]} /\ UNCHANGED job
            ELSE Answer(m, PrepareAnswer(st)) /\ UNCHANGED probes
  /\ net' = net \ {m}
  /\ UNCHANGED <<nextGen, epoch, route, gets, fence, hand, bcast, slot, pend, readers, lput,
                 evictVars, lget, rget, untold, regressed>>

\* committed_route_only_matches, without the key lock.
ProbeSlot(p) ==
  /\ p.seen = "no"
  /\ probes' = (probes \ {p}) \cup
       {[p EXCEPT !.seen = IF RouteOnly(slot[p.req.item.gen]) THEN "routeOnly" ELSE "changed"]}
  /\ UNCHANGED <<masterVars, netVars, slot, idx, sel, rec, pend, readers, lput, evictVars,
                 lget, rget, ghostVars>>

\* Back under the key lock: every local state is checked again, the slot is not.
ProbeInstall(p) ==
  /\ p.seen # "no"
  /\ LET ok == /\ p.seen = "routeOnly" /\ idx = 0 /\ pend = 0 /\ ~Fenced
               /\ lput = NoPut /\ ~(lget.pc = "planned" /\ lget.ext)
     IN  /\ rec' = IF ok THEN Prepared(p.req.item, "slot") ELSE rec
         /\ Answer(p.req, IF ok THEN "Prepared" ELSE "Busy")
  /\ probes' = probes \ {p}
  /\ UNCHANGED <<nextGen, epoch, route, gets, fence, hand, netVars, slot, idx, sel, pend,
                 readers, lput, evictVars, lget, rget, ghostVars>>

\* release_prepared_backing_now and what commit_one asserts around it.  An
\* indexed source gives up its MemoryInfo (nobody else may hold it); a demotion
\* keeps the route reference and changes the scope first.
ReleaseBacking(demote) ==
  LET g == rec.item.gen
      d == IF demote THEN CommitDemotion(slot[g]) ELSE slot[g]
  IN  /\ slot' = [slot EXCEPT ![g] =
                   IF rec.src = "slot" THEN ReleaseRoute(d)
                   ELSE IF demote THEN ReleaseHolder(d) ELSE ReleaseResident(d)]
      /\ failed' = \/ failed
                   \/ lput # NoPut \/ sel # 0
                   \/ rec.src = "slot" /\ (demote \/ ~RouteReleasable(slot[g]))
                   \/ rec.src = "index" /\ readers[g] # 0
                   \/ rec.src = "index" /\ ~demote /\ ~ResidentReleasable(slot[g])
                   \/ demote /\ ~DemotionValid(slot[g])
                   \/ demote /\ ~HolderReleasable(slot[g])

\* commit_one: Prepared becomes Releasing and the key lock is let go.
CommitBegin(m) ==
  /\ m.ph = "commit" /\ rec.st = "Prepared" /\ rec.item = m.item
  /\ rec' = [rec EXCEPT !.st = "Releasing"]
  /\ net' = net \ {m}
  /\ UNCHANGED <<masterVars, bcast, slot, idx, sel, probes, pend, readers, lput, evictVars,
                 lget, rget, ghostVars>>

\* The rest of commit_one: the backing is released, the record is Committed,
\* and owner_hot_invalidate_version forgets a selection of this generation.
CommitEnd ==
  /\ rec.st = "Releasing" /\ rec.item.why = "master"
  /\ ReleaseBacking(FALSE)
  /\ rec' = [rec EXCEPT !.st = "Committed", !.src = "none"]
  /\ evict' = IF evict.gen = rec.item.gen THEN [evict EXCEPT !.debt = FALSE] ELSE evict
  /\ Answer(Request("commit", rec.item, 0), "Committed")
  /\ UNCHANGED <<nextGen, epoch, route, gets, fence, hand, netVars, idx, sel, probes, pend,
                 readers, lput, op, lget, rget, untold, regressed>>

\* commit_one on any other record.
CommitRefused(m) ==
  /\ m.ph = "commit" /\ ~(rec.st = "Prepared" /\ rec.item = m.item)
  /\ Answer(m, IF rec.item # m.item THEN "Stale"
               ELSE IF rec.st = "Committed" THEN "Committed" ELSE "Busy")
  /\ net' = net \ {m}
  /\ UNCHANGED <<nextGen, epoch, route, gets, fence, hand, bcast, slot, localVars, evictVars,
                 lget, rget, ghostVars>>

\* abort_one_fenced: a prepared source goes back to the index it came from.
HandleAbort(m) ==
  /\ m.ph = "abort"
  /\ LET mine == rec.item = m.item
         undo == mine /\ rec.st = "Prepared"
     IN  /\ rec' = IF undo THEN NoRec ELSE rec
         /\ idx' = IF undo /\ rec.src = "index" THEN rec.item.gen ELSE idx
         /\ failed' = (failed \/ (undo /\ rec.src = "index" /\ idx # 0))
         /\ Answer(m, CASE rec = NoRec \/ undo -> "Aborted"
                        [] mine /\ rec.st = "Releasing" -> "Busy"
                        [] mine /\ rec.st = "Committed" -> "Committed"
                        [] OTHER -> "Stale")
  /\ net' = net \ {m}
  /\ UNCHANGED <<nextGen, epoch, route, gets, fence, hand, bcast, slot, sel, probes, pend,
                 readers, lput, evictVars, lget, rget, untold, regressed>>

\* finalize_one: the committed record and with it the local fence go.
HandleFinalize(m) ==
  /\ m.ph = "finalize"
  /\ LET done == rec.item = m.item /\ rec.st = "Committed"
     IN  /\ rec' = IF done THEN NoRec ELSE rec
         /\ Answer(m, IF done \/ rec = NoRec THEN "Finalized" ELSE "Busy")
  /\ net' = net \ {m}
  /\ UNCHANGED <<nextGen, epoch, route, gets, fence, hand, bcast, slot, idx, sel, probes,
                 pend, readers, lput, evictVars, lget, rget, ghostVars>>

-----------------------------------------------------------------------------
(* The owner's eviction of its own slot (client_kv_api/put.rs) and the     *)
(* master's handler of the request (handle_batch_evict_owner_source).      *)

\* owner_hot_install_source_selection_fence on a source nobody reads.
EvictSelect ==
  /\ evict = NoEvict /\ idx # 0 /\ ~Fenced /\ readers[idx] = 0
  /\ lput = NoPut /\ pend = 0 /\ ~(lget.pc = "planned" /\ lget.ext)
  /\ sel' = idx /\ idx' = 0
  /\ evict' = [pc |-> "send", gen |-> idx, out |-> "none", debt |-> TRUE]
  /\ UNCHANGED <<masterVars, netVars, slot, rec, probes, pend, readers, lput, op, lget, rget,
                 ghostVars>>

\* batch_evict_owner_source: a request of its own id, with the demotion budget
\* reserved or not.  A slot that is no longer routed reserves nothing.
EvictSend(resv) ==
  /\ evict.pc = "send" /\ evict.debt /\ op < MaxOp
  /\ LET g == evict.gen
     IN  /\ resv => slot[g].st = "committed" /\ slot[g].route
         /\ slot' = IF resv /\ slot[g].scope = "LocalExclusive"
                    THEN [slot EXCEPT ![g] = ReserveDemotion(@)] ELSE slot
         /\ hand' = [hand EXCEPT ![op + 1] = [pc |-> "sent", gen |-> g, resv |-> resv]]
  /\ op' = op + 1
  /\ evict' = [evict EXCEPT !.pc = "wait"]
  /\ UNCHANGED <<nextGen, epoch, route, gets, fence, job, netVars, localVars, lget, rget,
                 ghostVars>>

\* plan_exact_owner_source_victim_with
EvictPlan(g) ==
  CASE route.gen = 0 -> "Completed"
    [] route.gen \notin {0, g} -> "Stale"
    [] route.gen = g /\ ~route.indexed -> "DemotedGlobal"
    [] OTHER -> "Ready"

\* The handler answers request o; the answer may be lost, and a worker that
\* waits for another request does not take it.  A route dropped for a worker
\* that no longer asks is one the owner is not told of.
Reply(o, out) ==
  /\ hand' = [hand EXCEPT ![o].pc = "done"]
  /\ \/ UNCHANGED evict
     \/ /\ evict.pc = "wait" /\ op = o
        /\ evict' = [evict EXCEPT !.pc = "answered", !.out = out]

\* The first plan, and try_install_reclaim.
EvictFence(o) ==
  /\ hand[o].pc = "sent"
  /\ LET plan == EvictPlan(hand[o].gen)
     IN  IF plan = "Ready" /\ gets = 0 /\ fence = NoItem
         THEN /\ fence' = EvictItem(hand[o].gen, o)
              /\ hand' = [hand EXCEPT ![o].pc = "fenced"]
              /\ UNCHANGED evict
         ELSE /\ Reply(o, IF plan = "Ready" THEN "Busy" ELSE plan)
              /\ UNCHANGED fence
  /\ UNCHANGED <<nextGen, epoch, route, gets, job, netVars, slot, localVars, op, lget, rget,
                 ghostVars>>

\* The second plan, under the fence.
EvictReplan(o) ==
  /\ hand[o].pc = "fenced"
  /\ LET plan == EvictPlan(hand[o].gen)
     IN  IF plan = "Ready"
         THEN hand' = [hand EXCEPT ![o].pc = "ready"] /\ UNCHANGED <<fence, evict, failed>>
         ELSE /\ Reply(o, plan)
              /\ fence' = NoItem
              /\ failed' = (failed \/ fence # EvictItem(hand[o].gen, o))
  /\ UNCHANGED <<nextGen, epoch, route, gets, job, netVars, slot, localVars, op, lget, rget,
                 untold, regressed>>

\* What the fenced handler may decide: to demote a reserved slot, to ask for the
\* reservation, to wait for other reclaims (Busy), or to delete the route.
EvictDecisions(h) == {"Completed", "Busy"} \cup
                     (IF h.resv THEN {"DemotedGlobal"} ELSE {"NeedsGlobalReservation"})

EvictApply(o, out) ==
  /\ hand[o].pc = "ready"
  /\ out \in EvictDecisions(hand[o])
  /\ LET h == hand[o]
         named == route.own /\ route.gen = h.gen
         asked == evict.gen = h.gen /\ evict.pc \in {"send", "wait", "answered"}
     IN  /\ route' = CASE named /\ out = "DemotedGlobal" -> [route EXCEPT !.indexed = FALSE]
                       [] named /\ out = "Completed" -> NoRoute
                       [] OTHER -> route
         /\ untold' = IF named /\ out \in {"DemotedGlobal", "Completed"} /\ ~asked
                      THEN untold \cup {h.gen} ELSE untold
         /\ failed' = (failed \/ fence # EvictItem(h.gen, o))
  /\ Reply(o, out)
  /\ fence' = NoItem
  /\ UNCHANGED <<nextGen, epoch, gets, job, netVars, slot, localVars, op, lget, rget,
                 regressed>>

\* The RPC times out: the selection stays, and the worker asks again.
EvictTimeout ==
  /\ evict.pc = "wait"
  /\ evict' = [evict EXCEPT !.pc = "send"]
  /\ UNCHANGED <<masterVars, netVars, slot, localVars, op, lget, rget, ghostVars>>

\* finish_owner_source_selection: the reservation goes, and a selection that is
\* still there becomes the index again.
FinishSelection ==
  /\ slot' = [slot EXCEPT ![evict.gen] = DropReservation(@)]
  /\ idx' = IF sel = evict.gen THEN sel ELSE idx
  /\ sel' = IF sel = evict.gen THEN 0 ELSE sel
  /\ failed' = (failed \/ (sel = evict.gen /\ idx # 0))
  /\ untold' = IF /\ OwnArc(evict.gen) /\ evict.gen \notin bcast
                  /\ ~(route.own /\ route.gen = evict.gen)
               THEN untold \cup {evict.gen} ELSE untold
  /\ evict' = NoEvict
  /\ UNCHANGED rec

\* A due retry whose selection a reclaim has consumed in the meantime.
EvictLost ==
  /\ evict.pc = "send" /\ ~evict.debt
  /\ FinishSelection
  /\ UNCHANGED <<masterVars, netVars, probes, pend, readers, lput, op, lget, rget,
                 regressed>>

\* finish_owner_source_eviction_result, up to the local Prepare of
\* complete_owner_source_eviction and complete_owner_source_demotion.
EvictAnswered ==
  /\ evict.pc = "answered"
  /\ LET g  == evict.gen
         st == PrepareStep(EvictItem(g, op))
         s  == IF evict.out = "Completed" THEN [slot EXCEPT ![g] = DropReservation(@)] ELSE slot
         go == evict.out = "Completed" \/ (evict.out = "DemotedGlobal" /\ DemotionValid(slot[g]))
     IN  IF evict.out = "Stale" THEN FinishSelection
         ELSE IF go
         THEN /\ PrepareEffect(EvictItem(g, op), st)
              /\ slot' = s
              /\ UNCHANGED untold
              /\ evict' = [evict EXCEPT !.pc = CASE PrepareAnswer(st) = "Prepared" -> "commit"
                                                 [] OTHER -> "send"]
         ELSE /\ evict' = [evict EXCEPT !.pc = "send"]
              /\ UNCHANGED <<slot, rec, sel, idx, failed, untold>>
  /\ UNCHANGED <<masterVars, netVars, probes, pend, readers, lput, op, lget, rget,
                 regressed>>

\* commit_one of the local reclaim, in its two halves.
EvictCommit ==
  /\ evict.pc = "commit"
  /\ rec' = [rec EXCEPT !.st = "Releasing"]
  /\ failed' = (failed \/ rec.st # "Prepared" \/ rec.item # EvictItem(evict.gen, op))
  /\ evict' = [evict EXCEPT !.pc = "release"]
  /\ UNCHANGED <<masterVars, netVars, slot, idx, sel, probes, pend, readers, lput, op, lget,
                 rget, untold, regressed>>

EvictRelease ==
  /\ evict.pc = "release"
  /\ ReleaseBacking(evict.out = "DemotedGlobal")
  /\ rec' = [rec EXCEPT !.st = "Committed", !.src = "none"]
  /\ evict' = [evict EXCEPT !.pc = "finalize"]
  /\ UNCHANGED <<masterVars, netVars, idx, sel, probes, pend, readers, lput, op, lget, rget,
                 untold, regressed>>

\* finalize_one of the local reclaim.
EvictFinalize ==
  /\ evict.pc = "finalize"
  /\ rec' = NoRec
  /\ failed' = (failed \/ rec.st # "Committed" \/ rec.item # EvictItem(evict.gen, op))
  /\ evict' = NoEvict
  /\ UNCHANGED <<masterVars, netVars, slot, idx, sel, probes, pend, readers, lput, op, lget,
                 rget, untold, regressed>>

-----------------------------------------------------------------------------
Put       == OwnerPutStart \/ OwnerPutCommit \/ OwnerPutFail \/ OwnerPutPublish \/ OtherPut
Broadcast == \E g \in Gens : BroadcastSkipped(g) \/ BroadcastLost(g) \/ BroadcastApply(g)
Read      == ReadStart \/ \E g \in Gens : ReadEnd(g)
RemoteGet == RemoteGetPlan \/ RemoteGetAcquire \/ RemoteGetDone \/ RemoteGetExpire
OwnerGet  == (\E ext \in BOOLEAN : OwnerGetPlan(ext)) \/ OwnerGetExpire \/ OwnerGetInstall
             \/ OwnerGetDone \/ OwnerGetPromote \/ OwnerGetAbort
Job       == JobPlan \/ JobFence \/ JobTimeout \/ JobValidate \/ JobAbort \/ JobFinish
             \/ JobFinalizeRetry \/ JobClear
OwnerPhase == \/ \E m \in net : HandlePrepare(m) \/ CommitBegin(m) \/ CommitRefused(m)
                                \/ HandleAbort(m) \/ HandleFinalize(m)
              \/ \E p \in probes : ProbeSlot(p) \/ ProbeInstall(p)
              \/ CommitEnd
Evict     == \/ EvictSelect \/ (\E r \in BOOLEAN : EvictSend(r)) \/ EvictTimeout
             \/ EvictLost \/ EvictAnswered \/ EvictCommit \/ EvictRelease \/ EvictFinalize
EvictHandler == \E o \in 1..MaxOp : \/ EvictFence(o) \/ EvictReplan(o)
                                    \/ \E out \in EvictDecisions(hand[o]) : EvictApply(o, out)

Next == \/ Put \/ MasterDelete \/ Broadcast \/ Read \/ RemoteGet \/ OwnerGet
        \/ Job \/ OwnerPhase \/ Evict \/ EvictHandler

Spec == Init /\ [][Next]_vars

-----------------------------------------------------------------------------
\* The types: in particular gets, the key's activity count, stays a natural number
\* (try_install_reclaim waits for 0), and no reference count of a slot underflows.
TypeOK ==
  /\ nextGen \in 0..MaxGen /\ epoch \in 0..MaxEpoch /\ op \in 0..MaxOp /\ gets \in Nat
  /\ route \in [gen : 0..MaxGen, own : BOOLEAN, indexed : BOOLEAN]
  /\ fence \in Item \cup {NoItem}
  /\ slot \in [Gens -> Slot]
  /\ {idx, sel, pend} \subseteq 0..MaxGen
  /\ bcast \subseteq Gens /\ untold \subseteq Gens /\ regressed \subseteq Gens
  /\ failed \in BOOLEAN

\* No assertion, expect or unwrap of the reclaim code fails.
NoAssertionFails == ~failed

\* A slot the master routes to is readable: the owner gives it up only when the
\* master's fence keeps every reader off the key.  (A route is published before
\* its put promotes the slot.)
RoutedSlotReadable ==
  route.own /\ lput.gen # route.gen /\ route.gen \notin regressed =>
    \/ SourceReadable(slot[route.gen])
    \/ fence = job.item /\ job.item.gen = route.gen

\* The owner releases memory for the master only under the master's fence for
\* exactly that item: a late Commit, Abort or Finalize of another epoch never
\* reaches another reclaim.
ReleaseUnderFence ==
  rec.st \in {"Releasing", "Committed"} /\ rec.item.why = "master" => fence = rec.item

\* Whoever still reads a slot keeps it allocated.
ReadersKeepSlot ==
  /\ \A g \in Gens : readers[g] > 0 \/ OwnArc(g) => slot[g].holders > 0
  /\ rget.pc = "leased" => slot[rget.gen].leases > 0

\* What was given up stays given up: memory that was freed is not taken up again
\* by a get, a lease or a reclaim that still names its generation, and a slot
\* whose route reference was released is never served as a source again
\* (free_allocation, release_committed_slot_route).
NoSlotRevived ==
  [][\A g \in 1..nextGen :
       /\ slot[g] = FreeSlot => slot'[g] = FreeSlot
       /\ ~SourceReadable(slot[g]) /\ lput.gen # g => ~SourceReadable(slot'[g])]_vars

\* A slot the master no longer routes to is given back, unless the owner was
\* never told.
Abandoned(g) ==
  /\ slot[g].st = "committed" /\ slot[g].route
  /\ ~(route.own /\ route.gen = g)
  /\ g \notin bcast /\ lput.gen # g /\ evict.gen # g /\ lget.gen # g
  /\ job.item.gen # g /\ rec.item.gen # g
AbandonedOnlyIfUntold == \A g \in Gens : Abandoned(g) => g \in untold
=============================================================================
