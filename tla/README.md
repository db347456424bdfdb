# A verification project for Fluxon

Fluxon is a key-value, message and file layer for machine-learning clusters.  A
*master* is the authority for routes, versions, leases and membership; *owners*
store values in registered memory segments and move them; *external* clients are
business processes attached to an owner.  This directory holds TLA+
specifications of the master's concurrent parts and of the protocols that owners
run with the master and with each other, the TLC configurations that check small
instances, and TLAPS proofs for all instances.

## 1. Inventory

| Part | State | Operations | What makes it hard |
|---|---|---|---|
| Lease manager (`master_lease_manager/`) | `leases`, `expire_heap`, `cleanup_notify`, the cleanup task's locals | grant, keepalive, cleanup loop | handlers and the cleanup task on different threads; lazy deletion from the heap; a sleeping task that must be woken |
| Leased keys (`lease.rs`, `put.rs`) | `Lease::keys`, the lease of a route | attach, publish, detach, cleanup of a lease | attachment and publication are separate steps; compare and delete are separate steps |
| Route table (`master_kv_router/{mod,put,get,delete}.rs`) | `kv_routes`, `node_replicas` of every route, inflight operations | put start/done/revoke, get start/done/revoke, append start/done/revoke, delete, departure sweep | per-entry locks only; operations that outlive the generation of their target; a node that returns under its old name |
| Node registrations (`master_seg_manager/mod.rs`) | allocators and tomb tag per node | register, mark tomb, prune | MemberLeft has no generation; registration answers arrive late |
| Prefix index (`count_prefix_index.rs`, `route_maintenance.rs`) | version per key, radix counts | insert by the maintenance actor, remove by deletes and sweeps | events applied after the fact and in any order |
| Get protocol and holders (`get.rs`, `memholder/`) | inflight gets, completed terminals, holders per node | plan, bind, done, revoke, delete acknowledgement | done against revoke, replayed messages, holders of departed nodes |
| Reclaim (`reclaim.rs`, `client_kv_api/reclaim.rs`, `client_kv_api/put.rs`) | key activity and fence at the master; index, selection, record and slot references at the owner | prepare, commit, finalize, abort; evict by delete or demotion | agreement between master and owner while gets, puts, deletes and late messages go on |
| Owner transfers (`owner_segment.rs`, `client_kv_api/{mod,get,put}.rs`) | sequence, watermark and gap set per peer; flights, leases and inbound watermark at the peer | send, replay, give up, acknowledge, execute, answer, commit the route | requests repeated, late and reordered; memory of one owner read and written by another |
| Append (`put.rs`, `tiered_writeback.rs`) | replica tasks, terminals | start, done, revoke | replays across versions, candidate owners |
| Placement and budgets (`placement.rs`, `owner_segment.rs`) | capacity reports with epochs | report, rank, reserve | late and repeated reports |
| Segment allocator (`client_seg_pool`, `vallocator`, `fixed_slab_allocator.rs`) | free lists | allocate, free | overlap, fragmentation |
| Client keepalive (`fluxon_util/lease_manager`) | schedule, backoff | add, remove, tick, answer | late answers against retries |
| Message queue (`fluxon_mq`) | offsets, commit sequencer, prefetch buffers, channel metadata | produce, consume, commit, create, shut down | out-of-order completions, one writer per channel |
| File system (`fluxon_fs*`) | write sessions, cached blocks | open, write, commit, clean up | sessions whose client has gone |
| Transfer, RPC, CLI, operations, gateways, bindings | none of protocol interest here | | pure I/O or translation |

The parts interact as follows.  A put starts at the master, which picks a target
node and binds the operation to the *generation* of that node (its tomb tag); the
owner writes the bytes; put-done attaches the key to the put's lease, publishes
the route, and queues an event for the prefix index.  A get reads the route,
cleans tombed replicas away, copies the bytes and may publish the copy as another
replica.  When a node leaves, its tag is set and a sweep visits every route.
When a lease expires, the cleanup task deletes the keys attached to it.  When memory
runs short, the master reclaims a shared slot from an owner, or the owner evicts a
slot of its own and asks the master to drop or demote the route.  Values move
between owners: the *coordinator* lends a slot, the peer writes into it (a get) or
reads from it (a replica).

Correctness means: no acknowledged value is lost while its node lives; no route
leads to the memory of a former life of a node; departed nodes and expired leases
leave nothing behind; counters and indexes agree with the routes they summarise; an
owner gives up memory only when nobody can be sent to it, and no peer touches memory
that is no longer lent.

## 2. Modules

| Module | Models |
|---|---|
| `LeaseTable` | abstract: what the lease manager promises |
| `MasterLeaseManager` | the lease manager with heap, handlers and cleanup task |
| `MasterLeaseManagerProofs` | proofs about it |
| `RouteTable` | abstract: what the route table promises to its clients |
| `LeasedRoutes` | leases and routes composed: attach, publish, detach, cleanup, delete |
| `LeasedRoutesProofs` | proofs about it |
| `MasterRoutes` | route table, puts, copies by gets and appends, deletes, departures and sweeps |
| `PrefixIndex` | the prefix index superposed on `MasterRoutes` |
| `MasterRoutesProofs` | proofs about these two |
| `OwnerSlots` | the life and the references of a slot of an owner's segment |
| `OwnerReclaim` | reclaim and eviction of one key's memory by master and owner |
| `OwnerReclaimInv` | its inductive invariants |
| `OwnerReclaimProtocol`, `OwnerReclaimSlots`, `OwnerReclaimProofs` | proofs about it: types, the protocol and the order of generations; the references of a slot and the slots behind the routes; the assertions, what the owner is told, and the theorems |
| `OwnerTransfer` | transfers between owners, with replay, acknowledgement and publication of replicas |
| `OwnerTransferInv` | its inductive invariant |
| `OwnerTransferStreams`, `OwnerTransferProofs` | proofs about it: types, streams and flights; loans, turns, leases, publication and the theorems |
| `MCMasterLeaseManager`, `MCLeasedRoutes`, `MCMasterRoutes`, `MCPrefixIndex`, `MCOwnerReclaim`, `MCOwnerTransfer` | instances for TLC |

`PROJECT.json` maps every definition to the lines it stands for.

### MasterLeaseManager

`leases`, `ttl`, `expiration`, `expire_heap` and `permit` are the manager's
fields (`permit` is the one permit a tokio `Notify` stores).  A handler is a task
with a program counter.  A grant inserts the lease (`GrantLease`), reads its
expiration anew (`ReadExpiration`), pushes the record (`PushRecord`) and notifies
if the record is the earliest (`NotifyCleaner`); a keepalive computes the new
time (`KeepaliveBegin`), stores it (`KeepaliveStore`) and goes on like a grant,
holding the DashMap reference to its lease throughout (`refs`).  The cleanup task
pops what is due (`CollectExpired`), compares each record with the lease's current
expiration (`CheckRecord`, `StillDue`), removes the lease (`RemoveLease`),
computes its sleep from the clock it read at the start of the iteration
(`PlanSleep`) and wakes by timer or notification.  Time is a counter that any
step may find advanced.  The task's exit at shutdown is left out.
The ttl of a keepalive (`custom_ttl`) is not held against
`MIN_CLIENT_TTL_SECONDS`, although the constant's comment says that every
externally visible lease operation enforces it; the instances include such
keepalives.

### LeasedRoutes

A put attaches its key (`AttachKey`), then publishes (`Publish`), or fails to
publish (`PublishFails`) and detaches (`DetachKey`).  The cleanup of a lease
takes it out of the table (`RemoveLease`), then for each attached key compares the
routed version (`CheckKey`) and deletes by key (`DeleteKey`).  When a lease expires
and when a publication fails is left open here, so every interleaving of the two
detailed modules is included.  `late` is a history variable used by the
properties only.

### MasterRoutes

A put id stands for a version and for the route object its publication creates.
A replica is the tag of the generation that holds it.  One action is what a thread
does under one lock: the DashMap entry of a key, or the lock of a route's
`node_replicas`.  The publication of a put is split at its two looks at the tag
(`PublishEnter`, then `PublishRoute`, `PublishRestored` or `PublishLate`, and
`PublishRollback`); the sweep is split into its snapshot, key by key, the visit
of each route, and the removal of a route found empty; the clean-up of a get is
split between finding the route empty and removing it.

Two kinds of handler copy a version to another node: a durable get and an append.
An append keeps the map guard from its check to its publication, a get does not;
the model always releases it, which includes both.

Abstractions: memory and SSD backings of a node are one replica; allocation,
capacity reservations and transfers may fail at any time (`PutRejected`,
`PutRevoke`, `CopyRevoke`); the master's caches and the delete broadcast, which no
property reads, are left out; a repeated leave of a generation, which only
restarts its sweep, is left out; the commit of a retried local-first put-done is
left out (section 7).

### RouteTable

What a client may rely on, without nodes, replicas, sweeps, leases and the order of the
handlers' steps: a key routes to one version of its own at a time; a put is
acknowledged in the very step that makes its version the route (`Publish`); a put that
fails leaves the routes of other versions alone (`Fail`), and at most shows on a key
that had no route until its failure (`Show`, the window of `PublishLate`); and a version
that has left its key (`Remove`, or another put) never comes back.  `MasterRoutes` and
`LeasedRoutes` both implement it, with the state of a put seen through `Outcome`.

### PrefixIndex

`MasterRoutes` with the index beside it.  A publication leaves an event, a delete
and a sweep leave a removal; events and removals are sets, because handlers queue
them after releasing the route and nothing orders them.  The actor looks at the
route (`IndexCheck`) and inserts (`IndexInsert`) under the index lock, so removals
wait, but routes may change in between.  A route removed by a get's clean-up
leaves no word to the index, as in the code.

### OwnerSlots and OwnerReclaim

`OwnerSlots` has one operator per operation of `OwnerAllocationState` on a slot, and
one predicate per expectation (`assert!`, `expect`) of such an operation.
`OwnerReclaim` puts a slot for each generation of one key on one owner between the
two protocols that give it back:

* the master's job: `JobPlan`, `JobFence` (install the fence, look at the route again,
  send Prepare), `JobValidate` (send Commit), `JobFinish` (drop the route, send
  Finalize), `JobAbort`, `JobTimeout`, `JobClear`; the owner's handlers
  `HandlePrepare`, `CommitBegin`/`CommitEnd`, `HandleAbort`, `HandleFinalize`.  Two of
  the handlers let go of the key lock in the middle and are split there (`ProbeSlot`,
  `ProbeInstall`; `CommitBegin`, `CommitEnd`);
* the owner's eviction worker: `EvictSelect` fences the owner's index, `EvictSend` asks
  the master, whose handler plans, fences, plans again and decides (`EvictFence`,
  `EvictReplan`, `EvictApply`); `EvictAnswered` to `EvictFinalize` run the reclaim
  locally.  A request that times out is sent again under a new id while the old one
  is still on its way.

Around them: local-first puts in three steps, puts elsewhere, deletes, the delete
broadcast (applied, skipped behind a fence, lost), local readers, remote reads with
a source lease, and the owner's get of its own shared slot on both its paths.
`failed` records a disappointed expectation, `untold` and `regressed` the two named
reasons for which a slot may be left over or lost.

Abstractions: one key and one owner (keys share only budgets); no lease on the key;
no SSD write-back before a release; no unindexed allocations (slots a master
allocation holds without route); an eviction candidate is never refused for its SSD
state.  Whether the global budget admits a demotion is left open.

### OwnerTransfer

A leg is one request of an operation to one peer.  `Send` takes the next sequence of
the stream and the current watermark, which every `Resend` keeps; `GiveUp` is the
return from the replay loop when the peer is missing from the membership view.  At
the peer, a copy of a request first applies its acknowledgement (`HandleAck`), then is
refused (`HandleStale`, `HandleAcked`) or joins or leads a flight (`HandleItem`); the
execution is a detached task (`MemoryAcquire`/`MemoryWrite`, `SsdStage`/`SsdWrite`,
`PutPrepare`/`PutAdopt`/`PutReplayed`/`PutRead`) and `Respond` answers from its
terminal.  The copies of a request are a set, so they arrive in any order; a lost copy
is one that is never handled.  A replica is published by `RouteCommit` after the answer
(the code's Async mode); the master's side is `AppendDone`.  `suspect` records the
legs for which some membership view lacked a live owner.

Abstractions: a batch has one item; the sequence and the watermark of a request are
taken in one step, as under the tracker's lock; whether a source is readable is left
open here (it is the matter of `OwnerReclaim`), and so is what becomes of a target
that holds the value (`kept`); the membership view is an input; a shutdown appears
only as `GiveUp`.

## 3. Runs

| Run | Checks | Result |
|---|---|---|
| `lease_manager` | `TypeOK`, `NoOrphanLease`, `SleepCoversHeap`, `ImplementsLeaseTable` | hold |
| `lease_liveness` | `LapsedLeaseLeaves` | holds |
| `lease_renewal` | `RenewalHonoured` | violated: finding 1 |
| `routes` | `TypeOK`, `DepartedCovered`, `AckedPutRouted`, `LiveReplicaIsCurrent`, `IndexFollowsRoutes`, `ImplementsRouteTable` | hold |
| `routes_liveness` | `DepartedRoutesVanish` | holds |
| `route_cleanup` | `CleanupSparesLive` | violated: finding 2 |
| `prefix_leak` | `IndexIsCurrent` | violated: finding 3 |
| `leased_routes` | `TypeOK`, `OutlivesLeaseOnlyIfRaced`, `LeasedRouteGoes`, `ImplementsRouteTable` | hold |
| `lease_orphan` | `NoLeasedRouteOutlives` | violated: finding 4 |
| `lease_rebind` | `OnlyAttachedDeleted` | violated: finding 5 |
| `owner_reclaim` | `TypeOK`, `NoAssertionFails`, `RoutedSlotReadable`, `ReleaseUnderFence`, `ReadersKeepSlot`, `AbandonedOnlyIfUntold`, `NoSlotRevived` | hold |
| `owner_transfer` | `TypeOK`, `AckIsSettledPrefix`, `ExecutedOnceWhileWaiting`, `OneExecutionAtATime`, `AccessOnlyWhileLent`, `LeaseHasExecution`, `CommittedIsRouted`, `KeptIsWritten` | hold |

**Bounds.**  `lease_manager`: two leases and two handlers, so that a grant and a
keepalive, or two keepalives of one lease, overlap, while the cleanup task works on
the other lease; a horizon of three time units covers a grant, a lapse and a
renewal.  `lease_liveness`: one lease with keepalives that shorten it, which is
where a record earlier than the sleep's end arises.  `routes`: two nodes with two
registrations each and one departure, so a node returns while the sweep of its
former generation is under way; two puts of one key, so one replaces the other; one
copying handler.  `routes_liveness`: both nodes may leave, one registration each.
`leased_routes`: one key, three puts and two leases, so that a put under the same
lease and a put under another lease interfere with a third.  Keys do not interact in
any of the modules except through the sweep's snapshot, which the proofs cover for
any number of keys.  Symmetry is used only in runs without liveness properties.
`owner_reclaim`: two generations, two reclaim jobs, two eviction requests and one
retry, of which any four fit into one behaviour (`WithinBudget`): a late message of
one reclaim meets the next, an eviction meets a reclaim, a put meets either.  About a
million states.  Instances without the budget, with one of the numbers lowered, were
also checked and pass: two generations, two jobs and one request with a retry (9.3
million states), one generation with two jobs, two requests and a retry (5.7 million),
two generations, one job and two requests (4.2 million).  `owner_transfer`: two of the
four legs in a behaviour and one replay, so that a late copy meets the
acknowledgement that a later request carries, and a second candidate meets the first
one's late execution; legs to different peers and of different operations do not
interact and are not combined.  With three legs, and with two replays, the properties
hold as well (2.4 and 1.8 million states).

**Deadlock** is not checked where an instance has used up its bounded supply of
puts, registrations or leases and has nothing left to do.  The lease manager's
cleanup task never stops, and its runs check for deadlock.

**Fairness.**  `LapsedLeaseLeaves`: weak fairness of the clock, of the cleanup task
(a spawned loop with a timer) and of handlers that have started.  The cleanup task
waits only for DashMap references that handlers hold for a few instructions.
`DepartedRoutesVanish`: weak fairness of the sweep, a spawned task, and of the
rollback, which has no await before it.  No client operation is assumed to complete.
`LeasedRouteGoes`: weak fairness of the cleanup once it has begun.

## 4. Findings

1. *A keepalive can be accepted and lost* (`lease_renewal`).  The cleanup task
   compares expirations, releases the lease, and removes it without looking again.
2. *A get's clean-up can remove a route with a live replica* (`route_cleanup`).
   The route is found empty, a copy is published on it, and the removal compares the
   version only; the sweep re-checks emptiness for this very reason.  The put's own
   replica is never lost this way (`AckedPutRouted`): its node must have left.
3. *A deleted key can stay counted* (`prefix_leak`).  An overwrite followed by a
   delete, both before the overwrite's event is applied: the removal names a version
   the index does not hold, and the event is dropped.
4. *A leased route can outlive its lease* (`lease_orphan`).  The lease is cleaned up
   between a put's attachment and its publication.  `OutlivesLeaseOnlyIfRaced` shows
   that this and interference between puts under the same lease are the only ways.
5. *The cleanup of a lease can delete a re-put key* (`lease_rebind`).  The version is
   compared, then the key is deleted whatever its version is by then.

What the owner protocols showed.  These are behaviours that the models reach and that the
properties confine; they have no run of their own.

* *A late duplicate can be executed again.*  `apply_owner_transfer_terminal_ack`
  returns 0 when the request carries no acknowledgement (`client_kv_api/mod.rs:9768`),
  and the item is then compared with 0 rather than with the watermark already applied.
  A first request whose copy is delayed until a later request has acknowledged it is
  executed again, though the comment at `mod.rs:4441` says that the watermark "rejects
  late duplicate operations after their full terminal was GC'd".  The records of a
  source or target lease stop most second executions, that of an SSD get not.
* *A membership view that lacks a live owner ends a loan early.*  A peer answers
  StaleGeneration to a replay while the first copy still executes, and the coordinator
  aborts the target; and `run_owner_remote_put` moves on to the next candidate after a
  transport error when the target is missing from the view (`put.rs:5206`), though the
  comment at `put.rs:3442` says that callers must not switch targets on that error.
  `AccessOnlyWhileLent` and `CommittedIsRouted` show that these two (`Doubtful`) are the
  only ways to touch a slot that is not lent, or to believe in a route that is not there.
* *A stream's watermark can stop for good.*  A request that was given up, or a get whose
  target is left without recording its terminal, leaves a gap that nothing closes; the
  peer then keeps all later flights of that generation.
* *A newer put can lose its route reference.*  `promote_hidden_owner_slot_get` replaces
  the index entry without comparing generations; on the direct path a local-first put
  may have been published since.  `RoutedSlotReadable` shows that this (`regressed`) is
  the only way a routed slot becomes unreadable outside a fence.
* *A slot can stay allocated without route* when the delete broadcast is lost, skipped
  behind a local fence or applied before the put is published, when an eviction request
  takes effect after its selection was resolved, or when the worker gives a selection up
  after an earlier copy of its request has taken the route away (`untold`).
  `AbandonedOnlyIfUntold` shows that there is no other way.
* *A fence can stay installed.*  An Abort answered Busy, or retries used up, end the
  job with the master's fence in place (`stuck`); a Prepare that arrives after the
  Abort of its job leaves a record at the owner.

## 5. Proofs

Proved by TLAPS for every value of the constants, under the named assumptions of
the modules (`ConstantsAssumption`, `LeasedAssumption`, `RoutesAssumption`,
`BoundAssumption`, `LegAssumption`, `SendAssumption`: bounds are naturals, null values
are no elements, a get has one leg):

* `MasterLeaseManagerProofs`: `TypeCorrect`; `NoOrphan`; `NoLostWakeup`;
  `LeaseRefinement`.  `NoOrphanLease` is inductive with the types, because the
  disjunct `WillPush` follows a handler from its store to its push.
  `SleepCoversHeap` is inductive with the types.  The refinement needs
  `RefsPinLeases`: a keepalive works on a lease that is in the table, since removal
  waits for its reference, and the records being worked through were due when they
  were popped; the comparison in `CheckRecord` then is the abstract `Condemn`.
* `MasterRoutesProofs`: `TypeCorrect`; `NoEscapedReplica`; `AckedPutSurvives`;
  `NoInheritedReplica`.  `DepartedCovered` is inductive with the types: a
  publication with a clear tag precedes the departure, whose snapshot then has the
  key still ahead.  `AckedPutRouted` needs `AckedInv`: sweeps work for departed
  generations only (`SweepsDeparted`), routes and handlers know only versions whose
  publication was attempted (`OnlyPublished`), so a fresh publication meets no stale
  handler, and a handler about to remove a route has seen it without live primary
  replica (`RemovalsJustified`).  `LiveReplicaIsCurrent` needs `CurrentInv`: the
  tags that puts and copies are bound to are current or set (`BoundTagsCurrent`).
  The step proofs go action by action; what most actions have in common is in frame
  lemmas (`AckedRouteFrame`, `AckedPutFrame`, `AckedTaskFrame`, `CurrentStill`,
  `CurrentFrame`), which say what a step may touch without harm.
* `MasterRoutesProofs`, about `PrefixIndex`: `IndexedRoutesRefine` (the routes with the
  index beside them implement the routes alone) and `IndexMissesNothing`.
  `IndexFollowsRoutes` needs `IndexInv`: a removal on its way never names the version
  that is routed (`RemovalsAreOld`), and, without departures, every route is in the index
  or its event is still to come, which it is whenever the actor is about to insert some
  version of that key (`IndexHears`).
* `MasterRoutesProofs`, about `RouteTable`: `RouteRefinement` and, with the index beside
  the routes, `IndexedRouteRefinement`.  `TableStep` maps every action to a step of
  `RouteTable` or to none.  It needs `OnlyPublished`: a put that fails before it was
  published is known not to be the route of its key, so its failure takes nothing away.
* `LeasedRoutesProofs`: `TypeCorrect`; `OutlivesOnlyThroughRace`, from the inductive
  `LeaseInv`: a route is an acknowledged put of its own key (`RouteIsAcked`), and the
  attachment of a put that met no other put under its lease stays that put's own from
  `AttachKey` on (`AttachmentIsOwn`), so that the cleanup finds it.  `RouteRefinement`
  maps its steps to those of `RouteTable`, with `RouteIsAcked`.
* `OwnerReclaimProtocol`: `ReleaseIsFenced`, from the inductive `ProtocolInv`
  (`ProtocolHolds`).  That the record of a release belongs to the installed fence is
  not inductive: a late Commit must be known to meet no record, or its own fence
  (`CommitLast`).  This holds because a Prepare still on its way is the first the owner
  hears of its item (`PrepareFirst`), so no record of an aborted item can appear behind a
  fence that is gone and be committed; because items carry the epochs of jobs that have
  begun (`NetItems`); and because an active job owns the fence (`FenceOwner`).  The
  owner's local reclaim is kept apart by `LocalReclaim`.
* `OwnerReclaimSlots` and `OwnerReclaimProofs`: `TypeCorrect`, `AssertionsHold`,
  `RoutedSlotsAreReadable`, `ReadersAreKept`, from the inductive `SlotsInv`
  (`SlotsStayHeld`), and `AbandonedIsUntold` from `ToldInv` on top of it.  `SlotsInv`
  has four layers.  `Order`: what is named has been written, the key's activity counts
  the gets that hold it and a fence waits for none (`GetCount`), the owner's local fence
  excludes the index, a put and a get's pending slot (`LocalInv`), and routes, puts, gets and
  broadcasts come in the order of their generations (`RouteOrder`, `GoneBefore`).
  `SlotInv`: the holders and leases of every slot are *exactly* those the parties
  account for (`SlotsHeld`), no generation has two of the owner's own Arcs (`ArcsApart`),
  and each Arc that stands for a route has its route reference (`RoutedArcs`); without
  the exact count no release could be shown to meet a reference.  `SourceInv`: a slot
  that a probe found route-only, or a record was made from, is still readable when its
  Commit comes, since the fence keeps gets off the key and the probe's slot cannot enter
  the index again (`ProbeSource`, `SlotSource`).  And no expectation has been
  disappointed, which is inductive only together with the others.
  `ToldInv` follows a slot after its route: a readable slot is named by the master, or a
  broadcast is on its way, or an eviction or a reclaim will release it, or the owner was
  left untold (`Accounted`).  It needs the scope of a slot to tell what the index stands
  for (`ScopeArc`), that slots released for the master stay unreadable (`PastGens`), and
  that what an eviction handler found under its fence is still so when it decides
  (`ReadyNamed`, `DemotedNamed`, `PutTold`).
  `SlotsAreNotRevived`, the action property `NoSlotRevived`, needs no further invariant:
  only readers of the index, gets and leases of a readable slot add a reference
  (`ReferenceGained`), an unreadable slot that no put is about to publish stays so
  (`PastStays`), and by the exact count of `SlotsInv` before and after the step a slot
  that nothing refers to is free (`FreeStays`).
* `OwnerTransferProofs`: `TransferTypes`, `AckIsExact`, `ExecutedOnce`,
  `NeverTwoExecutions`, `LoanIsKept`, `LeaseIsUsed`, `CommittedIsTrue` and `KeptIsTrue`,
  all from the inductive `TransferInv` (`TransferHolds`), whose parts `OwnerTransferInv`
  explains.
  The argument: a leg is settled exactly when its sequence is behind the watermark or in
  the gap set (`StreamInv`); every watermark a peer sees is one of the past (`AckInv`);
  so a peer forgets only settled legs, and a leg still waited for has its one flight in
  place (`FlightInv`); an answer therefore tells of the one execution there is, and the
  slot is let go only when it is over (`LoanInv`), candidates are tried one after the
  other (`TurnInv`), and only one of them is published (`PublishInv`).  `KeptIsWritten`
  is inductive beside `TransferInv`: a slot becomes a get's value only by the terminal of
  an execution that is done (`KeptSteps`), which is the leg's only one (`WaitingAnswers`)
  and does not change any more (`Forward`).  The proofs are for any number of
  operations, candidates, peers, replays and executions.

Every safety invariant, every action property and every refinement that a passing run
checks is proved.  Only model-checked are the liveness properties (`LapsedLeaseLeaves`,
`DepartedRoutesVanish`, `LeasedRouteGoes`), which rest on fairness and so are outside the
prover's reach, and the counterexamples of section 4.  The inductive invariants were model-checked before they
were proved, on instances of the runs; those of `OwnerReclaim` also with a larger budget
(`SlotsInv` on 23 million states, `ToldInv` on 15 million).

## 6. Plan

In order:

1. *Master side of gets and holders*: bind, done, revoke, replayed terminals, durable
   slots, SSD stages, holder acknowledgements, departure of the requester; composed
   with `MasterRoutes`.
2. *Registration actor and membership listener*: delayed leaves, retries, stale
   answers, pruning; shown to provide the `Register` and `MemberLeft` of
   `MasterRoutes`, and the membership views of `OwnerTransfer`.
3. *Message queue*: commit sequencer against an abstract prefix-commit
   specification; prefetch; producer and consumer composed.
4. *Client keepalive actor*, composed with `MasterLeaseManager`.
5. *Segment allocator* as an algorithm against "disjoint ranges"; write sessions of
   the file system.

## 7. Not modelled

The parts of the inventory the plan has not reached are listed with their reasons in
`PROJECT.json`: the message queue, the file system, the client's keepalive actor, the
placement of slabs and the SSD tier have state and protocols of their own and are left
for later; the gateways, bindings, command lines, deployment and observability code,
which is the greater part of the repository by size, translates and reports and has no
state that a model of this kind would tell apart.  Inside the modelled parts: SSD
backings as replicas, SSD write-back before a release, unindexed allocations, cache
pins, atomic groups, replayed terminals of gets at the master, the local-first commit by
a retried put-done (which may publish a put id again), capacity accounting, the radix
tree's counting, batches of several items, the synchronous commit mode of a transfer,
shutdown.  `member_lifecycle.rs` and `member_lifecycle_binded_state_ctrl.rs` are not
compiled into the crate.
