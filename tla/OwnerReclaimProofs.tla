-------------------------- MODULE OwnerReclaimProofs --------------------------
(***************************************************************************)
(* What the reclaim and the eviction of an owner's slots guarantee: no     *)
(* assertion of the reclaim code fails, a reader keeps its slot, a routed  *)
(* slot is readable, and a slot that was given up is not revived.  What the*)
(* owner is told: a slot the master no longer routes to is given back, or  *)
(* nobody told the owner.                                                  *)
(***************************************************************************)
EXTENDS OwnerReclaimSlots

-----------------------------------------------------------------------------
(* The assertions.                                                         *)

\* Puts, broadcasts, readers and gets find the slots they expect.
LEMMA DataAsserted ==
  ASSUME Order, SlotInv, ~failed, Put \/ MasterDelete \/ Broadcast \/ Read \/ RemoteGet \/ OwnerGet
  PROVE  ~failed'
<1>0. slot \in [Gens -> Slot]
  BY Zenon DEF SlotInv, SlotsHeld
<1>1. CASE OwnerPutPublish
  <2>1. /\ lput.pc = "routed"
        /\ failed' = (failed \/ Fenced \/ ReplaceFails([slot EXCEPT ![lput.gen] = PromotePending(slot[lput.gen])]))
    BY <1>1, Zenon DEF OwnerPutPublish
  <2>2. ~Fenced /\ lput # NoPut
    BY <2>1 DEF NoPut, Order, LocalInv, LocalFence
  <2>3. lput.gen # 0 /\ lput.gen \in Gens /\ lput.gen # idx
    <3>1. Older(lput.gen)
      BY <2>2, NamedGens, Zenon DEF Order
    <3>2. lput.gen # 0
      BY <3>1 DEF Older, Written
    <3>3. QED
      BY <3>2, SlotGens, Zenon DEF SlotInv, ArcsApart, Known
  <2>4. PromotePending(slot[lput.gen]) \in Slot
    BY <1>0, <2>3, Zenon DEF PromotePending, Slot, SlotStates, Scopes
  <2>5. PICK s : s = [slot EXCEPT ![lput.gen] = PromotePending(slot[lput.gen])]
    BY Zenon
  <2>6. s \in [Gens -> Slot] /\ (idx # 0 => s[idx] = slot[idx])
    BY <1>0, <2>3, <2>4, <2>5, SlotGens, Zenon DEF Known
  <2>7. ~ReplaceFails(s)
    BY <2>6, IndexReplaced, Zenon
  <2>8. QED
    BY <2>1, <2>2, <2>5, <2>7, Zenon
<1>2. CASE (Put \/ MasterDelete) /\ ~OwnerPutPublish
  BY <1>2, Zenon DEF Put, OwnerPutStart, OwnerPutCommit, OwnerPutFail, OtherPut, MasterDelete, ghostVars
<1>3. CASE Broadcast
  <2>1. ASSUME NEW b \in Gens, BroadcastApply(b) PROVE ~failed'
    <3>1. failed' = (failed \/ ((idx # 0 /\ idx <= b) /\ ~((slot[b].scope = "GlobalShared" /\ slot[b].route) /\ idx = b)
                                /\ ~RouteReleasable(slot[idx])))
      BY <2>1, BroadcastMoves, Zenon
    <3>2. idx # 0 => RouteReleasable(slot[idx])
      BY Zenon DEF SlotInv, RoutedArcs, SourceReadable, RouteReleasable
    <3>3. QED
      BY <3>1, <3>2, Zenon
  <2>2. QED
    BY <1>3, <2>1, Zenon DEF Broadcast, BroadcastSkipped, BroadcastLost
<1>4. CASE Read
  <2>1. ASSUME NEW g \in Gens, ReadEnd(g) PROVE ~failed'
    <3>1. readers[g] > 0 /\ failed' = (failed \/ ((readers[g] = 1 /\ ~OwnArc(g)) /\ ~HolderReleasable(slot[g])))
      BY <2>1, Zenon DEF ReadEnd
    <3>2. readers[g] # 0
      BY <3>1, SlotGens
    <3>3. /\ slot[g] \in Slot /\ Held(slot[g], HolderCount(g), LeaseCount(g)) /\ HolderCount(g) = 1
          /\ (slot[g].st # "free" => slot[g].st \in {"pending", "committed"})
      BY <3>2, AtSlot, SlotGens, Zenon DEF SlotInv
    <3>4. slot[g].holders = 1 /\ (slot[g].st = "free" => slot[g] = FreeSlot)
      BY <3>3, Zenon DEF Held
    <3>5. HolderReleasable(slot[g])
      BY <3>3, <3>4 DEF HolderReleasable, FreeSlot
    <3>6. QED
      BY <3>1, <3>5, Zenon
  <2>2. QED
    BY <1>4, <2>1, Zenon DEF Read, ReadStart, ghostVars
<1>5. CASE OwnerGetPromote
  <2>1. CASE pend # lget.gen
    BY <1>5, <2>1, Zenon DEF OwnerGetPromote
  <2>2. CASE pend = lget.gen
    <3>1. /\ lget.pc = "accepted"
          /\ failed' = (failed \/ ReplaceFails([slot EXCEPT ![pend] = [slot[pend] EXCEPT !.scope = "LocalExclusive"]]))
      BY <1>5, <2>2, Zenon DEF OwnerGetPromote
    <3>2. pend # 0 /\ pend \in Gens /\ pend # idx
      <4>1. lget.pc # "idle" /\ HiddenGet
        BY <3>1, Zenon DEF HiddenGet
      <4>2. QED
        BY <2>2, <4>1, SlotGens, Zenon DEF Known, SlotInv, ArcsApart
    <3>3. [slot[pend] EXCEPT !.scope = "LocalExclusive"] \in Slot
      BY <1>0, <3>2, Zenon DEF Slot, Scopes
    <3>4. PICK s : s = [slot EXCEPT ![pend] = [slot[pend] EXCEPT !.scope = "LocalExclusive"]]
      BY Zenon
    <3>5. s \in [Gens -> Slot] /\ (idx # 0 => s[idx] = slot[idx])
      BY <1>0, <3>2, <3>3, <3>4, SlotGens, Zenon DEF Known
    <3>6. ~ReplaceFails(s)
      BY <3>5, IndexReplaced, Zenon
    <3>7. QED
      BY <3>1, <3>4, <3>6, Zenon
  <2>3. QED
    BY <2>1, <2>2, Zenon
<1>6. CASE RemoteGet \/ (OwnerGet /\ ~OwnerGetPromote)
  BY <1>6, Zenon DEF RemoteGet, RemoteGetPlan, RemoteGetAcquire, RemoteGetDone, RemoteGetExpire, OwnerGet, OwnerGetPlan,
     OwnerGetExpire, OwnerGetInstall, OwnerGetDone, OwnerGetAbort, ghostVars
<1>7. QED
  BY <1>1, <1>2, <1>3, <1>4, <1>5, <1>6, Zenon

\* So do reclaims and evictions, and the master's handlers their fences.
LEMMA ReclaimAsserted ==
  ASSUME Order, SlotInv, SlotSource, ~failed, Job \/ OwnerPhase \/ Evict \/ EvictHandler
  PROVE  ~failed'
<1>1. ASSUME NEW i, i.gen # 0, PrepareEffect(i, PrepareStep(i)) PROVE ~failed'
  <2>1. PrepareStep(i) = "fromSelection" => rec = NoRec
    BY <1>1, PrepareLocal, Zenon DEF Order
  <2>2. QED
    BY <1>1, <2>1, Zenon DEF PrepareEffect
<1>2. ASSUME FinishSelection, evict.pc # "idle" PROVE ~failed'
  <2>1. evict.gen # 0
    BY <1>2, SlotGens, Zenon DEF Known
  <2>2. sel = evict.gen => idx = 0
    BY <2>1, Zenon DEF Order, LocalInv, LocalFence, Fenced
  <2>3. QED
    BY <1>2, <2>2, Zenon DEF FinishSelection
<1>3. CASE Job
  BY <1>3, Zenon DEF Job, JobPlan, JobFence, JobTimeout, JobValidate, JobAbort, JobFinish, JobFinalizeRetry, JobClear, ghostVars
<1>4. CASE OwnerPhase
  <2>1. ASSUME NEW m \in net, HandlePrepare(m) PROVE ~failed'
    <3>1. Older(m.item.gen)
      BY NamedGens, Zenon DEF Order
    <3>2. m.item.gen # 0
      BY <3>1 DEF Older, Written
    <3>3. QED
      BY <1>1, <2>1, <3>2, Zenon DEF HandlePrepare
  <2>2. ASSUME NEW m \in net, HandleAbort(m) PROVE ~failed'
    <3>1. rec.st = "Prepared" => rec # NoRec
      BY DEF NoRec
    <3>2. QED
      BY <2>2, <3>1, MastersRecord, Zenon DEF HandleAbort, Order
  <2>3. CommitEnd => ~failed'
    BY CommitReleases, Zenon
  <2>4. QED
    BY <1>4, <2>1, <2>2, <2>3, Zenon DEF OwnerPhase, CommitBegin, CommitRefused, HandleFinalize, ProbeSlot, ProbeInstall,
       ghostVars
<1>5. CASE Evict
  <2>1. CASE EvictLost
    <3>1. evict.pc # "idle"
      BY <2>1, Zenon DEF EvictLost
    <3>2. QED
      BY <1>2, <2>1, <3>1, Zenon DEF EvictLost
  <2>2. CASE EvictAnswered
    <3>1. evict.pc # "idle"
      BY <2>2, Zenon DEF EvictAnswered
    <3>2. EvictItem(evict.gen, op).gen # 0
      <4>1. evict.gen # 0
        BY <3>1, SlotGens, Zenon DEF Known
      <4>2. QED
        BY <4>1, Zenon DEF EvictItem
    <3>3. \/ FinishSelection \/ UNCHANGED failed
          \/ PrepareEffect(EvictItem(evict.gen, op), PrepareStep(EvictItem(evict.gen, op)))
      BY <2>2, Zenon DEF EvictAnswered
    <3>4. QED
      BY <1>1, <1>2, <3>1, <3>2, <3>3, Zenon
  <2>3. CASE EvictCommit \/ EvictFinalize
    <3>1. evict.pc = "commit" => rec.st = "Prepared"
      BY Zenon DEF Order, Knows, ProtocolInv, LocalReclaim
    <3>2. evict.pc = "finalize" => rec.st = "Committed"
      BY Zenon DEF Order, Knows, ProtocolInv, LocalReclaim
    <3>3. evict.pc \in {"commit", "finalize"} => rec.item = EvictItem(evict.gen, op)
      BY Zenon DEF Order, LocalInv, EvictRec
    <3>4. QED
      BY <2>3, <3>1, <3>2, <3>3, Zenon DEF EvictCommit, EvictFinalize
  <2>4. EvictRelease => ~failed'
    BY EvictReleases, Zenon
  <2>5. QED
    BY <1>5, <2>1, <2>2, <2>3, <2>4, Zenon DEF Evict, EvictSelect, EvictSend, EvictTimeout, ghostVars
<1>6. CASE EvictHandler
  <2>1. \A o \in 1..MaxOp : hand[o].pc \in {"fenced", "ready"} => fence = EvictItem(hand[o].gen, o)
    BY Zenon DEF Order, Knows, ProtocolInv, FenceOwner
  <2>2. QED
    BY <1>6, <2>1, Zenon DEF EvictHandler, EvictFence, EvictReplan, EvictApply, ghostVars
<1>7. QED
  BY <1>3, <1>4, <1>5, <1>6, Zenon

-----------------------------------------------------------------------------
(* The invariant, and what it says.                                        *)

\* At first every slot is free and nothing refers to one.
LEMMA InitSlots == Init => SlotsInv
<1> SUFFICES ASSUME Init PROVE SlotsInv
  BY Zenon
<1>1. Order /\ ~failed
  BY InitOrder, Zenon DEF Init
<1>2. /\ rec.src = "none" /\ rec.st = "none" /\ lget.pc = "idle" /\ rget.pc = "idle" /\ evict.pc = "idle"
      /\ lput.gen = 0 /\ idx = 0 /\ sel = 0 /\ pend = 0 /\ ~route.own /\ probes = {}
  BY Zenon DEF Init, NoRec, NoLGet, NoRGet, NoEvict, NoPut, NoRoute
<1>3. ~HiddenGet
  BY <1>2, Zenon DEF HiddenGet
<1>4. SlotsHeld
  <2>1. FreeSlot \in Slot
    BY Zenon DEF FreeSlot, Slot, SlotStates, Scopes
  <2>2. Held(FreeSlot, 0, 0)
    BY <2>1, Zenon DEF Held, FreeSlot
  <2>3. ASSUME NEW g \in Gens
        PROVE  /\ slot[g] = FreeSlot /\ readers[g] = 0 /\ lput.gen # g
               /\ HolderCount(g) = 0 /\ LeaseCount(g) = 0
    <3>1. slot[g] = FreeSlot /\ readers[g] = 0
      BY Zenon DEF Init
    <3>2. g # 0
      BY BoundAssumption DEF Gens
    <3>3. ~Arc(g) /\ ~Leased(g)
      BY <1>2, <1>3, <3>2, Zenon DEF Arc, RecArc, Leased
    <3>4. QED
      BY <1>2, <3>1, <3>2, <3>3 DEF HolderCount, LeaseCount
  <2>4. FreeSlot.st = "free"
    BY Zenon DEF FreeSlot
  <2>5. slot \in [Gens -> Slot]
    BY <2>1, Zenon DEF Init
  <2>6. QED
    BY <2>2, <2>3, <2>4, <2>5, Zenon DEF SlotsHeld
<1>5. SlotInv
  BY <1>2, <1>3, <1>4, Zenon DEF SlotInv, ArcsApart, RoutedArcs, DemotionHolds
<1>6. SourceInv
  BY <1>2, Zenon DEF SourceInv, ProbeSource, SlotSource, RouteReadable
<1>7. QED
  BY <1>1, <1>5, <1>6, Zenon DEF SlotsInv

\* Every step preserves the invariant.
LEMMA StepSlotsInv == SlotsInv /\ [Next]_vars => SlotsInv'
<1> SUFFICES ASSUME SlotsInv, [Next]_vars PROVE SlotsInv'
  BY Zenon
<1>1. Order /\ SlotInv /\ ProbeSource /\ SlotSource /\ RouteReadable /\ ~failed
  BY Zenon DEF SlotsInv, SourceInv
<1>2. Order' /\ SlotInv'
  BY <1>1, StepOrdered, StepSlots, Zenon
<1>3. SourceInv'
  BY <1>1, <1>2, StepProbeSource, StepSlotSource, StepReadable, Zenon DEF SourceInv
<1>4. ~failed'
  <2>1. CASE UNCHANGED vars
    BY <1>1, <2>1, Zenon DEF vars, ghostVars
  <2>2. QED
    BY <1>1, <2>1, DataAsserted, ReclaimAsserted, Zenon DEF Next
<1>5. QED
  BY <1>2, <1>3, <1>4, Zenon DEF SlotsInv

\* The invariant holds throughout.
THEOREM SlotsStayHeld == Spec => []SlotsInv
BY InitSlots, StepSlotsInv, PTL DEF Spec

\* No assert!, expect or unwrap of client_kv_api/reclaim.rs, of the owner's
\* allocator or of the master's eviction handler is ever disappointed: not when a
\* slot's references are released, not when a record is committed or put back into
\* the index, not when a handler takes its fence off the key.
THEOREM AssertionsHold == Spec => []NoAssertionFails
<1>1. SlotsInv => NoAssertionFails
  BY Zenon DEF SlotsInv, NoAssertionFails
<1>2. QED
  BY <1>1, SlotsStayHeld, PTL

\* The owner gives up the slot that the master routes to only between the Commit
\* and the Finalize of a reclaim, behind the fence of the master's job for it (or
\* when an older own get has replaced it in the index).
THEOREM RoutedSlotsAreReadable == Spec => []RoutedSlotReadable
<1>1. SlotsInv => RoutedSlotReadable
  <2> SUFFICES ASSUME SlotsInv, rec.st = "Committed", rec.item.why = "master", rec.item.gen = route.gen
               PROVE  fence = job.item /\ job.item.gen = route.gen
    BY Zenon DEF RoutedSlotReadable, SlotsInv, SourceInv, RouteReadable
  <2>1. fence = rec.item
    BY Zenon DEF SlotsInv, Order, Knows, ProtocolInv, ReleaseHeld
  <2>2. fence = job.item
    BY <2>1, Zenon DEF SlotsInv, Order, Knows, ProtocolInv, FenceOwner
  <2>3. QED
    BY <2>1, <2>2, Zenon
<1>2. QED
  BY <1>1, SlotsStayHeld, PTL

\* A slot that somebody reads is not freed: a local reader or an Arc of the owner's
\* own keeps its holder, and a remote transfer its source lease.
THEOREM ReadersAreKept == Spec => []ReadersKeepSlot
<1>1. SlotsInv => ReadersKeepSlot
  <2> SUFFICES ASSUME SlotsInv PROVE ReadersKeepSlot
    BY Zenon
  <2>1. SlotsHeld /\ readers \in [Gens -> Nat] /\ (rget.pc # "idle" => rget.gen \in Gens)
    BY SlotGens, Zenon DEF SlotsInv, SlotInv, Known
  <2>2. ASSUME NEW g \in Gens
        PROVE  /\ readers[g] > 0 \/ OwnArc(g) => slot[g].holders = 1
               /\ Leased(g) => slot[g].leases = 1
    <3>1. OwnArc(g) => Arc(g)
      BY Zenon DEF OwnArc, Arc, HiddenGet, RecArc
    <3>2. readers[g] > 0 => readers[g] # 0
      BY <2>1
    <3>3. (readers[g] > 0 \/ OwnArc(g) => HolderCount(g) = 1) /\ (Leased(g) => LeaseCount(g) = 1)
      BY <2>1, <3>1, <3>2, AtSlot, Zenon
    <3>4. slot[g].holders = HolderCount(g) /\ slot[g].leases = LeaseCount(g)
      BY <2>1, AtSlot, Zenon DEF Held
    <3>5. QED
      BY <3>3, <3>4, Zenon
  <2>3. \A g \in Gens : readers[g] > 0 \/ OwnArc(g) => slot[g].holders > 0
    BY <2>2
  <2>4. rget.pc = "leased" => slot[rget.gen].leases > 0
    <3>1. rget.pc = "leased" => rget.gen \in Gens /\ Leased(rget.gen)
      BY <2>1, Zenon DEF Leased
    <3>2. rget.pc = "leased" => slot[rget.gen].leases = 1
      BY <2>2, <3>1, Zenon
    <3>3. QED
      BY <3>2
  <2>5. QED
    BY <2>3, <2>4, Zenon DEF ReadersKeepSlot
<1>2. QED
  BY <1>1, SlotsStayHeld, PTL

\* The types: the key's activity count and every reference count of a slot stay
\* natural numbers, so that no release underflows, and only written generations are
\* routed, fenced, indexed or broadcast.
THEOREM TypeCorrect == Spec => []TypeOK
<1>1. SlotsInv => TypeOK
  <2> SUFFICES ASSUME SlotsInv PROVE TypeOK
    BY Zenon
  <2>1. Knows /\ SlotsHeld
    BY Zenon DEF SlotsInv, Order, SlotInv
  <2>2. /\ nextGen \in Nat /\ epoch \in Nat /\ op \in Nat /\ idx \in Nat /\ sel \in Nat /\ pend \in Nat
        /\ route \in [gen : Nat, own : BOOLEAN, indexed : BOOLEAN] /\ fence \in Items
    BY <2>1, Zenon DEF Knows, Types, MasterTypes, OwnerTypes
  <2>3. nextGen \in 0..MaxGen /\ epoch \in 0..MaxEpoch /\ op \in 0..MaxOp
    BY <2>1, <2>2, BoundAssumption DEF Knows, MasterKnows, OwnerKnows
  <2>4. {idx, sel, pend} \subseteq 0..MaxGen
    <3>1. idx <= nextGen /\ sel <= nextGen /\ pend <= nextGen /\ nextGen <= MaxGen
      BY <2>1, Zenon DEF Knows, MasterKnows, OwnerKnows
    <3>2. idx \in 0..MaxGen /\ sel \in 0..MaxGen /\ pend \in 0..MaxGen
      BY <2>2, <3>1, BoundAssumption
    <3>3. QED
      BY <3>2, Zenon
  <2>5. route \in [gen : 0..MaxGen, own : BOOLEAN, indexed : BOOLEAN]
    <3>1. route.gen \in Nat /\ route.gen <= nextGen /\ nextGen <= MaxGen
      BY <2>1, <2>2, Zenon DEF Knows, MasterKnows
    <3>2. route.gen \in 0..MaxGen
      BY <2>2, <3>1, BoundAssumption
    <3>3. QED
      BY <2>2, <3>2, Zenon
  <2>6. fence \in Item \cup {NoItem}
    <3>1. fence = NoItem \/ (Written(fence.gen) /\ fence.why # "none")
      BY <2>1, Zenon DEF Knows, MasterKnows
    <3>2. CASE Written(fence.gen) /\ fence.why # "none"
      <4>1. fence.gen \in Gens
        BY <2>2, <2>3, <3>2, BoundAssumption DEF Written, Gens, Items
      <4>2. QED
        BY <2>2, <3>2, <4>1, Zenon DEF Items, Item
    <3>3. QED
      BY <3>1, <3>2, Zenon
  <2>7. bcast \subseteq Gens /\ untold \subseteq Gens /\ regressed \subseteq Gens
    <3>1. \A g \in bcast \cup untold \cup regressed : g \in Nat /\ Written(g)
      BY <2>1, Zenon DEF Knows, MasterKnows
    <3>2. \A g \in bcast \cup untold \cup regressed : g \in Gens
      BY <2>3, <3>1, BoundAssumption DEF Written, Gens
    <3>3. QED
      BY <3>2, Zenon
  <2>8. gets \in Nat /\ failed \in BOOLEAN /\ slot \in [Gens -> Slot]
    BY <2>1, Zenon DEF Knows, CountTypes, SlotsHeld
  <2>9. QED
    BY <2>3, <2>4, <2>5, <2>6, <2>7, <2>8, Zenon DEF TypeOK
<1>2. QED
  BY <1>1, SlotsStayHeld, PTL

-----------------------------------------------------------------------------
(* How a slot becomes readable, and for whom.                              *)

\* What happens to a slot that is readable after a step: nothing; or a put is
\* published, an own get takes it into the index, or an eviction demotes it.
Scoped(g) ==
  \/ /\ SourceReadable(slot[g]) /\ slot'[g].scope = slot[g].scope
     /\ IndexArc(g)' <=> IndexArc(g)
  \/ OwnerPutPublish /\ g = lput.gen /\ slot'[g].scope = "LocalExclusive" /\ IndexArc(g)'
  \/ OwnerGetPromote /\ g = lget.gen /\ SourceReadable(slot[g])
     /\ slot'[g].scope = "LocalExclusive" /\ IndexArc(g)'
  \/ EvictRelease /\ g = evict.gen /\ SourceReadable(slot[g])
     /\ slot'[g].scope = "GlobalShared" /\ ~IndexArc(g)'

\* What the operations do to the scope of a slot, and that a released route does
\* not come back.
LEMMA OperationScopes ==
  ASSUME NEW s \in Slot
  PROVE  /\ \A t \in {RetainHolder(s), ReleaseHolder(s), AcquireSource(s), ReleaseSource(s),
                      ReserveDemotion(s), DropReservation(s)} :
              SourceReadable(t) => SourceReadable(s) /\ t.scope = s.scope
         /\ ~SourceReadable(ReleaseRoute(s)) /\ ~SourceReadable(ReleaseResident(s))
<1>1. ASSUME NEW t, t.scope = s.scope, t.route = s.route, t.st = s.st,
             NEW u, u = t \/ u = FreeIfUnreferenced(t), SourceReadable(u)
      PROVE  SourceReadable(s) /\ u.scope = s.scope
  <2>1. u = t \/ u = FreeSlot
    BY <1>1, Zenon DEF FreeIfUnreferenced
  <2>2. ~SourceReadable(FreeSlot)
    BY SlotFields, Zenon DEF SourceReadable
  <2>3. u = t
    BY <1>1, <2>1, <2>2, Zenon
  <2>4. QED
    BY <1>1, <2>3, Zenon DEF SourceReadable
<1>2. ASSUME NEW t, ~t.route, NEW u, u = FreeIfUnreferenced(t)
      PROVE  ~SourceReadable(u)
  BY <1>2, SlotFields, Zenon DEF FreeIfUnreferenced, SourceReadable
<1>3. SourceReadable(ReleaseHolder(s)) => SourceReadable(s) /\ ReleaseHolder(s).scope = s.scope
  <2> DEFINE t == [s EXCEPT !.holders = @ - 1]
  <2>1. t.scope = s.scope /\ t.route = s.route /\ t.st = s.st
    BY Zenon DEF Slot
  <2>2. ReleaseHolder(s) = FreeIfUnreferenced(t)
    BY Zenon DEF ReleaseHolder
  <2> HIDE DEF t
  <2>3. QED
    BY <1>1, <2>1, <2>2, Zenon
<1>4. SourceReadable(ReleaseSource(s)) => SourceReadable(s) /\ ReleaseSource(s).scope = s.scope
  <2> DEFINE t == [s EXCEPT !.leases = @ - 1]
  <2>1. t.scope = s.scope /\ t.route = s.route /\ t.st = s.st
    BY Zenon DEF Slot
  <2>2. ReleaseSource(s) = FreeIfUnreferenced(t)
    BY Zenon DEF ReleaseSource
  <2> HIDE DEF t
  <2>3. QED
    BY <1>1, <2>1, <2>2, Zenon
<1>5. \A t \in {RetainHolder(s), AcquireSource(s), ReserveDemotion(s), DropReservation(s)} :
        t.scope = s.scope /\ t.route = s.route /\ t.st = s.st
  BY Zenon DEF RetainHolder, AcquireSource, ReserveDemotion, DropReservation, Slot
<1>6. ~SourceReadable(ReleaseRoute(s))
  <2> DEFINE t == [s EXCEPT !.route = FALSE]
  <2>1. ~t.route
    BY Zenon DEF Slot
  <2>2. ReleaseRoute(s) = FreeIfUnreferenced(t)
    BY Zenon DEF ReleaseRoute
  <2> HIDE DEF t
  <2>3. QED
    BY <1>2, <2>1, <2>2, Zenon
<1>7. ~SourceReadable(ReleaseResident(s))
  <2> DEFINE t == [s EXCEPT !.route = FALSE, !.holders = @ - 1]
  <2>1. ~t.route
    BY Zenon DEF Slot
  <2>2. ReleaseResident(s) = FreeIfUnreferenced(t)
    BY Zenon DEF ReleaseResident
  <2> HIDE DEF t
  <2>3. QED
    BY <1>2, <2>1, <2>2, Zenon
<1>8. QED
  BY <1>3, <1>4, <1>5, <1>6, <1>7, Zenon DEF SourceReadable

\* One slot changes, by an operation that leaves its scope alone.
LEMMA ScopeKept ==
  ASSUME SlotInv, NEW g \in Gens, SourceReadable(slot'[g]), IndexArc(g)' <=> IndexArc(g), NEW x, NEW v,
         slot' = slot \/ slot' = [slot EXCEPT ![x] = v],
         x \in Gens /\ SourceReadable(v) => SourceReadable(slot[x]) /\ v.scope = slot[x].scope
  PROVE  Scoped(g)
<1>1. slot \in [Gens -> Slot]
  BY Zenon DEF SlotInv, SlotsHeld
<1>2. CASE slot'[g] = slot[g]
  BY <1>2, Zenon DEF Scoped
<1>3. CASE g = x /\ slot'[g] = v
  BY <1>3, Zenon DEF Scoped
<1>4. QED
  BY <1>1, <1>2, <1>3, Zenon

\* The entry that a publication replaces in the index is no longer readable, and
\* nothing else changes.
LEMMA ReplaceScopes ==
  ASSUME Order, SlotInv, NEW s \in [Gens -> Slot], idx # 0 => s[idx] = slot[idx]
  PROVE  /\ idx # 0 => ~SourceReadable(ReplaceIndexed(s)[idx])
         /\ \A h \in Gens : h # idx => ReplaceIndexed(s)[h] = s[h]
<1>1. \A h \in Gens : h # idx => ReplaceIndexed(s)[h] = s[h]
  BY IndexReplaced, Zenon
<1>2. ASSUME idx # 0 PROVE ~SourceReadable(ReplaceIndexed(s)[idx])
  <2>1. idx \in Gens /\ s[idx] \in Slot /\ SourceReadable(slot[idx])
    BY <1>2, SlotGens, Zenon DEF Known, SlotInv, RoutedArcs
  <2> DEFINE r == ReleaseRoute(s[idx])
             u == [s EXCEPT ![idx] = r]
  <2>2. ~SourceReadable(r) /\ r \in Slot
    <3>1. ~SourceReadable(r)
      BY <2>1, OperationScopes, Zenon
    <3>2. Held(slot[idx], HolderCount(idx), LeaseCount(idx))
      BY <2>1, Zenon DEF SlotInv, SlotsHeld
    <3>3. r \in Slot
      BY <1>2, <2>1, <3>2, RouteReleased, Zenon DEF Held
    <3>4. QED
      BY <3>1, <3>3, Zenon
  <2>3. u[idx] = r /\ ReplaceIndexed(s) = DropArc(u, idx)
    BY <1>2, <2>1, Zenon DEF ReplaceIndexed
  <2>4. u \in [Gens -> Slot]
    BY <2>1, <2>2, Zenon
  <2> HIDE DEF r, u
  <2>5. ReplaceIndexed(s)[idx] = r \/ ReplaceIndexed(s)[idx] = ReleaseHolder(r)
    BY <2>1, <2>3, <2>4, Zenon DEF DropArc
  <2>6. QED
    BY <2>2, <2>5, OperationScopes, Zenon
<1>3. QED
  BY <1>1, <1>2, Zenon

\* A slot that is readable after a step was so before, or one of those happened.
LEMMA ScopeMoves ==
  ASSUME Order, SlotInv, SlotSource, [Next]_vars, NEW g \in Gens, SourceReadable(slot'[g])
  PROVE  Scoped(g)
<1>0. slot \in [Gens -> Slot] /\ g # 0
  BY SlotGens, Zenon DEF SlotInv, SlotsHeld
<1>S. ASSUME UNCHANGED <<idx, sel, rec>> PROVE IndexArc(g)' <=> IndexArc(g)
  BY <1>S, Zenon DEF IndexArc, RecArc
<1>O. \A x : x \in Gens =>
        \A v \in {RetainHolder(slot[x]), ReleaseHolder(slot[x]), AcquireSource(slot[x]), ReleaseSource(slot[x]),
                  ReserveDemotion(slot[x]), DropReservation(slot[x])} :
          SourceReadable(v) => SourceReadable(slot[x]) /\ v.scope = slot[x].scope
  BY <1>0, OperationScopes, Zenon
\* A step that leaves the index alone and changes one slot by one of those.
<1>K. ASSUME UNCHANGED <<idx, sel, rec>>, NEW x,
             \/ UNCHANGED slot
             \/ slot' = [slot EXCEPT ![x] = RetainHolder(slot[x])]
             \/ slot' = [slot EXCEPT ![x] = ReleaseHolder(slot[x])]
             \/ slot' = [slot EXCEPT ![x] = AcquireSource(slot[x])]
             \/ slot' = [slot EXCEPT ![x] = ReleaseSource(slot[x])]
             \/ slot' = [slot EXCEPT ![x] = ReserveDemotion(slot[x])]
             \/ slot' = [slot EXCEPT ![x] = DropReservation(slot[x])]
      PROVE  Scoped(g)
  <2>1. IndexArc(g)' <=> IndexArc(g)
    BY <1>K, <1>S, Zenon
  <2>2. CASE UNCHANGED slot
    BY <2>1, <2>2, Zenon DEF Scoped
  <2>3. PICK v \in {RetainHolder(slot[x]), ReleaseHolder(slot[x]), AcquireSource(slot[x]), ReleaseSource(slot[x]),
                    ReserveDemotion(slot[x]), DropReservation(slot[x]), slot[x]} :
          slot' = slot \/ slot' = [slot EXCEPT ![x] = v]
    BY <1>K, Zenon
  <2>4. CASE v = slot[x]
    BY <2>1, <2>3, <2>4, ScopeKept, Zenon
  <2>5. CASE v # slot[x]
    <3>1. x \in Gens /\ SourceReadable(v) => SourceReadable(slot[x]) /\ v.scope = slot[x].scope
      BY <1>O, <2>3, <2>5, Zenon
    <3>2. QED
      BY <2>1, <2>3, <3>1, ScopeKept, Zenon
  <2>6. QED
    BY <2>4, <2>5, Zenon
<1>D. ASSUME UNCHANGED <<idx, sel, rec>>, NEW x, slot' = DropArc(slot, x) PROVE Scoped(g)
  <2>1. UNCHANGED slot \/ slot' = [slot EXCEPT ![x] = ReleaseHolder(slot[x])]
    BY <1>D, Zenon DEF DropArc
  <2>2. QED
    BY <1>D, <1>K, <2>1, Zenon
\* The index moves, the slots at most their reservations.
<1>R. ASSUME IndexArc(g)' <=> IndexArc(g), NEW x, UNCHANGED slot \/ slot' = [slot EXCEPT ![x] = DropReservation(slot[x])]
      PROVE  Scoped(g)
  <2>1. x \in Gens => (SourceReadable(DropReservation(slot[x])) =>
                         SourceReadable(slot[x]) /\ DropReservation(slot[x]).scope = slot[x].scope)
    BY <1>O, Zenon
  <2>2. QED
    BY <1>R, <2>1, ScopeKept, Zenon
<1>Put. CASE Put \/ MasterDelete
  <2>1. CASE OwnerPutStart
    <3>1. slot' = [slot EXCEPT ![nextGen + 1] = RetainHolder(MarkPendingVisible(PreparedSlot))] /\ UNCHANGED <<idx, sel, rec>>
      BY <2>1, Zenon DEF OwnerPutStart
    <3>2. ~SourceReadable(RetainHolder(MarkPendingVisible(PreparedSlot)))
      BY Zenon DEF RetainHolder, MarkPendingVisible, PreparedSlot, FreeSlot, SourceReadable
    <3>3. QED
      BY <1>S, <3>1, <3>2, ScopeKept, Zenon
  <2>2. CASE OwnerPutFail
    BY <1>D, <2>2, Zenon DEF OwnerPutFail
  <2>3. CASE OwnerPutCommit \/ OtherPut \/ MasterDelete
    BY <1>K, <2>3, Zenon DEF OwnerPutCommit, OtherPut, MasterDelete, localVars
  <2>4. CASE OwnerPutPublish
    <3>1. /\ lput.pc = "routed" /\ idx' = lput.gen /\ UNCHANGED <<sel, rec>>
          /\ slot' = ReplaceIndexed([slot EXCEPT ![lput.gen] = PromotePending(slot[lput.gen])])
      BY <2>4, Zenon DEF OwnerPutPublish
    <3>2. lput # NoPut
      BY <3>1 DEF NoPut
    <3>3. lput.gen \in Gens /\ lput.gen # idx
      <4>1. Older(lput.gen)
        BY <3>2, NamedGens, Zenon DEF Order
      <4>2. lput.gen # 0
        BY <4>1 DEF Older, Written
      <4>3. QED
        BY <4>2, SlotGens, Zenon DEF SlotInv, ArcsApart, Known
    <3> DEFINE p == PromotePending(slot[lput.gen])
               s == [slot EXCEPT ![lput.gen] = p]
    <3>4. p \in Slot /\ p.scope = "LocalExclusive"
      <4>1. slot[lput.gen] \in Slot
        BY <1>0, <3>3, Zenon
      <4>2. QED
        BY <4>1, Zenon DEF PromotePending, Slot, SlotStates, Scopes
    <3> HIDE DEF p
    <3>5. /\ s \in [Gens -> Slot] /\ s[lput.gen] = p /\ (\A h \in Gens : h # lput.gen => s[h] = slot[h])
          /\ idx # 0 => s[idx] = slot[idx]
      BY <1>0, <3>3, <3>4, SlotGens, Zenon DEF Known
    <3>6. slot' = ReplaceIndexed(s)
      BY <3>1, Zenon DEF p
    <3> HIDE DEF s
    <3>7. (idx # 0 => ~SourceReadable(slot'[idx])) /\ (\A h \in Gens : h # idx => slot'[h] = s[h])
      BY <3>5, <3>6, ReplaceScopes, Zenon
    <3>8. g # idx
      BY <1>0, <3>7, Zenon
    <3>9. CASE g = lput.gen
      BY <2>4, <3>1, <3>4, <3>5, <3>7, <3>8, <3>9, Zenon DEF Scoped, IndexArc
    <3>10. CASE g # lput.gen
      <4>1. slot'[g] = slot[g]
        BY <3>5, <3>7, <3>8, <3>10, Zenon
      <4>2. IndexArc(g)' <=> IndexArc(g)
        BY <3>1, <3>8, <3>10, Zenon DEF IndexArc, RecArc
      <4>3. QED
        BY <4>1, <4>2, Zenon DEF Scoped
    <3>11. QED
      BY <3>9, <3>10, Zenon
  <2>5. QED
    BY <1>Put, <2>1, <2>2, <2>3, <2>4, Zenon DEF Put
<1>Broadcast. CASE Broadcast
  <2>1. PICK b \in Gens : BroadcastSkipped(b) \/ BroadcastLost(b) \/ BroadcastApply(b)
    BY <1>Broadcast, Zenon DEF Broadcast
  <2>2. CASE BroadcastSkipped(b) \/ BroadcastLost(b)
    BY <1>K, <2>2, Zenon DEF BroadcastSkipped, BroadcastLost, localVars
  <2>3. CASE BroadcastApply(b)
    <3> DEFINE dropIdx == idx # 0 /\ idx <= b
               global  == slot[b].scope = "GlobalShared" /\ slot[b].route
               w == IF global /\ idx # b THEN [slot EXCEPT ![b] = ReleaseRoute(slot[b])] ELSE slot
    <3>1. /\ slot' = IF dropIdx THEN ReplaceIndexed(w) ELSE w
          /\ idx' = IF dropIdx THEN 0 ELSE idx
          /\ w \in [Gens -> Slot] /\ (idx # 0 => w[idx] = slot[idx])
      BY <2>3, BroadcastMoves, Zenon
    <3>2. w[g] = slot[g] \/ ~SourceReadable(w[g])
      <4>1. ~SourceReadable(ReleaseRoute(slot[b]))
        BY <1>0, OperationScopes, Zenon
      <4>2. QED
        BY <1>0, <4>1, Zenon
    <3> HIDE DEF w
    <3>3. (dropIdx => g # idx) /\ slot'[g] = w[g]
      BY <1>0, <3>1, ReplaceScopes, Zenon
    <3>4. IndexArc(g)' <=> IndexArc(g)
      <4>1. idx' = g <=> idx = g
        BY <1>0, <3>1, <3>3, Zenon
      <4>2. UNCHANGED <<sel, rec>>
        BY <2>3, Zenon DEF BroadcastApply
      <4>3. QED
        BY <4>1, <4>2, Zenon DEF IndexArc, RecArc
    <3>5. QED
      BY <3>2, <3>3, <3>4, Zenon DEF Scoped
  <2>4. QED
    BY <2>1, <2>2, <2>3, Zenon
<1>Read. CASE Read \/ RemoteGet
  <2>1. UNCHANGED <<idx, sel, rec>>
    BY <1>Read, Zenon DEF Read, ReadStart, ReadEnd, RemoteGet, RemoteGetPlan, RemoteGetAcquire, RemoteGetDone, RemoteGetExpire,
       localVars
  <2>2. CASE Read
    <3>1. CASE ReadStart
      BY <1>K, <2>1, <3>1, Zenon DEF ReadStart
    <3>2. ASSUME NEW r \in Gens, ReadEnd(r) PROVE Scoped(g)
      <4>1. UNCHANGED slot \/ slot' = [slot EXCEPT ![r] = ReleaseHolder(slot[r])]
        BY <3>2, Zenon DEF ReadEnd
      <4>2. QED
        BY <1>K, <2>1, <4>1, Zenon
    <3>3. QED
      BY <2>2, <3>1, <3>2, Zenon DEF Read
  <2>3. CASE RemoteGet
    <3>1. \/ UNCHANGED slot
          \/ slot' = [slot EXCEPT ![rget.gen] = AcquireSource(slot[rget.gen])]
          \/ slot' = [slot EXCEPT ![rget.gen] = ReleaseSource(slot[rget.gen])]
      BY <2>3, Zenon DEF RemoteGet, RemoteGetPlan, RemoteGetAcquire, RemoteGetDone, RemoteGetExpire
    <3>2. QED
      BY <1>K, <2>1, <3>1, Zenon
  <2>4. QED
    BY <1>Read, <2>2, <2>3, Zenon
<1>Get. CASE OwnerGet
  <2>1. CASE (\E ext \in BOOLEAN : OwnerGetPlan(ext)) \/ OwnerGetExpire \/ OwnerGetInstall \/ OwnerGetDone
    <3>1. UNCHANGED slot \/ slot' = [slot EXCEPT ![lget.gen] = RetainHolder(slot[lget.gen])]
      BY <2>1, Zenon DEF OwnerGetPlan, OwnerGetExpire, OwnerGetInstall, OwnerGetDone
    <3>2. UNCHANGED <<idx, sel, rec>>
      BY <2>1, Zenon DEF OwnerGetPlan, OwnerGetExpire, OwnerGetInstall, OwnerGetDone, localVars
    <3>3. QED
      BY <1>K, <3>1, <3>2, Zenon
  <2>2. CASE OwnerGetAbort
    BY <1>D, <2>2, Zenon DEF OwnerGetAbort
  <2>3. CASE OwnerGetPromote /\ pend # lget.gen
    BY <1>D, <2>3, Zenon DEF OwnerGetPromote
  <2>4. CASE OwnerGetPromote /\ pend = lget.gen
    <3>1. /\ lget.pc = "accepted" /\ idx' = pend /\ UNCHANGED <<sel, rec>>
          /\ slot' = ReplaceIndexed([slot EXCEPT ![pend] = [slot[pend] EXCEPT !.scope = "LocalExclusive"]])
      BY <2>4, Zenon DEF OwnerGetPromote
    <3>2. pend # 0 /\ pend \in Gens /\ pend # idx
      <4>1. lget.pc # "idle" /\ HiddenGet
        BY <3>1, Zenon DEF HiddenGet
      <4>2. QED
        BY <2>4, <4>1, SlotGens, Zenon DEF Known, SlotInv, ArcsApart
    <3> DEFINE p == [slot[pend] EXCEPT !.scope = "LocalExclusive"]
               s == [slot EXCEPT ![pend] = p]
    <3>3. SourceReadable(slot[pend])
      BY <3>2, Zenon DEF SlotInv, RoutedArcs
    <3>4. p \in Slot /\ p.scope = "LocalExclusive"
      <4>1. slot[pend] \in Slot
        BY <1>0, <3>2, Zenon
      <4>2. QED
        BY <4>1, Zenon DEF Slot, Scopes
    <3> HIDE DEF p
    <3>5. /\ s \in [Gens -> Slot] /\ s[pend] = p /\ (\A h \in Gens : h # pend => s[h] = slot[h])
          /\ idx # 0 => s[idx] = slot[idx]
      BY <1>0, <3>2, <3>4, SlotGens, Zenon DEF Known
    <3>6. slot' = ReplaceIndexed(s)
      BY <3>1, Zenon DEF p
    <3> HIDE DEF s
    <3>7. (idx # 0 => ~SourceReadable(slot'[idx])) /\ (\A h \in Gens : h # idx => slot'[h] = s[h])
      BY <3>5, <3>6, ReplaceScopes, Zenon
    <3>8. g # idx
      BY <1>0, <3>7, Zenon
    <3>9. CASE g = pend
      BY <2>4, <3>1, <3>3, <3>4, <3>5, <3>7, <3>8, <3>9, Zenon DEF Scoped, IndexArc
    <3>10. CASE g # pend
      <4>1. slot'[g] = slot[g]
        BY <3>5, <3>7, <3>8, <3>10, Zenon
      <4>2. IndexArc(g)' <=> IndexArc(g)
        BY <3>1, <3>8, <3>10, Zenon DEF IndexArc, RecArc
      <4>3. QED
        BY <4>1, <4>2, Zenon DEF Scoped
    <3>11. QED
      BY <3>9, <3>10, Zenon
  <2>5. QED
    BY <1>Get, <2>1, <2>2, <2>3, <2>4, Zenon DEF OwnerGet
\* A Prepare takes the Arc of the index or of the selection over.
<1>P. ASSUME NEW i, i.gen # 0, PrepareEffect(i, PrepareStep(i)) PROVE IndexArc(g)' <=> IndexArc(g)
  <2>1. CASE UNCHANGED <<rec, sel, idx>>
    BY <1>S, <2>1, Zenon
  <2>2. CASE rec = NoRec /\ rec' = Prepared(i, "index") /\ sel' = 0 /\ idx' = 0 /\ i.gen \in {sel, idx}
    <3>1. rec.src = "none" /\ rec'.src = "index" /\ rec'.item = i
      BY <2>2, Zenon DEF NoRec, Prepared
    <3>2. sel # 0 => idx = 0
      BY Zenon DEF Order, LocalInv, LocalFence, Fenced
    <3>3. QED
      BY <1>0, <1>P, <2>2, <3>1, <3>2, Zenon DEF IndexArc, RecArc
  <2>3. QED
    BY <1>P, <2>1, <2>2, PrepareLocal, Zenon DEF Order
<1>N. /\ NoRec.src = "none" /\ NoRec.st = "none" /\ rec \in Records /\ (rec # NoRec => sel = 0 /\ idx = 0)
      /\ (rec.src # "none" <=> rec.st \in {"Prepared", "Releasing"})
  BY MastersRecord, Zenon DEF NoRec, Order, Knows, Types, OwnerTypes, LocalInv, RecShape
<1>Phase. CASE OwnerPhase
  <2>1. ASSUME NEW m \in net, HandlePrepare(m) PROVE Scoped(g)
    <3>1. Older(m.item.gen)
      BY NamedGens, Zenon DEF Order
    <3>2. m.item.gen # 0
      BY <3>1 DEF Older, Written
    <3>3. UNCHANGED slot /\ PrepareEffect(m.item, PrepareStep(m.item))
      BY <2>1, Zenon DEF HandlePrepare
    <3>4. QED
      BY <1>P, <1>R, <3>2, <3>3, Zenon
  <2>2. ASSUME NEW m \in net, CommitBegin(m) \/ CommitRefused(m) \/ HandleFinalize(m) PROVE Scoped(g)
    <3>1. rec' = rec \/ rec' = [rec EXCEPT !.st = "Releasing"] \/ (rec' = NoRec /\ rec.st = "Committed")
      BY <2>2, Zenon DEF CommitBegin, CommitRefused, HandleFinalize, localVars
    <3>2. RecArc(g)' <=> RecArc(g)
      <4>1. CASE rec' = NoRec /\ rec.st = "Committed"
        <5>1. rec.src = "none" /\ rec'.src = "none"
          BY <1>N, <4>1, Zenon
        <5>2. QED
          BY <5>1, Zenon DEF RecArc
      <4>2. CASE rec' = [rec EXCEPT !.st = "Releasing"]
        BY <1>N, <4>2, Zenon DEF RecArc, Records
      <4>3. QED
        BY <3>1, <4>1, <4>2, Zenon DEF RecArc
    <3>3. UNCHANGED <<idx, sel, slot>>
      BY <2>2, Zenon DEF CommitBegin, CommitRefused, HandleFinalize, localVars
    <3>4. QED
      BY <1>R, <3>2, <3>3, Zenon DEF IndexArc
  <2>3. ASSUME NEW m \in net, HandleAbort(m) PROVE Scoped(g)
    <3>1. /\ UNCHANGED <<sel, slot>>
          /\ \/ UNCHANGED <<rec, idx>>
             \/ /\ rec.st = "Prepared" /\ rec' = NoRec
                /\ idx' = IF rec.src = "index" THEN rec.item.gen ELSE idx
      BY <2>3, Zenon DEF HandleAbort
    <3>2. CASE UNCHANGED <<rec, idx>>
      BY <1>R, <1>S, <3>1, <3>2, Zenon
    <3>3. CASE /\ rec.st = "Prepared" /\ rec' = NoRec
               /\ idx' = IF rec.src = "index" THEN rec.item.gen ELSE idx
      <4>1. rec # NoRec /\ sel = 0 /\ idx = 0 /\ rec'.src = "none"
        BY <1>N, <3>3, Zenon
      <4>2. IndexArc(g)' <=> IndexArc(g)
        BY <1>0, <3>1, <3>3, <4>1, Zenon DEF IndexArc, RecArc
      <4>3. QED
        BY <1>R, <3>1, <4>2, Zenon
    <3>4. QED
      BY <3>1, <3>2, <3>3, Zenon
  <2>4. ASSUME NEW p \in probes, ProbeSlot(p) \/ ProbeInstall(p) PROVE Scoped(g)
    <3>1. /\ UNCHANGED <<idx, sel, slot>>
          /\ rec' = rec \/ (~Fenced /\ rec' = Prepared(p.req.item, "slot"))
      BY <2>4, Zenon DEF ProbeSlot, ProbeInstall
    <3>2. RecArc(g)' <=> RecArc(g)
      <4>1. CASE ~Fenced /\ rec' = Prepared(p.req.item, "slot")
        <5>1. rec.src = "none" /\ rec'.src = "slot"
          BY <4>1, Unfenced, Zenon DEF Prepared
        <5>2. QED
          BY <5>1, Zenon DEF RecArc
      <4>2. QED
        BY <3>1, <4>1, Zenon DEF RecArc
    <3>3. QED
      BY <1>R, <3>1, <3>2, Zenon DEF IndexArc
  <2>5. CASE CommitEnd
    <3>1. /\ rec' = [rec EXCEPT !.st = "Committed", !.src = "none"] /\ UNCHANGED <<idx, sel>>
          /\ rec.st = "Releasing" /\ ReleaseBacking(FALSE)
      BY <2>5, Zenon DEF CommitEnd
    <3>2. rec'.src = "none" /\ rec # NoRec
      BY <1>N, <3>1, Zenon DEF Records
    <3>3. g # rec.item.gen
      <4>1. rec.item.gen \in Gens
        BY <3>2, SlotGens, Zenon DEF Known
      <4>2. \/ slot'[rec.item.gen] = ReleaseRoute(slot[rec.item.gen])
            \/ slot'[rec.item.gen] = ReleaseResident(slot[rec.item.gen])
        BY <1>0, <3>1, <4>1, Zenon DEF ReleaseBacking
      <4>3. ~SourceReadable(ReleaseRoute(slot[rec.item.gen])) /\ ~SourceReadable(ReleaseResident(slot[rec.item.gen]))
        BY <1>0, <4>1, OperationScopes, Zenon
      <4>4. QED
        BY <4>2, <4>3, Zenon
    <3>4. slot'[g] = slot[g]
      BY <2>5, <3>3, CommitReleases, Zenon
    <3>5. IndexArc(g)' <=> IndexArc(g)
      <4>1. ~RecArc(g)' /\ ~RecArc(g)
        BY <3>2, <3>3, Zenon DEF RecArc
      <4>2. QED
        BY <3>1, <4>1, Zenon DEF IndexArc
    <3>6. QED
      BY <3>4, <3>5, Zenon DEF Scoped
  <2>6. QED
    BY <1>Phase, <2>1, <2>2, <2>3, <2>4, <2>5, Zenon DEF OwnerPhase
\* A selection goes back to the index.
<1>F. ASSUME FinishSelection, evict.pc # "idle" PROVE Scoped(g)
  <2>1. evict.gen # 0
    BY <1>F, SlotGens, Zenon DEF Known
  <2>2. sel # 0 => idx = 0
    BY Zenon DEF Order, LocalInv, LocalFence, Fenced
  <2>3. /\ slot' = [slot EXCEPT ![evict.gen] = DropReservation(slot[evict.gen])] /\ UNCHANGED rec
        /\ idx' = IF sel = evict.gen THEN sel ELSE idx
        /\ sel' = IF sel = evict.gen THEN 0 ELSE sel
    BY <1>F, Zenon DEF FinishSelection
  <2>4. IndexArc(g)' <=> IndexArc(g)
    BY <1>0, <2>1, <2>2, <2>3, Zenon DEF IndexArc, RecArc
  <2>5. QED
    BY <1>R, <2>3, <2>4, Zenon
<1>Evict. CASE Evict
  <2>1. CASE EvictSelect
    <3>1. sel = 0 /\ idx # 0 /\ sel' = idx /\ idx' = 0 /\ UNCHANGED <<rec, slot>>
      BY <2>1, Zenon DEF EvictSelect, Fenced
    <3>2. IndexArc(g)' <=> IndexArc(g)
      BY <1>0, <3>1, Zenon DEF IndexArc, RecArc
    <3>3. QED
      BY <1>R, <3>1, <3>2, Zenon
  <2>2. ASSUME NEW r \in BOOLEAN, EvictSend(r) PROVE Scoped(g)
    <3>1. UNCHANGED slot \/ slot' = [slot EXCEPT ![evict.gen] = ReserveDemotion(slot[evict.gen])]
      BY <2>2, Zenon DEF EvictSend
    <3>2. UNCHANGED <<idx, sel, rec>>
      BY <2>2, Zenon DEF EvictSend, localVars
    <3>3. QED
      BY <1>K, <3>1, <3>2, Zenon
  <2>3. CASE EvictTimeout
    BY <1>K, <2>3, Zenon DEF EvictTimeout, localVars
  <2>4. CASE EvictLost
    <3>1. evict.pc # "idle"
      BY <2>4, Zenon DEF EvictLost
    <3>2. QED
      BY <1>F, <2>4, <3>1, Zenon DEF EvictLost
  <2>5. CASE EvictAnswered
    <3>1. evict.pc # "idle"
      BY <2>5, Zenon DEF EvictAnswered
    <3>2. EvictItem(evict.gen, op).gen # 0
      <4>1. evict.gen # 0
        BY <3>1, SlotGens, Zenon DEF Known
      <4>2. QED
        BY <4>1, Zenon DEF EvictItem
    <3>3. \/ FinishSelection
          \/ /\ \/ UNCHANGED <<rec, sel, idx>>
                \/ PrepareEffect(EvictItem(evict.gen, op), PrepareStep(EvictItem(evict.gen, op)))
             /\ UNCHANGED slot \/ slot' = [slot EXCEPT ![evict.gen] = DropReservation(slot[evict.gen])]
      BY <2>5, Zenon DEF EvictAnswered
    <3>4. QED
      BY <1>F, <1>P, <1>R, <1>S, <3>1, <3>2, <3>3, Zenon
  <2>6. CASE EvictCommit \/ EvictFinalize
    <3>1. evict.pc = "finalize" => rec.src = "none"
      BY <1>N, Zenon DEF Order, Knows, ProtocolInv, LocalReclaim
    <3>2. /\ UNCHANGED <<idx, sel, slot>>
          /\ rec' = [rec EXCEPT !.st = "Releasing"] \/ (rec' = NoRec /\ evict.pc = "finalize")
      BY <2>6, Zenon DEF EvictCommit, EvictFinalize
    <3>3. RecArc(g)' <=> RecArc(g)
      <4>1. CASE rec' = NoRec /\ evict.pc = "finalize"
        BY <1>N, <3>1, <4>1, Zenon DEF RecArc
      <4>2. CASE rec' = [rec EXCEPT !.st = "Releasing"]
        BY <1>N, <4>2, Zenon DEF RecArc, Records
      <4>3. QED
        BY <3>2, <4>1, <4>2, Zenon
    <3>4. QED
      BY <1>R, <3>2, <3>3, Zenon DEF IndexArc
  <2>7. CASE EvictRelease
    <3> DEFINE demote == evict.out = "DemotedGlobal"
    <3>1. /\ rec' = [rec EXCEPT !.st = "Committed", !.src = "none"] /\ UNCHANGED <<idx, sel>>
          /\ evict.pc = "release" /\ ReleaseBacking(demote)
      BY <2>7, Zenon DEF EvictRelease
    <3>2. /\ rec.item.gen = evict.gen /\ rec.src = "index" /\ \A h \in Gens : h # evict.gen => slot'[h] = slot[h]
      BY <2>7, EvictReleases, Zenon
    <3>3. rec'.src = "none" /\ rec # NoRec /\ evict.gen \in Gens
      <4>1. rec # NoRec /\ rec'.src = "none"
        BY <1>N, <3>1, <3>2, Zenon DEF Records
      <4>2. QED
        BY <3>2, <4>1, SlotGens, Zenon DEF Known
    <3>4. ~RecArc(g)'
      BY <3>3, Zenon DEF RecArc
    <3>5. CASE g # evict.gen
      <4>1. slot'[g] = slot[g] /\ ~RecArc(g)
        BY <3>2, <3>5, Zenon DEF RecArc
      <4>2. QED
        BY <3>1, <3>4, <4>1, Zenon DEF Scoped, IndexArc
    <3>6. CASE g = evict.gen
      <4>1. SourceReadable(slot[g]) /\ slot[g] \in Slot
        BY <1>0, <3>2, <3>6, Zenon DEF SlotInv, RoutedArcs
      <4>2. slot'[g] = IF demote THEN ReleaseHolder(CommitDemotion(slot[g])) ELSE ReleaseResident(slot[g])
        <5>1. rec.src # "slot"
          BY <3>2, Zenon
        <5>2. QED
          BY <1>0, <3>1, <3>2, <3>6, <5>1, Zenon DEF ReleaseBacking
      <4>3. demote
        <5>1. ~SourceReadable(ReleaseResident(slot[g]))
          BY <4>1, OperationScopes, Zenon
        <5>2. QED
          BY <4>2, <5>1, Zenon
      <4>4. CommitDemotion(slot[g]) \in Slot /\ CommitDemotion(slot[g]).scope = "GlobalShared"
        BY <4>1, Zenon DEF CommitDemotion, Slot, Scopes
      <4>5. slot'[g].scope = "GlobalShared"
        BY <4>2, <4>3, <4>4, OperationScopes, Zenon
      <4>6. ~IndexArc(g)'
        BY <1>0, <1>N, <3>1, <3>3, <3>4, Zenon DEF IndexArc
      <4>7. QED
        BY <2>7, <3>6, <4>1, <4>5, <4>6, Zenon DEF Scoped
    <3>7. QED
      BY <3>5, <3>6, Zenon
  <2>8. QED
    BY <1>Evict, <2>1, <2>2, <2>3, <2>4, <2>5, <2>6, <2>7, Zenon DEF Evict
<1>Rest. CASE Job \/ EvictHandler \/ UNCHANGED vars
  BY <1>K, <1>Rest, Zenon DEF Job, JobPlan, JobFence, JobTimeout, JobValidate, JobAbort, JobFinish, JobFinalizeRetry, JobClear,
     EvictHandler, EvictFence, EvictReplan, EvictApply, localVars, vars
<1>Q. QED
  BY <1>Put, <1>Broadcast, <1>Read, <1>Get, <1>Phase, <1>Evict, <1>Rest, Zenon DEF Next

\* A generation whose slot is past stays so.
LEMMA PastStays ==
  ASSUME Order, SlotInv, SlotSource, [Next]_vars, NEW g \in Gens, g <= nextGen, Past(g)
  PROVE  Past(g)'
<1>1. ~SourceReadable(slot'[g])
  BY ScopeMoves, Zenon DEF Scoped, Past
<1>2. lput'.gen # g
  <2>1. CASE OwnerPutStart
    <3>1. lput'.gen = nextGen + 1
      BY <2>1, Zenon DEF OwnerPutStart
    <3>2. QED
      BY <3>1, SlotGens DEF Gens
  <2>2. CASE OwnerPutCommit
    BY <2>2, Zenon DEF OwnerPutCommit, Past, Order, Knows, Types, OwnerTypes, Puts
  <2>3. CASE ~Naming
    <3>1. lput' \in {lput, NoPut} /\ NoPut.gen = 0 /\ g # 0
      BY <2>3, RouteMoves, SlotGens, Zenon DEF Order, NoPut
    <3>2. QED
      BY <3>1, Zenon DEF Past
  <2>4. QED
    BY <2>1, <2>2, <2>3, Zenon DEF Naming
<1>3. QED
  BY <1>1, <1>2, Zenon DEF Past

-----------------------------------------------------------------------------
(* What was given up stays given up.                                       *)

\* A step that adds neither a reader, nor a hidden get, nor a lease.
Idle == /\ readers' = readers
        /\ HiddenGet' => HiddenGet /\ lget'.gen = lget.gen
        /\ rget'.pc = "leased" => rget.pc = "leased" /\ rget'.gen = rget.gen

\* The steps that change who reads.
Reading == ReadStart \/ RemoteGetAcquire \/ OwnerGetInstall \/ \E g \in Gens : ReadEnd(g)

\* Every other step is of the first kind.
LEMMA OtherStepsIdle ==
  ASSUME Order, [Next]_vars, ~Reading
  PROVE  Idle
<1>0. lget \in Gets /\ rget \in RGets
  BY Zenon DEF Order, Knows, Types, OwnerTypes, CountTypes
<1>N. NoLGet.pc \notin {"hidden", "accepted", "rejected"} /\ NoRGet.pc # "leased"
  BY Zenon DEF NoLGet, NoRGet
<1>K. UNCHANGED <<readers, lget, rget>> => Idle
  BY Zenon DEF Idle, HiddenGet
<1>1. CASE Put
  BY <1>1, <1>K, Zenon DEF Put, OwnerPutStart, OwnerPutCommit, OwnerPutFail, OwnerPutPublish, OtherPut, localVars
<1>2. CASE MasterDelete \/ Broadcast \/ UNCHANGED vars
  BY <1>2, <1>K, Zenon DEF MasterDelete, Broadcast, BroadcastSkipped, BroadcastLost, BroadcastApply, localVars, vars
<1>3. CASE RemoteGet
  <2>1. UNCHANGED <<readers, lget>>
    BY <1>3, Zenon DEF RemoteGet, RemoteGetPlan, RemoteGetAcquire, RemoteGetDone, RemoteGetExpire, localVars
  <2>2. CASE RemoteGetPlan \/ RemoteGetDone
    <3>1. rget'.pc # "leased"
      BY <2>2, <1>N DEF RemoteGetPlan, RemoteGetDone
    <3>2. QED
      BY <2>1, <3>1, Zenon DEF Idle, HiddenGet
  <2>3. CASE RemoteGetExpire
    <3>1. rget'.pc = rget.pc /\ rget'.gen = rget.gen
      BY <1>0, <2>3, Zenon DEF RemoteGetExpire, RGets
    <3>2. QED
      BY <2>1, <3>1, Zenon DEF Idle, HiddenGet
  <2>4. QED
    BY <1>3, <2>2, <2>3, Zenon DEF RemoteGet, Reading
<1>4. CASE OwnerGet
  <2>1. UNCHANGED rget /\ (OwnerGetInstall \/ UNCHANGED readers)
    BY <1>4, Zenon DEF OwnerGet, OwnerGetPlan, OwnerGetExpire, OwnerGetInstall, OwnerGetDone, OwnerGetPromote,
       OwnerGetAbort, localVars
  <2>2. ~OwnerGetInstall
    BY Zenon DEF Reading
  <2>3. CASE \E ext \in BOOLEAN : OwnerGetPlan(ext)
    <3>1. lget'.pc = "planned"
      BY <2>3 DEF OwnerGetPlan
    <3>2. ~HiddenGet'
      BY <3>1, Zenon DEF HiddenGet
    <3>3. QED
      BY <2>1, <2>2, <3>2, Zenon DEF Idle
  <2>4. CASE OwnerGetExpire
    <3>1. lget'.pc = lget.pc /\ lget'.gen = lget.gen
      BY <1>0, <2>4, Zenon DEF OwnerGetExpire, Gets
    <3>2. QED
      BY <2>1, <2>2, <3>1, Zenon DEF Idle, HiddenGet
  <2>5. CASE OwnerGetDone
    <3>1. lget.pc = "hidden" /\ lget'.gen = lget.gen
      BY <1>0, <2>5, Zenon DEF OwnerGetDone, Gets
    <3>2. HiddenGet
      BY <3>1, Zenon DEF HiddenGet
    <3>3. QED
      BY <2>1, <2>2, <3>1, <3>2, Zenon DEF Idle
  <2>6. CASE OwnerGetPromote \/ OwnerGetAbort
    <3>1. lget' = NoLGet
      BY <2>6, Zenon DEF OwnerGetPromote, OwnerGetAbort
    <3>2. ~HiddenGet'
      BY <1>N, <3>1, Zenon DEF HiddenGet
    <3>3. QED
      BY <2>1, <2>2, <3>2, Zenon DEF Idle
  <2>7. QED
    BY <1>4, <2>2, <2>3, <2>4, <2>5, <2>6, Zenon DEF OwnerGet
<1>5. CASE OwnerPhase
  BY <1>5, <1>K, Zenon DEF OwnerPhase, HandlePrepare, CommitBegin, CommitRefused, HandleAbort, HandleFinalize, ProbeSlot,
     ProbeInstall, CommitEnd, localVars
<1>6. CASE Evict
  BY <1>6, <1>K, Zenon DEF Evict, EvictSelect, EvictSend, EvictTimeout, EvictLost, EvictAnswered, EvictCommit, EvictRelease,
     EvictFinalize, localVars
<1>7. CASE Job \/ EvictHandler
  BY <1>7, <1>K, Zenon DEF Job, JobPlan, JobFence, JobTimeout, JobValidate, JobAbort, JobFinish, JobFinalizeRetry, JobClear,
     EvictHandler, EvictFence, EvictReplan, EvictApply, localVars
<1>8. QED
  BY <1>1, <1>2, <1>3, <1>4, <1>5, <1>6, <1>7, Zenon DEF Next, Read, Reading

\* Only the indexed slot gets a reader; a get or a lease takes only a readable one.
LEMMA ReferenceGained ==
  ASSUME Order, [Next]_vars, NEW g \in Gens
  PROVE  /\ readers'[g] # 0 => readers[g] # 0 \/ idx = g \/ SourceReadable(slot[g])
         /\ HiddenGet' /\ lget'.gen = g => (HiddenGet /\ lget.gen = g) \/ SourceReadable(slot[g])
         /\ Leased(g)' => Leased(g) \/ SourceReadable(slot[g])
<1>0. readers \in [Gens -> Nat] /\ lget \in Gets /\ rget \in RGets
  BY SlotGens, Zenon DEF Order, Knows, Types, OwnerTypes, CountTypes
<1>1. CASE ReadStart
  <2>1. readers' = [readers EXCEPT ![idx] = @ + 1] /\ UNCHANGED <<lget, rget>>
    BY <1>1, Zenon DEF ReadStart
  <2>2. readers'[g] = readers[g] \/ idx = g
    BY <1>0, <2>1, Zenon
  <2>3. QED
    BY <2>1, <2>2, Zenon DEF HiddenGet, Leased
<1>2. CASE \E h \in Gens : ReadEnd(h)
  <2>1. PICK h \in Gens : ReadEnd(h)
    BY <1>2, Zenon
  <2>2. readers[h] > 0 /\ readers' = [readers EXCEPT ![h] = @ - 1] /\ UNCHANGED <<lget, rget>>
    BY <2>1, Zenon DEF ReadEnd
  <2>3. readers[h] # 0
    BY <1>0, <2>2
  <2>4. h = g \/ readers'[g] = readers[g]
    BY <1>0, <2>2, Zenon
  <2>5. QED
    BY <2>2, <2>3, <2>4, Zenon DEF HiddenGet, Leased
<1>3. CASE RemoteGetAcquire
  <2>1. /\ UNCHANGED <<readers, lget>>
        /\ rget' = NoRGet \/ (SourceReadable(slot[rget.gen]) /\ rget' = [rget EXCEPT !.pc = "leased"])
    BY <1>3, Zenon DEF RemoteGetAcquire, localVars
  <2>2. NoRGet.pc # "leased" /\ [rget EXCEPT !.pc = "leased"].gen = rget.gen
    BY <1>0, Zenon DEF RGets, NoRGet
  <2>3. QED
    BY <2>1, <2>2, Zenon DEF HiddenGet, Leased
<1>4. CASE OwnerGetInstall
  <2>1. /\ UNCHANGED rget
        /\ \/ lget' = NoLGet /\ readers' = readers
           \/ /\ RouteOnly(slot[lget.gen]) /\ readers' = [readers EXCEPT ![lget.gen] = @ + 1]
              /\ lget' = [lget EXCEPT !.pc = "hidden", !.guard = lput = NoPut]
    BY <1>4, Zenon DEF OwnerGetInstall
  <2>2. NoLGet.pc \notin {"hidden", "accepted", "rejected"} /\ [lget EXCEPT !.pc = "hidden", !.guard = lput = NoPut].gen = lget.gen
    BY <1>0, Zenon DEF Gets, NoLGet
  <2>3. RouteOnly(slot[lget.gen]) => SourceReadable(slot[lget.gen])
    BY Zenon DEF RouteOnly, SourceReadable
  <2>4. [readers EXCEPT ![lget.gen] = @ + 1][g] = readers[g] \/ lget.gen = g
    BY <1>0, Zenon
  <2>5. QED
    BY <2>1, <2>2, <2>3, <2>4, Zenon DEF HiddenGet, Leased
<1>5. CASE ~Reading
  BY <1>5, OtherStepsIdle, Zenon DEF Idle, Leased
<1>6. QED
  BY <1>1, <1>2, <1>3, <1>4, <1>5, Zenon DEF Reading

\* A slot that was freed stays free.
LEMMA FreeStays ==
  ASSUME Order, SlotInv, SlotSource, [Next]_vars, Order', SlotInv',
         NEW g \in Gens, g <= nextGen, slot[g] = FreeSlot
  PROVE  slot'[g] = FreeSlot
<1>0. /\ SlotsHeld /\ readers \in [Gens -> Nat] /\ g # 0
      /\ SlotsHeld' /\ readers' \in [Gens -> Nat] /\ RoutedArcs'
  BY SlotGens, Zenon DEF SlotInv, Order, Knows, CountTypes
<1>1. /\ HolderCount(g) = 0 /\ LeaseCount(g) = 0 /\ lput.gen # g /\ ~SourceReadable(slot[g])
  BY <1>0, AtSlot, SlotFields, Zenon DEF Held, SourceReadable
<1>2. ~Arc(g) /\ readers[g] = 0 /\ ~Leased(g)
  <2>1. /\ HolderCount(g) = 1 <=> Arc(g) \/ readers[g] # 0
        /\ LeaseCount(g) = 1 <=> Leased(g)
    BY <1>0, AtSlot, Zenon
  <2>2. HolderCount(g) # 1 /\ LeaseCount(g) # 1
    BY <1>1
  <2>3. QED
    BY <2>1, <2>2, Zenon
<1>3. ~SourceReadable(slot'[g]) /\ lput'.gen # g
  BY <1>1, PastStays, Zenon DEF Past
<1>4. idx' # g /\ sel' # g /\ ~RecArc(g)'
  <2>1. /\ idx' # 0 => SourceReadable(slot'[idx'])
        /\ sel' # 0 => SourceReadable(slot'[sel'])
        /\ rec'.src = "index" => SourceReadable(slot'[rec'.item.gen])
    BY <1>0, Zenon DEF RoutedArcs
  <2>2. ASSUME NEW h, h = g PROVE h # 0 /\ ~SourceReadable(slot'[h])
    BY <1>0, <1>3, <2>2
  <2>3. idx' # g
    BY <2>1, <2>2, Zenon
  <2>4. sel' # g
    BY <2>1, <2>2, Zenon
  <2>5. ~RecArc(g)'
    BY <2>1, <2>2, Zenon DEF RecArc
  <2>6. QED
    BY <2>3, <2>4, <2>5, Zenon
<1>5. ~(HiddenGet' /\ lget'.gen = g) /\ readers'[g] = 0 /\ ~Leased(g)'
  BY <1>1, <1>2, ReferenceGained, Zenon DEF Arc
<1>6. ~Arc(g)'
  BY <1>3, <1>4, <1>5, Zenon DEF Arc
<1>7. Held(slot'[g], 0, 0) /\ slot'[g].st # "pending"
  <2>1. Held(slot'[g], HolderCount(g)', LeaseCount(g)') /\ (slot'[g].st = "pending" <=> lput'.gen = g)
    BY <1>0, Zenon DEF SlotsHeld
  <2>2. ~(readers'[g] > 0)
    BY <1>5
  <2>3. HolderCount(g)' = 0 /\ LeaseCount(g)' = 0
    BY <1>5, <1>6, <2>2, Zenon DEF HolderCount, LeaseCount
  <2>4. QED
    BY <1>3, <2>1, <2>3, Zenon
<1>8. slot'[g].st = "free"
  <2>1. CASE slot'[g].st # "free"
    <3>1. slot'[g].holders = 0 /\ slot'[g].leases = 0 /\ ~Unreferenced(slot'[g]) /\ slot'[g].st \in {"pending", "committed"}
      BY <1>7, <2>1, HeldFree, Zenon DEF Held
    <3>2. QED
      BY <1>3, <1>7, <3>1, Zenon DEF Unreferenced, SourceReadable
  <2>2. QED
    BY <2>1, Zenon
<1>9. QED
  BY <1>7, <1>8, Zenon DEF Held

\* Memory that free_allocation gave back is not taken up again, and a slot whose
\* route reference was released is never again a source of acquire_source or of
\* the owner's own get, whatever late request still names its generation.
THEOREM SlotsAreNotRevived == Spec => NoSlotRevived
<1>1. SlotsInv /\ SlotsInv' /\ [Next]_vars =>
        \A g \in 1..nextGen :
          /\ slot[g] = FreeSlot => slot'[g] = FreeSlot
          /\ ~SourceReadable(slot[g]) /\ lput.gen # g => ~SourceReadable(slot'[g])
  <2> SUFFICES ASSUME SlotsInv, SlotsInv', [Next]_vars, NEW g \in 1..nextGen
               PROVE  /\ slot[g] = FreeSlot => slot'[g] = FreeSlot
                      /\ ~SourceReadable(slot[g]) /\ lput.gen # g => ~SourceReadable(slot'[g])
    BY Zenon
  <2>1. Order /\ SlotInv /\ SlotSource /\ Order' /\ SlotInv'
    BY Zenon DEF SlotsInv, SourceInv
  <2>2. nextGen \in Nat /\ nextGen <= MaxGen
    BY <2>1, Zenon DEF Order, Knows, Types, MasterTypes, MasterKnows
  <2>3. g \in Gens /\ g <= nextGen
    BY <2>2, BoundAssumption DEF Gens
  <2>4. slot[g] = FreeSlot => slot'[g] = FreeSlot
    BY <2>1, <2>3, FreeStays, Zenon
  <2>5. ~SourceReadable(slot[g]) /\ lput.gen # g => ~SourceReadable(slot'[g])
    BY <2>1, <2>3, PastStays, Zenon DEF Past
  <2>6. QED
    BY <2>4, <2>5, Zenon
<1>2. QED
  BY <1>1, SlotsStayHeld, PTL DEF Spec, NoSlotRevived

-----------------------------------------------------------------------------
(* The master's route, and what the owner is told of it.                   *)

\* A put or a delete replaces the route, and the old one is broadcast; a get of the
\* owner's makes it indexed; a reclaim job takes it away; an eviction handler takes
\* it away or makes it global, for a worker that asks or untold.
Rerouted ==
  \/ /\ lput.pc = "precommit" /\ route' = [gen |-> lput.gen, own |-> TRUE, indexed |-> TRUE]
     /\ route.own => route.gen \in bcast'
  \/ /\ ~route'.own /\ ~route'.indexed /\ route'.gen \in {0, nextGen + 1} /\ (route'.gen # 0 => nextGen' = nextGen + 1)
     /\ route.own => route.gen \in bcast'
     /\ UNCHANGED <<slot, lput>>
  \/ /\ lget.pc = "hidden" /\ route.own /\ route.gen = lget.gen /\ route' = [route EXCEPT !.indexed = TRUE]
  \/ /\ job.pc = "finish" /\ route.gen = job.item.gen /\ route' = NoRoute
  \/ \E o \in 1..MaxOp :
       /\ hand[o].pc = "ready" /\ route.own /\ route.gen = hand[o].gen /\ hand'[o].pc = "done"
       /\ route' \in {[route EXCEPT !.indexed = FALSE], NoRoute}
       /\ route.gen \in untold' \/ (Asking /\ evict.gen = route.gen /\ Asking' /\ evict'.gen = evict.gen)

\* Nothing else happens to the route.
LEMMA RouteSteps ==
  ASSUME Knows, [Next]_vars
  PROVE  UNCHANGED route \/ Rerouted
<1>1. CASE Put \/ MasterDelete
  <2>1. CASE OwnerPutCommit
    BY <2>1, Zenon DEF OwnerPutCommit, BroadcastOld, Rerouted
  <2>2. CASE OtherPut
    BY <2>2, Zenon DEF OtherPut, BroadcastOld, Rerouted, localVars
  <2>3. CASE MasterDelete
    BY <2>3, Zenon DEF MasterDelete, BroadcastOld, Rerouted, NoRoute, localVars
  <2>4. QED
    BY <1>1, <2>1, <2>2, <2>3, Zenon DEF Put, OwnerPutStart, OwnerPutFail, OwnerPutPublish, masterVars
<1>2. CASE OwnerGet
  <2>1. CASE OwnerGetDone
    BY <2>1, Zenon DEF OwnerGetDone, Rerouted
  <2>2. QED
    BY <1>2, <2>1, Zenon DEF OwnerGet, OwnerGetPlan, OwnerGetExpire, OwnerGetInstall, OwnerGetPromote, OwnerGetAbort, masterVars
<1>3. CASE Job
  <2>1. CASE JobFinish
    BY <2>1, Zenon DEF JobFinish, RouteValid, Rerouted
  <2>2. QED
    BY <1>3, <2>1, Zenon DEF Job, JobPlan, JobFence, JobTimeout, JobValidate, JobAbort, JobFinalizeRetry, JobClear
<1>4. CASE EvictHandler
  <2>1. PICK o \in 1..MaxOp : EvictFence(o) \/ EvictReplan(o) \/ \E out \in EvictDecisions(hand[o]) : EvictApply(o, out)
    BY <1>4, Zenon DEF EvictHandler
  <2>2. CASE EvictFence(o) \/ EvictReplan(o)
    BY <2>2, Zenon DEF EvictFence, EvictReplan
  <2>3. ASSUME NEW out, EvictApply(o, out), route' # route PROVE Rerouted
    <3>1. /\ hand[o].pc = "ready" /\ route.own /\ route.gen = hand[o].gen
          /\ route' \in {[route EXCEPT !.indexed = FALSE], NoRoute} /\ out \in {"DemotedGlobal", "Completed"}
      BY <2>3, Zenon DEF EvictApply
    <3>2. hand' = [hand EXCEPT ![o].pc = "done"] /\ (evict' = evict \/ (evict.pc = "wait" /\ evict' = [evict EXCEPT !.pc = "answered", !.out = out]))
      BY <2>3, Zenon DEF EvictApply, Reply
    <3>3. hand'[o].pc = "done"
      BY <2>1, <3>2, Zenon DEF Knows, Types, MasterTypes, Handlers
    <3>4. evict'.gen = evict.gen /\ (Asking => Asking')
      <4>1. CASE evict' = evict
        BY <4>1, Zenon DEF Asking
      <4>2. CASE evict.pc = "wait" /\ evict' = [evict EXCEPT !.pc = "answered", !.out = out]
        <5>1. evict'.pc = "answered" /\ evict'.gen = evict.gen
          BY <4>2, Zenon DEF Knows, Types, OwnerTypes, Evicts
        <5>2. QED
          BY <5>1, Zenon DEF Asking
      <4>3. QED
        BY <3>2, <4>1, <4>2, Zenon
    <3>5. hand[o].gen \in untold' \/ (Asking /\ evict.gen = hand[o].gen)
      BY <2>3, <3>1, Zenon DEF EvictApply, Asking
    <3>6. QED
      BY <2>1, <3>1, <3>3, <3>4, <3>5, Zenon DEF Rerouted
  <2>4. QED
    BY <2>1, <2>2, <2>3, Zenon
<1>5. CASE Broadcast \/ Read \/ RemoteGet
  BY <1>5, Zenon DEF Broadcast, BroadcastSkipped, BroadcastLost, BroadcastApply, Read, ReadStart, ReadEnd, RemoteGet,
     RemoteGetPlan, RemoteGetAcquire, RemoteGetDone, RemoteGetExpire, masterVars
<1>6. CASE OwnerPhase \/ Evict \/ UNCHANGED vars
  BY <1>6, Zenon DEF OwnerPhase, HandlePrepare, CommitBegin, CommitRefused, HandleAbort, HandleFinalize, ProbeSlot,
     ProbeInstall, CommitEnd, Evict, EvictSelect, EvictSend, EvictTimeout, EvictLost, EvictAnswered, EvictCommit,
     EvictRelease, EvictFinalize, masterVars, vars
<1>7. QED
  BY <1>1, <1>2, <1>3, <1>4, <1>5, <1>6, Zenon DEF Next

\* What the owner has been told of stays so until it has acted on it.
LEMMA ToldStays ==
  ASSUME Order, SlotInv, SlotSource, ScopeArc, [Next]_vars, NEW g \in Gens, Told(g),
         SourceReadable(slot'[g]) \/ lput.gen = g
  PROVE  Told(g)'
<1>1. CASE Put \/ MasterDelete
  <2>1. bcast \subseteq bcast' /\ UNCHANGED untold
    BY <1>1, Zenon DEF Put, OwnerPutStart, OwnerPutCommit, OwnerPutFail, OwnerPutPublish, OtherPut, MasterDelete, BroadcastOld,
       netVars, ghostVars
  <2>2. QED
    BY <2>1, Zenon DEF Told
<1>2. CASE Broadcast
  <2>1. PICK b \in Gens : BroadcastSkipped(b) \/ BroadcastLost(b) \/ BroadcastApply(b)
    BY <1>2, Zenon DEF Broadcast
  <2>2. CASE BroadcastSkipped(b) \/ BroadcastLost(b)
    BY <2>2, Zenon DEF BroadcastSkipped, BroadcastLost, Told
  <2>3. CASE BroadcastApply(b)
    <3>1. bcast' = bcast \ {b} /\ untold \subseteq untold' /\ (lput.gen = b => b \in untold')
      BY <2>3, Zenon DEF BroadcastApply
    <3>2. CASE g # b \/ lput.gen = g
      BY <3>1, <3>2, Zenon DEF Told
    <3>3. CASE g = b /\ SourceReadable(slot'[g])
      <4>1. Scoped(g) /\ ~OwnerPutPublish /\ ~OwnerGetPromote /\ ~EvictRelease
        <5>1. bcast' # bcast
          BY <2>3, Zenon DEF BroadcastApply
        <5>2. QED
          BY <3>3, <5>1, ScopeMoves, Zenon DEF OwnerPutPublish, OwnerGetPromote, EvictRelease, netVars
      <4>2. SourceReadable(slot[g]) /\ (IndexArc(g)' <=> IndexArc(g))
        BY <4>1, Zenon DEF Scoped
      <4> DEFINE dropIdx == idx # 0 /\ idx <= b
                 global  == slot[b].scope = "GlobalShared" /\ slot[b].route
                 w == IF global /\ idx # b THEN [slot EXCEPT ![b] = ReleaseRoute(slot[b])] ELSE slot
      <4>3. /\ slot' = IF dropIdx THEN ReplaceIndexed(w) ELSE w
            /\ idx' = IF dropIdx THEN 0 ELSE idx
            /\ ~dropIdx => idx # b
            /\ w \in [Gens -> Slot] /\ (idx # 0 => w[idx] = slot[idx])
        BY <2>3, BroadcastMoves, Zenon
      <4>4. ~Fenced /\ UNCHANGED <<sel, rec>> /\ g # 0
        BY <2>3, SlotGens, Zenon DEF BroadcastApply
      <4>5. sel = 0 /\ rec.src = "none"
        BY <4>4, Unfenced, Zenon
      <4>6. ~RecArc(g)
        BY <4>5, Zenon DEF RecArc
      <4>7. IndexArc(g) <=> idx = g
        BY <4>4, <4>5, <4>6, Zenon DEF IndexArc
      <4>8. CASE idx = g
        <5>1. dropIdx /\ idx' = 0 /\ ~RecArc(g)'
          BY <3>3, <4>3, <4>4, <4>6, <4>8, Zenon DEF RecArc
        <5>2. ~IndexArc(g)'
          BY <4>4, <4>5, <5>1, Zenon DEF IndexArc
        <5>3. QED
          BY <4>2, <4>7, <4>8, <5>2, Zenon
      <4>9. CASE idx # g
        <5>1. global
          BY <3>3, <4>2, <4>7, <4>9, Zenon DEF ScopeArc, SourceReadable
        <5>2. ~SourceReadable(w[g])
          <6>1. slot \in [Gens -> Slot]
            BY Zenon DEF SlotInv, SlotsHeld
          <6>2. ~SourceReadable(ReleaseRoute(slot[g]))
            BY <6>1, OperationScopes, Zenon
          <6>3. QED
            BY <3>3, <4>9, <5>1, <6>1, <6>2, Zenon
        <5> HIDE DEF w
        <5>3. slot'[g] = w[g]
          BY <4>3, <4>9, ReplaceScopes, Zenon
        <5>4. QED
          BY <3>3, <5>2, <5>3, Zenon
      <4>10. QED
        BY <4>8, <4>9, Zenon
    <3>4. QED
      BY <3>2, <3>3, Zenon
  <2>4. QED
    BY <2>1, <2>2, <2>3, Zenon
<1>3. CASE Evict \/ EvictHandler
  <2>1. UNCHANGED bcast /\ untold \subseteq untold'
    BY <1>3, Zenon DEF Evict, EvictSelect, EvictSend, EvictTimeout, EvictLost, EvictAnswered, FinishSelection, EvictCommit,
       EvictRelease, EvictFinalize, EvictHandler, EvictFence, EvictReplan, EvictApply, netVars, ghostVars
  <2>2. QED
    BY <2>1, Zenon DEF Told
<1>4. CASE Read \/ RemoteGet \/ OwnerGet
  <2>1. UNCHANGED <<bcast, untold>>
    BY <1>4, Zenon DEF Read, ReadStart, ReadEnd, RemoteGet, RemoteGetPlan, RemoteGetAcquire, RemoteGetDone, RemoteGetExpire,
       OwnerGet, OwnerGetPlan, OwnerGetExpire, OwnerGetInstall, OwnerGetDone, OwnerGetPromote, OwnerGetAbort, netVars, ghostVars
  <2>2. QED
    BY <2>1, Zenon DEF Told
<1>5. CASE Job \/ OwnerPhase \/ UNCHANGED vars
  <2>1. UNCHANGED <<bcast, untold>>
    BY <1>5, Zenon DEF Job, JobPlan, JobFence, JobTimeout, JobValidate, JobAbort, JobFinish, JobFinalizeRetry, JobClear,
       OwnerPhase, HandlePrepare, CommitBegin, CommitRefused, HandleAbort, HandleFinalize, ProbeSlot, ProbeInstall,
       CommitEnd, netVars, ghostVars, vars
  <2>2. QED
    BY <2>1, Zenon DEF Told
<1>6. QED
  BY <1>1, <1>2, <1>3, <1>4, <1>5, Zenon DEF Next

-----------------------------------------------------------------------------
(* The eviction worker, its handlers, and the reclaim record.              *)

\* The worker asks, waits, asks again, takes an answer, gives up or goes on to
\* Commit, Release and Finalize.
Worked ==
  \/ evict'.pc = evict.pc /\ evict'.gen = evict.gen /\ evict'.out = evict.out
  \/ EvictSelect /\ evict'.pc = "send" /\ evict'.gen = idx
  \/ /\ evict'.gen = evict.gen /\ evict'.out = evict.out
     /\ \/ Asking /\ evict'.pc \in {"send", "wait"}
        \/ EvictAnswered /\ evict.pc = "answered" /\ evict'.pc = "commit"
        \/ evict.pc = "commit" /\ evict'.pc = "release"
        \/ EvictRelease /\ evict.pc = "release" /\ evict'.pc = "finalize"
  \/ /\ evict.pc = "wait" /\ evict'.pc = "answered" /\ evict'.gen = evict.gen
     /\ UNCHANGED slot /\ op \in 1..MaxOp
     /\ \/ evict'.out # "DemotedGlobal"
        \/ EvictPlan(hand[op].gen) = "DemotedGlobal" /\ UNCHANGED route
        \/ EvictApply(op, "DemotedGlobal")
  \/ evict' = NoEvict /\ (evict.pc = "finalize" \/ (Asking /\ FinishSelection /\ UNCHANGED <<route, bcast>>))

\* Nothing else happens to it.
LEMMA WorkerSteps ==
  ASSUME Knows, [Next]_vars
  PROVE  Worked
<1>0. evict \in Evicts
  BY Zenon DEF Knows, Types, OwnerTypes
<1>1. CASE UNCHANGED evict
  BY <1>1, Zenon DEF Worked
<1>2. CASE Put \/ MasterDelete \/ Broadcast \/ Read \/ RemoteGet
  <2>1. UNCHANGED evict
    BY <1>2, Zenon DEF Put, OwnerPutStart, OwnerPutCommit, OwnerPutFail, OwnerPutPublish, OtherPut, MasterDelete, Broadcast,
       BroadcastSkipped, BroadcastLost, BroadcastApply, Read, ReadStart, ReadEnd, RemoteGet, RemoteGetPlan,
       RemoteGetAcquire, RemoteGetDone, RemoteGetExpire, evictVars
  <2>2. QED
    BY <1>1, <2>1, Zenon
<1>3. CASE OwnerGet \/ Job
  <2>1. UNCHANGED evict
    BY <1>3, Zenon DEF OwnerGet, OwnerGetPlan, OwnerGetExpire, OwnerGetInstall, OwnerGetDone, OwnerGetPromote, OwnerGetAbort,
       Job, JobPlan, JobFence, JobTimeout, JobValidate, JobAbort, JobFinish, JobFinalizeRetry, JobClear, evictVars
  <2>2. QED
    BY <1>1, <2>1, Zenon
<1>4. CASE OwnerPhase
  <2>1. CASE CommitEnd
    <3>1. evict' = evict \/ evict' = [evict EXCEPT !.debt = FALSE]
      BY <2>1, Zenon DEF CommitEnd
    <3>2. evict'.pc = evict.pc /\ evict'.gen = evict.gen /\ evict'.out = evict.out
      BY <1>0, <3>1, Zenon DEF Evicts
    <3>3. QED
      BY <3>2, Zenon DEF Worked
  <2>2. CASE ~CommitEnd
    <3>1. UNCHANGED evict
      BY <1>4, <2>2, Zenon DEF OwnerPhase, HandlePrepare, CommitBegin, CommitRefused, HandleAbort, HandleFinalize,
         ProbeSlot, ProbeInstall, evictVars
    <3>2. QED
      BY <1>1, <3>1, Zenon
  <2>3. QED
    BY <2>1, <2>2, Zenon
<1>5. CASE Evict
  <2>1. CASE EvictSelect
    <3>1. evict'.pc = "send" /\ evict'.gen = idx
      BY <2>1, Zenon DEF EvictSelect
    <3>2. QED
      BY <2>1, <3>1, Zenon DEF Worked
  <2>2. CASE (\E r \in BOOLEAN : EvictSend(r)) \/ EvictTimeout
    <3>1. /\ evict.pc \in {"send", "wait"}
          /\ evict' = [evict EXCEPT !.pc = "wait"] \/ evict' = [evict EXCEPT !.pc = "send"]
      BY <2>2, Zenon DEF EvictSend, EvictTimeout
    <3>2. evict'.pc \in {"send", "wait"} /\ evict'.gen = evict.gen /\ evict'.out = evict.out
      BY <1>0, <3>1, Zenon DEF Evicts
    <3>3. QED
      BY <3>1, <3>2, Zenon DEF Worked, Asking
  <2>3. CASE EvictLost
    BY <2>3, Zenon DEF EvictLost, FinishSelection, Worked, Asking, masterVars, netVars
  <2>4. CASE EvictAnswered
    <3>0. evict.pc = "answered" /\ Asking
      BY <2>4, Zenon DEF EvictAnswered, Asking
    <3>1. CASE evict.out = "Stale"
      BY <2>4, <3>0, <3>1, Zenon DEF EvictAnswered, FinishSelection, Worked, masterVars, netVars
    <3>2. CASE evict.out # "Stale"
      <4>1. evict' = [evict EXCEPT !.pc = "commit"] \/ evict' = [evict EXCEPT !.pc = "send"]
        BY <2>4, <3>2, Zenon DEF EvictAnswered
      <4>2. evict'.pc \in {"send", "commit"} /\ evict'.gen = evict.gen /\ evict'.out = evict.out
        BY <1>0, <4>1, Zenon DEF Evicts
      <4>3. QED
        BY <2>4, <3>0, <4>2, Zenon DEF Worked
    <3>3. QED
      BY <3>1, <3>2, Zenon
  <2>5. CASE EvictCommit
    <3>1. evict.pc = "commit" /\ evict'.pc = "release" /\ evict'.gen = evict.gen /\ evict'.out = evict.out
      BY <1>0, <2>5, Zenon DEF EvictCommit, Evicts
    <3>2. QED
      BY <3>1, Zenon DEF Worked
  <2>6. CASE EvictRelease
    <3>1. evict.pc = "release" /\ evict'.pc = "finalize" /\ evict'.gen = evict.gen /\ evict'.out = evict.out
      BY <1>0, <2>6, Zenon DEF EvictRelease, Evicts
    <3>2. QED
      BY <2>6, <3>1, Zenon DEF Worked
  <2>7. CASE EvictFinalize
    BY <2>7, Zenon DEF EvictFinalize, Worked
  <2>8. QED
    BY <1>5, <2>1, <2>2, <2>3, <2>4, <2>5, <2>6, <2>7, Zenon DEF Evict
<1>6. CASE EvictHandler /\ evict' # evict
  <2>1. PICK o \in 1..MaxOp : EvictFence(o) \/ EvictReplan(o) \/ \E out \in EvictDecisions(hand[o]) : EvictApply(o, out)
    BY <1>6, Zenon DEF EvictHandler
  <2>2. ASSUME NEW out, evict.pc = "wait", op = o, evict' = [evict EXCEPT !.pc = "answered", !.out = out],
               UNCHANGED slot,
               \/ out # "DemotedGlobal"
               \/ EvictPlan(hand[op].gen) = "DemotedGlobal" /\ UNCHANGED route
               \/ EvictApply(op, "DemotedGlobal")
        PROVE  Worked
    <3>1. evict'.pc = "answered" /\ evict'.gen = evict.gen /\ evict'.out = out
      BY <1>0, <2>2, Zenon DEF Evicts
    <3>2. QED
      BY <2>1, <2>2, <3>1, Zenon DEF Worked
  <2>3. CASE EvictFence(o)
    <3> DEFINE out == IF EvictPlan(hand[o].gen) = "Ready" THEN "Busy" ELSE EvictPlan(hand[o].gen)
    <3>1. UNCHANGED <<route, slot>> /\ Reply(o, out)
      BY <1>6, <2>3, Zenon DEF EvictFence
    <3>2. out # "DemotedGlobal" \/ EvictPlan(hand[o].gen) = "DemotedGlobal"
      BY Zenon
    <3> HIDE DEF out
    <3>3. QED
      BY <1>6, <2>2, <3>1, <3>2, Zenon DEF Reply
  <2>4. CASE EvictReplan(o)
    <3> DEFINE out == EvictPlan(hand[o].gen)
    <3>1. UNCHANGED <<route, slot>> /\ Reply(o, out)
      BY <1>6, <2>4, Zenon DEF EvictReplan
    <3>2. out # "DemotedGlobal" \/ EvictPlan(hand[o].gen) = "DemotedGlobal"
      BY Zenon
    <3> HIDE DEF out
    <3>3. QED
      BY <1>6, <2>2, <3>1, <3>2, Zenon DEF Reply
  <2>5. ASSUME NEW out \in EvictDecisions(hand[o]), EvictApply(o, out) PROVE Worked
    <3>1. UNCHANGED slot /\ Reply(o, out)
      BY <2>5, Zenon DEF EvictApply
    <3>2. QED
      BY <1>6, <2>2, <2>5, <3>1, Zenon DEF Reply
  <2>6. QED
    BY <2>1, <2>3, <2>4, <2>5, Zenon
<1>7. QED
  BY <1>1, <1>2, <1>3, <1>4, <1>5, <1>6, Zenon DEF Next, vars, evictVars

\* A handler keeps the generation it was sent for, and becomes ready when it finds
\* that generation routed to its owner's index.
LEMMA HandSteps ==
  ASSUME Knows, [Next]_vars, NEW o \in 1..MaxOp, hand'[o].pc # "none"
  PROVE  \/ /\ hand'[o].gen = hand[o].gen /\ hand[o].pc # "none"
            /\ hand'[o].pc = "ready" =>
                 hand[o].pc = "ready" \/ (EvictPlan(hand[o].gen) = "Ready" /\ UNCHANGED route)
         \/ hand'[o].pc = "sent" /\ hand'[o].gen = evict.gen /\ evict.pc = "send"
<1>0. hand \in [1..MaxOp -> Handlers]
  BY Zenon DEF Knows, Types, MasterTypes
<1>1. CASE UNCHANGED hand
  BY <1>1, Zenon
<1>2. CASE \E r \in BOOLEAN : EvictSend(r)
  <2>1. PICK r \in BOOLEAN : EvictSend(r)
    BY <1>2, Zenon
  <2>2. hand' = [hand EXCEPT ![op + 1] = [pc |-> "sent", gen |-> evict.gen, resv |-> r]] /\ evict.pc = "send"
    BY <2>1, Zenon DEF EvictSend
  <2>3. CASE o = op + 1
    BY <1>0, <2>2, <2>3, Zenon
  <2>4. CASE o # op + 1
    BY <1>0, <2>2, <2>4, Zenon
  <2>5. QED
    BY <2>3, <2>4, Zenon
<1>3. CASE EvictHandler
  <2>1. PICK q \in 1..MaxOp : EvictFence(q) \/ EvictReplan(q) \/ \E out \in EvictDecisions(hand[q]) : EvictApply(q, out)
    BY <1>3, Zenon DEF EvictHandler
  <2>2. /\ hand[q].pc \in {"sent", "fenced", "ready"}
        /\ \/ hand' = [hand EXCEPT ![q].pc = "fenced"] \/ hand' = [hand EXCEPT ![q].pc = "done"]
           \/ hand' = [hand EXCEPT ![q].pc = "ready"] /\ EvictPlan(hand[q].gen) = "Ready" /\ UNCHANGED route
    BY <2>1, Zenon DEF EvictFence, EvictReplan, EvictApply, Reply
  <2>3. CASE o = q
    <3>1. hand'[o].gen = hand[o].gen
      BY <1>0, <2>2, <2>3, Zenon DEF Handlers
    <3>2. hand'[o].pc = "ready" => EvictPlan(hand[q].gen) = "Ready" /\ UNCHANGED route
      BY <1>0, <2>2, <2>3, Zenon DEF Handlers
    <3>3. QED
      BY <2>2, <2>3, <3>1, <3>2, Zenon
  <2>4. CASE o # q
    <3>1. hand'[o] = hand[o]
      BY <1>0, <2>2, <2>4, Zenon
    <3>2. QED
      BY <3>1, Zenon
  <2>5. QED
    BY <2>3, <2>4, Zenon
<1>4. CASE Put \/ MasterDelete \/ Broadcast \/ Read \/ RemoteGet \/ OwnerGet
  BY <1>1, <1>4, DataProtocol, Zenon DEF protocolVars
<1>5. CASE Job \/ OwnerPhase \/ UNCHANGED vars
  <2>1. UNCHANGED hand
    BY <1>5, Zenon DEF Job, JobPlan, JobFence, JobTimeout, JobValidate, JobAbort, JobFinish, JobFinalizeRetry, JobClear,
       OwnerPhase, HandlePrepare, CommitBegin, CommitRefused, HandleAbort, HandleFinalize, ProbeSlot, ProbeInstall,
       CommitEnd, masterVars, vars
  <2>2. QED
    BY <1>1, <2>1, Zenon
<1>6. CASE Evict
  <2>1. (\E r \in BOOLEAN : EvictSend(r)) \/ UNCHANGED hand
    BY <1>6, Zenon DEF Evict, EvictSelect, EvictTimeout, EvictLost, EvictAnswered, EvictCommit, EvictRelease, EvictFinalize,
       masterVars
  <2>2. QED
    BY <1>1, <1>2, <2>1, Zenon
<1>7. QED
  BY <1>3, <1>4, <1>5, <1>6, Zenon DEF Next

\* A reclaim of the master's commits its record at the end of commit_one only, and
\* its slot is given back then.
LEMMA RecordSteps ==
  ASSUME Order, SlotInv, [Next]_vars
  PROVE  \/ rec' = rec
         \/ CommitEnd /\ rec'.item = rec.item /\ Past(rec.item.gen)'
         \/ /\ rec'.st # "Committed" \/ rec'.item.why # "master"
            /\ rec.st # "Releasing" \/ rec.item.why # "master"
<1>0. rec \in Records /\ Knows /\ LocalInv /\ LocalReclaim
  BY Zenon DEF Order, Knows, Types, OwnerTypes, ProtocolInv
<1>1. NoRec.st = "none"
  BY Zenon DEF NoRec
<1>2. CASE Put \/ MasterDelete \/ Broadcast \/ Read \/ RemoteGet \/ OwnerGet
  BY <1>2, DataProtocol, Zenon DEF protocolVars
<1>3. CASE OwnerPhase
  <2>1. CASE \E m \in net : HandlePrepare(m)
    <3>1. PICK m \in net : HandlePrepare(m)
      BY <2>1, Zenon
    <3>2. PrepareEffect(m.item, PrepareStep(m.item))
      BY <3>1, Zenon DEF HandlePrepare
    <3>3. rec' = rec \/ (rec = NoRec /\ rec'.st = "Prepared")
      BY <1>0, <3>2, PrepareSteps, Zenon
    <3>4. QED
      BY <1>1, <3>3, Zenon
  <2>2. CASE \E m \in net : CommitBegin(m)
    <3>1. rec.st = "Prepared" /\ rec' = [rec EXCEPT !.st = "Releasing"]
      BY <2>2, Zenon DEF CommitBegin
    <3>2. rec'.st = "Releasing"
      BY <1>0, <3>1, Zenon DEF Records
    <3>3. QED
      BY <3>1, <3>2, Zenon
  <2>3. CASE \E m \in net : HandleAbort(m) \/ HandleFinalize(m)
    <3>1. rec' = rec \/ (rec' = NoRec /\ rec.st \in {"Prepared", "Committed"})
      BY <2>3, Zenon DEF HandleAbort, HandleFinalize
    <3>2. QED
      BY <1>1, <3>1, Zenon
  <2>4. CASE \E p \in probes : ProbeInstall(p)
    <3>1. rec' = rec \/ (rec = NoRec /\ \E p \in probes : rec' = Prepared(p.req.item, "slot"))
      BY <2>4, Zenon DEF ProbeInstall, Fenced
    <3>2. rec' = rec \/ (rec = NoRec /\ rec'.st = "Prepared")
      BY <3>1 DEF Prepared
    <3>3. QED
      BY <1>1, <3>2, Zenon
  <2>5. CASE CommitEnd
    <3>1. /\ rec.st = "Releasing" /\ rec' = [rec EXCEPT !.st = "Committed", !.src = "none"] /\ UNCHANGED lput
          /\ ReleaseBacking(FALSE)
      BY <2>5, Zenon DEF CommitEnd
    <3>2. rec'.item = rec.item /\ rec # NoRec
      BY <1>0, <1>1, <3>1, Zenon DEF Records
    <3>3. Known(rec.item.gen) /\ lput = NoPut /\ rec.src \in {"index", "slot"}
      <4>1. rec.src # "none"
        BY <1>0, <3>1, Zenon DEF LocalInv, RecShape
      <4>2. QED
        BY <1>0, <3>2, <4>1, SlotGens, MastersRecord, Zenon DEF Records
    <3>4. slot \in [Gens -> Slot] /\ slot[rec.item.gen] \in Slot
      BY <3>3, Zenon DEF SlotInv, SlotsHeld, Known
    <3>5. ~SourceReadable(ReleaseRoute(slot[rec.item.gen])) /\ ~SourceReadable(ReleaseResident(slot[rec.item.gen]))
      BY <3>4, OperationScopes, Zenon
    <3>6. slot'[rec.item.gen] \in {ReleaseRoute(slot[rec.item.gen]), ReleaseResident(slot[rec.item.gen])}
      BY <3>1, <3>3, <3>4, Zenon DEF ReleaseBacking, Known
    <3>7. lput'.gen # rec.item.gen
      <4>1. NoPut.gen = 0 /\ rec.item.gen # 0
        BY <3>3, SlotGens, Zenon DEF NoPut, Known
      <4>2. QED
        BY <3>1, <3>3, <4>1, Zenon
    <3>8. PICK g : g = rec.item.gen
      BY Zenon
    <3>9. Past(g)'
      BY <3>5, <3>6, <3>7, <3>8, Zenon DEF Past
    <3>10. Past(rec.item.gen)'
      BY <3>2, <3>8, <3>9, Zenon
    <3>11. QED
      BY <2>5, <3>2, <3>10, Zenon
  <2>6. QED
    BY <1>3, <2>1, <2>2, <2>3, <2>4, <2>5, Zenon DEF OwnerPhase, CommitRefused, ProbeSlot, localVars
<1>4. CASE Evict
  <2>1. CASE EvictAnswered
    <3>1. rec' = rec \/ PrepareEffect(EvictItem(evict.gen, op), PrepareStep(EvictItem(evict.gen, op)))
      BY <2>1, Zenon DEF EvictAnswered, FinishSelection
    <3>2. rec' = rec \/ (rec = NoRec /\ rec'.st = "Prepared")
      BY <1>0, <3>1, PrepareSteps, Zenon
    <3>3. QED
      BY <1>1, <3>2, Zenon
  <2>2. CASE EvictCommit \/ EvictRelease
    <3>1. rec.item.why = "owner"
      BY <1>0, <2>2, Zenon DEF EvictCommit, EvictRelease, LocalReclaim
    <3>2. rec'.item = rec.item
      BY <1>0, <2>2, Zenon DEF EvictCommit, EvictRelease, Records
    <3>3. QED
      BY <3>1, <3>2, Zenon
  <2>3. CASE EvictFinalize
    <3>1. rec.item.why = "owner" /\ rec' = NoRec
      BY <1>0, <2>3, Zenon DEF EvictFinalize, LocalReclaim
    <3>2. QED
      BY <1>1, <3>1, Zenon
  <2>4. QED
    BY <1>4, <2>1, <2>2, <2>3, Zenon DEF Evict, EvictSelect, EvictSend, EvictTimeout, EvictLost, FinishSelection, localVars
<1>5. CASE Job \/ EvictHandler \/ UNCHANGED vars
  BY <1>5, Zenon DEF Job, JobPlan, JobFence, JobTimeout, JobValidate, JobAbort, JobFinish, JobFinalizeRetry, JobClear,
     EvictHandler, EvictFence, EvictReplan, EvictApply, localVars, vars
<1>6. QED
  BY <1>2, <1>3, <1>4, <1>5, Zenon DEF Next

\* A job finishes when the owner has committed its item.
LEMMA FinishSteps ==
  ASSUME Order, [Next]_vars, job'.pc = "finish"
  PROVE  \/ job.pc = "finish" /\ job'.item = job.item
         \/ job'.item = rec'.item /\ rec'.st = "Committed" /\ rec'.item.why = "master"
<1>0. Types /\ Knows /\ LocalReclaim /\ NetItems /\ rec \in Records /\ job \in Jobs
  BY Zenon DEF Order, Knows, ProtocolInv, Types, OwnerTypes, MasterTypes
<1>1. ASSUME NEW m \in Requests, NEW a \in Answers, Answer(m, a), a = "Committed" => m.item = rec'.item /\ rec'.st = "Committed",
             m.item.why = "master"
      PROVE  \/ job.pc = "finish" /\ job'.item = job.item
             \/ job'.item = rec'.item /\ rec'.st = "Committed" /\ rec'.item.why = "master"
  <2>1. job'.item = job.item /\ (job' = job \/ Moved(m, a))
    BY <1>0, <1>1, AnswerMoves, Zenon
  <2>2. ASSUME Moved(m, a) PROVE a = "Committed" /\ job.item = m.item
    <3>1. m.ph \in {"prepare", "commit", "abort", "finalize"}
      BY Zenon DEF Requests, Phases
    <3>2. QED
      BY <2>2, <3>1, Zenon DEF Moved
  <2>3. QED
    BY <1>1, <2>1, <2>2, Zenon
<1>2. CASE Put \/ MasterDelete \/ Broadcast \/ Read \/ RemoteGet \/ OwnerGet
  BY <1>2, DataProtocol, Zenon DEF protocolVars
<1>3. CASE OwnerPhase
  <2>1. CASE \E m \in net : HandlePrepare(m)
    <3>1. PICK m \in net : HandlePrepare(m)
      BY <2>1, Zenon
    <3> DEFINE a == PrepareAnswer(PrepareStep(m.item))
    <3>2. m \in Requests /\ m.item \in Items /\ m.item.why = "master"
      BY <1>0, <3>1, GenTypes, Zenon DEF NetItems
    <3>3. PrepareEffect(m.item, PrepareStep(m.item)) /\ (job' = job \/ Answer(m, a))
      BY <3>1, Zenon DEF HandlePrepare
    <3>4. a \in Answers
      BY <1>0, <3>2, <3>3, PrepareTypes, Zenon
    <3>5. a # "Committed"
      <4>1. a = "Committed" => rec.item = m.item
        BY <1>0, <3>3, PrepareSteps, Zenon
      <4>2. rec.item # m.item
        BY <3>1, Zenon DEF HandlePrepare, Order, Knows, ProtocolInv, PrepareFirst, Preparing
      <4>3. QED
        BY <4>1, <4>2, Zenon
    <3> HIDE DEF a
    <3>6. QED
      BY <1>1, <3>2, <3>3, <3>4, <3>5, Zenon
  <2>2. CASE \E m \in net : CommitRefused(m) \/ HandleAbort(m) \/ HandleFinalize(m)
    <3>1. PICK m \in net : CommitRefused(m) \/ HandleAbort(m) \/ HandleFinalize(m)
      BY <2>2, Zenon
    <3>2. m \in Requests /\ m.item.why = "master"
      BY <1>0, <3>1, GenTypes, Zenon DEF NetItems
    <3>3. \E a \in Answers : Answer(m, a) /\ (a = "Committed" => m.item = rec'.item /\ rec'.st = "Committed")
      <4>1. CASE CommitRefused(m)
        BY <4>1, Zenon DEF CommitRefused, Answers, localVars
      <4>2. CASE HandleAbort(m)
        <5>1. CASE rec = NoRec \/ (rec.item = m.item /\ rec.st = "Prepared")
          BY <4>2, <5>1, Zenon DEF HandleAbort, Answers
        <5>2. CASE ~(rec = NoRec \/ (rec.item = m.item /\ rec.st = "Prepared"))
          <6>1. UNCHANGED rec
            BY <4>2, <5>2, Zenon DEF HandleAbort
          <6>2. CASE rec.item = m.item /\ rec.st = "Releasing"
            BY <4>2, <5>2, <6>2, Zenon DEF HandleAbort, Answers
          <6>3. CASE rec.item = m.item /\ rec.st = "Committed"
            BY <4>2, <5>2, <6>1, <6>3, Zenon DEF HandleAbort, Answers
          <6>4. CASE rec.item # m.item
            BY <4>2, <5>2, <6>4, Zenon DEF HandleAbort, Answers
          <6>5. QED
            BY <1>0, <5>2, <6>2, <6>3, <6>4, Zenon DEF LocalReclaim
        <5>3. QED
          BY <5>1, <5>2, Zenon
      <4>3. CASE HandleFinalize(m)
        BY <4>3, Zenon DEF HandleFinalize, Answers
      <4>4. QED
        BY <3>1, <4>1, <4>2, <4>3, Zenon
    <3>4. QED
      BY <1>1, <3>2, <3>3, Zenon
  <2>3. CASE \E p \in probes : ProbeInstall(p)
    <3>1. PICK p \in probes : ProbeInstall(p)
      BY <2>3, Zenon
    <3>2. p.req \in Requests /\ p.req.item.why = "master"
      BY <1>0, <3>1, GenTypes, Zenon DEF NetItems
    <3>3. \E a \in Answers : Answer(p.req, a) /\ a # "Committed"
      BY <3>1, Zenon DEF ProbeInstall, Answers
    <3>4. QED
      BY <1>1, <3>2, <3>3, Zenon
  <2>4. CASE CommitEnd
    <3>1. Request("commit", rec.item, 0) \in Requests /\ Request("commit", rec.item, 0).item = rec.item
      BY <1>0, GenTypes, Zenon DEF Request, Requests, Phases
    <3>2. rec'.item = rec.item /\ rec'.st = "Committed" /\ rec.item.why = "master"
      BY <1>0, <2>4, Zenon DEF CommitEnd, Records
    <3>3. QED
      BY <1>1, <2>4, <3>1, <3>2, Zenon DEF CommitEnd, Answers
  <2>5. QED
    BY <1>3, <2>1, <2>2, <2>3, <2>4, Zenon DEF OwnerPhase, CommitBegin, ProbeSlot, masterVars
<1>4. CASE Evict \/ EvictHandler \/ UNCHANGED vars
  BY <1>4, Zenon DEF Evict, EvictSelect, EvictSend, EvictTimeout, EvictLost, EvictAnswered, EvictCommit, EvictRelease,
     EvictFinalize, EvictHandler, EvictFence, EvictReplan, EvictApply, masterVars, vars
<1>5. CASE Job
  <2>1. job.try \in Nat
    BY <1>0, Zenon DEF Jobs
  <2>2. CASE JobTimeout
    BY <1>0, <2>2, TimeoutMoves, Zenon
  <2>3. CASE JobPlan
    BY <2>3, Zenon DEF JobPlan
  <2>4. CASE JobFence \/ JobClear
    <3>1. job' = NoJob \/ Send("prepare", 0)
      BY <2>4, Zenon DEF JobFence, JobClear
    <3>2. NoJob.pc = "idle"
      BY Zenon DEF NoJob
    <3>3. Send("prepare", 0) => job'.pc = "prepare"
      BY <1>0, SendMoves, Zenon DEF Phases
    <3>4. QED
      BY <3>1, <3>2, <3>3, Zenon
  <2>5. CASE JobValidate \/ JobAbort \/ JobFinish \/ JobFinalizeRetry
    <3>1. \/ job' = [job EXCEPT !.pc = "toabort"]
          \/ \E ph \in Phases, t \in Nat : Send(ph, t)
      <4>1. 0 \in Nat
        BY Zenon
      <4>2. QED
        BY <2>1, <2>5, <4>1, Zenon DEF JobValidate, JobAbort, JobFinish, JobFinalizeRetry, Phases
    <3>2. job'.pc \in {"toabort"} \cup Phases
      <4>1. CASE job' = [job EXCEPT !.pc = "toabort"]
        BY <1>0, <4>1, Zenon DEF Jobs
      <4>2. QED
        BY <1>0, <3>1, <4>1, SendMoves, Zenon
    <3>3. QED
      BY <3>2, Zenon DEF Phases
  <2>6. QED
    BY <1>5, <2>2, <2>3, <2>4, <2>5, Zenon DEF Job
<1>6. QED
  BY <1>2, <1>3, <1>4, <1>5, Zenon DEF Next

-----------------------------------------------------------------------------
(* Every step keeps ToldInv.                                               *)

\* A generation whose slot is still there keeps the master's route until the owner
\* is told, or until a handler takes it for a worker that asks.
LEMMA NameKept ==
  ASSUME Knows, PastGens, [Next]_vars, NEW g, Named(g), ~Past(g)
  PROVE  \/ Told(g)'
         \/ Named(g)' /\ route'.indexed = route.indexed
         \/ Named(g)' /\ route'.indexed /\ lget.pc = "hidden" /\ lget.gen = g
         \/ \E o \in 1..MaxOp :
              /\ hand[o].pc = "ready" /\ hand[o].gen = g /\ hand'[o].pc = "done"
              /\ (Named(g)' /\ ~route'.indexed) \/ (Asking /\ evict.gen = g /\ Asking' /\ evict'.gen = g)
<1>0. route \in [gen : Nat, own : BOOLEAN, indexed : BOOLEAN] /\ route.own /\ route.gen = g
  BY Zenon DEF Knows, Types, MasterTypes, Named
<1>1. CASE UNCHANGED route
  BY <1>0, <1>1, Zenon DEF Named
<1>2. CASE route.own => route.gen \in bcast'
  BY <1>0, <1>2, Zenon DEF Told
<1>3. CASE lget.pc = "hidden" /\ route.gen = lget.gen /\ route' = [route EXCEPT !.indexed = TRUE]
  <2>1. route'.own /\ route'.gen = g /\ route'.indexed
    BY <1>0, <1>3, Zenon
  <2>2. QED
    BY <1>0, <1>3, <2>1, Zenon DEF Named
<1>4. CASE job.pc = "finish" /\ route.gen = job.item.gen
  BY <1>0, <1>4, Zenon DEF PastGens
<1>5. ASSUME NEW o \in 1..MaxOp,
             hand[o].pc = "ready" /\ route.own /\ route.gen = hand[o].gen /\ hand'[o].pc = "done",
             route' \in {[route EXCEPT !.indexed = FALSE], NoRoute},
             route.gen \in untold' \/ (Asking /\ evict.gen = route.gen /\ Asking' /\ evict'.gen = evict.gen)
      PROVE  \/ Told(g)'
             \/ /\ hand[o].pc = "ready" /\ hand[o].gen = g /\ hand'[o].pc = "done"
                /\ (Named(g)' /\ ~route'.indexed) \/ (Asking /\ evict.gen = g /\ Asking' /\ evict'.gen = g)
  BY <1>0, <1>5, Zenon DEF Told
<1>6. QED
  BY <1>1, <1>2, <1>3, <1>4, <1>5, RouteSteps, Zenon DEF Rerouted

\* A slot that is readable after a step was readable before it, or a put has just
\* been published.
LEMMA WasReadable ==
  ASSUME Order, SlotInv, SlotSource, [Next]_vars, NEW g \in Gens, SourceReadable(slot'[g])
  PROVE  \/ SourceReadable(slot[g])
         \/ OwnerPutPublish /\ g = lput.gen /\ lput.pc = "routed" /\ lput # NoPut /\ UNCHANGED <<route, bcast, untold>>
<1>1. NoPut.pc = "idle"
  BY Zenon DEF NoPut
<1>2. OwnerPutPublish => lput.pc = "routed" /\ UNCHANGED <<route, bcast, untold>>
  BY Zenon DEF OwnerPutPublish, masterVars, netVars
<1>3. QED
  BY <1>1, <1>2, ScopeMoves, Zenon DEF Scoped

\* The scope of a readable slot follows the index.
LEMMA StepScope ==
  ASSUME Order, SlotInv, SlotSource, ScopeArc, [Next]_vars
  PROVE  ScopeArc'
<1>1. ASSUME NEW g \in Gens, SourceReadable(slot'[g])
      PROVE  slot'[g].scope = IF IndexArc(g)' THEN "LocalExclusive" ELSE "GlobalShared"
  BY <1>1, ScopeMoves, Zenon DEF Scoped, ScopeArc
<1>2. ASSUME evict'.pc \in {"send", "wait", "answered", "commit", "release"}, SourceReadable(slot'[evict'.gen])
      PROVE  slot'[evict'.gen].scope = "LocalExclusive"
  <2>0. NoEvict.pc = "idle" /\ Worked
    BY WorkerSteps, Zenon DEF NoEvict, Order
  <2>2. CASE EvictSelect /\ evict'.gen = idx
    <3>1. UNCHANGED slot /\ idx \in Gens /\ IndexArc(idx)
      BY <2>2, SlotGens, Zenon DEF EvictSelect, IndexArc, Known
    <3>2. QED
      BY <1>2, <2>2, <3>1, Zenon DEF ScopeArc
  <2>3. CASE ~(EvictSelect /\ evict'.gen = idx)
    <3>1. evict'.gen = evict.gen /\ evict.pc \in {"send", "wait", "answered", "commit", "release"} /\ ~EvictRelease
      <4>1. EvictRelease => evict'.pc = "finalize"
        BY Zenon DEF EvictRelease, Order, Knows, Types, OwnerTypes, Evicts
      <4>2. QED
        BY <1>2, <2>0, <2>3, <4>1, Zenon DEF Worked, Asking
    <3>2. PICK g \in Gens : g = evict.gen
      BY <3>1, SlotGens, Zenon DEF Known
    <3>3. Scoped(g)
      BY <1>2, <3>1, <3>2, ScopeMoves, Zenon
    <3>4. QED
      BY <3>1, <3>2, <3>3, Zenon DEF Scoped, ScopeArc
  <2>4. QED
    BY <2>2, <2>3, Zenon
<1>3. QED
  BY <1>1, <1>2, Zenon DEF ScopeArc

\* What is past stays past, and a reclaim commits only what it has given back.
LEMMA StepPast ==
  ASSUME Order, SlotInv, SlotSource, PastGens, [Next]_vars, Order'
  PROVE  PastGens'
<1>0. Knows /\ nextGen \in Nat /\ route \in [gen : Nat, own : BOOLEAN, indexed : BOOLEAN]
  BY SlotGens, Zenon DEF Order, Knows, Types, MasterTypes
<1>1. rec'.st = "Committed" /\ rec'.item.why = "master" => Past(rec.item.gen)'
  <2>1. CASE rec' = rec /\ rec.st = "Committed" /\ rec.item.why = "master"
    <3>1. rec # NoRec
      BY <2>1 DEF NoRec
    <3>2. PICK g \in Gens : g = rec.item.gen /\ g <= nextGen /\ Past(g)
      BY <2>1, <3>1, SlotGens, Zenon DEF PastGens, Known
    <3>3. Past(g)'
      BY <3>2, PastStays, Zenon
    <3>4. QED
      BY <2>1, <3>2, <3>3, Zenon
  <2>2. QED
    BY <2>1, RecordSteps, Zenon
<1>2. job'.pc = "finish" => Past(job.item.gen)'
  <2>1. CASE job.pc = "finish" /\ job'.item = job.item
    <3>1. job # NoJob
      BY <2>1 DEF NoJob
    <3>2. job.item.gen \in Gens /\ job.item.gen <= nextGen
      BY <1>0, <3>1, NamedGens, OlderGens, Zenon DEF Older, Written
    <3>3. PICK g \in Gens : g = job.item.gen /\ g <= nextGen /\ Past(g)
      BY <2>1, <3>2, Zenon DEF PastGens
    <3>4. Past(g)'
      BY <3>3, PastStays, Zenon
    <3>5. QED
      BY <2>1, <3>3, <3>4, Zenon
  <2>2. CASE job'.item = rec'.item /\ rec'.st = "Committed" /\ rec'.item.why = "master"
    <3>1. PICK g : g = rec'.item.gen
      BY Zenon
    <3>2. Past(g)'
      BY <1>1, <2>2, <3>1, Zenon
    <3>3. QED
      BY <2>2, <3>1, <3>2, Zenon
  <2>3. QED
    BY <2>1, <2>2, FinishSteps, Zenon
<1>3. (route'.gen # 0 /\ ~route'.own => Past(route.gen)') /\ (route'.indexed => route'.own)
  <2>1. CASE UNCHANGED route
    <3>1. CASE route.gen # 0 /\ ~route.own
      <4>1. route.gen \in Gens /\ route.gen <= nextGen
        <5>1. route.gen \in Nat /\ route.gen <= nextGen /\ nextGen <= MaxGen
          BY <1>0, NamedGens, Zenon
        <5>2. QED
          BY <1>0, <3>1, <5>1, BoundAssumption DEF Gens
      <4>2. PICK g \in Gens : g = route.gen /\ g <= nextGen /\ Past(g)
        BY <3>1, <4>1, Zenon DEF PastGens
      <4>3. Past(g)'
        BY <4>2, PastStays, Zenon
      <4>4. QED
        BY <2>1, <4>2, <4>3, Zenon DEF PastGens
    <3>2. QED
      BY <2>1, <3>1, Zenon DEF PastGens
  <2>2. CASE route' = [gen |-> lput.gen, own |-> TRUE, indexed |-> TRUE]
    BY <2>2, Zenon
  <2>3. CASE /\ ~route'.own /\ ~route'.indexed /\ route'.gen \in {0, nextGen + 1}
             /\ route'.gen # 0 => nextGen' = nextGen + 1
             /\ UNCHANGED <<slot, lput>>
    <3>1. CASE route'.gen = 0
      BY <2>3, <3>1, Zenon
    <3>2. CASE route'.gen = nextGen + 1 /\ nextGen' = nextGen + 1
      <4>1. nextGen + 1 \in Gens /\ nextGen + 1 > nextGen
        BY <1>0, <3>2, BoundAssumption DEF Order, Knows, MasterKnows, Gens
      <4>2. PICK g \in Gens : g = nextGen + 1 /\ g > nextGen
        BY <4>1, Zenon
      <4>3. slot[g].st = "free"
        BY <4>2, Zenon DEF SlotInv, SlotsHeld
      <4>4. lput.gen # g
        <5>1. lput.gen # 0 => lput.gen <= nextGen /\ lput.gen \in Gens
          BY SlotGens, Zenon DEF Known
        <5>2. QED
          BY <1>0, <4>2, <5>1, BoundAssumption DEF Gens
      <4>5. Past(g)'
        BY <2>3, <4>3, <4>4, Zenon DEF Past, SourceReadable
      <4>6. QED
        BY <2>3, <3>2, <4>2, <4>5, Zenon
    <3>3. QED
      BY <2>3, <3>1, <3>2, Zenon
  <2>4. CASE route.own /\ route' \in {[route EXCEPT !.indexed = TRUE], [route EXCEPT !.indexed = FALSE]}
    <3>1. route'.own
      BY <1>0, <2>4, Zenon
    <3>2. QED
      BY <3>1, Zenon
  <2>5. CASE route' = NoRoute
    BY <2>5, Zenon DEF NoRoute
  <2>6. QED
    BY <1>0, <2>1, <2>2, <2>3, <2>4, <2>5, RouteSteps, Zenon DEF Rerouted
<1>4. QED
  BY <1>1, <1>2, <1>3, Zenon DEF PastGens

\* The put on its way keeps its route until the owner is told.
LEMMA StepPut ==
  ASSUME Order, SlotInv, SlotSource, ScopeArc, PastGens, PutTold, [Next]_vars
  PROVE  PutTold'
<1>0. Knows /\ nextGen \in Nat /\ lput \in Puts /\ NoPut.pc = "idle" /\ NoPut.gen = 0
  BY SlotGens, Zenon DEF Order, Knows, Types, OwnerTypes, NoPut
<1>1. CASE OwnerPutStart
  <2>1. lput'.gen = nextGen + 1 /\ lput'.pc = "precommit" /\ UNCHANGED <<hand, evict>>
    BY <1>1, Zenon DEF OwnerPutStart, evictVars
  <2>2. \A g : Older(g) \/ g = 0 => g # nextGen + 1
    BY <1>0 DEF Older, Written
  <2>3. evict.gen # nextGen + 1
    <3>1. evict = NoEvict \/ Older(evict.gen)
      BY <1>0, NamedGens, Zenon
    <3>2. QED
      BY <2>2, <3>1 DEF NoEvict
  <2>4. \A o \in 1..MaxOp : hand[o].pc # "none" => hand[o].gen # nextGen + 1
    <3>1. \A o \in 1..MaxOp : hand[o].pc # "none" => Older(hand[o].gen)
      BY <1>0, GenTypes, Zenon DEF Knows, MasterKnows, Older
    <3>2. QED
      BY <2>2, <3>1, Zenon
  <2>5. QED
    BY <2>1, <2>3, <2>4, Zenon DEF PutTold
<1>2. CASE OwnerPutCommit
  <2>1. /\ lput'.gen = lput.gen /\ lput # NoPut /\ UNCHANGED <<hand, evict>>
        /\ route'.gen = lput.gen /\ route'.own /\ route'.indexed
    BY <1>0, <1>2, Zenon DEF OwnerPutCommit, evictVars, Puts
  <2>2. QED
    BY <2>1, Zenon DEF PutTold, Named
<1>3. CASE lput' = NoPut
  BY <1>0, <1>3, Zenon DEF PutTold
<1>4. CASE ~Naming /\ lput' = lput /\ lput # NoPut
  <2>0. lput.gen \in Gens /\ lput.gen # 0
    <3>1. Older(lput.gen)
      BY <1>0, <1>4, NamedGens, Zenon
    <3>2. QED
      BY <1>0, <3>1, OlderGens, SlotGens, Zenon
  <2>1. ~EvictSelect /\ evict'.gen \in {evict.gen, 0}
    <3>1. ~EvictSelect
      BY <1>4, Zenon DEF EvictSelect
    <3>2. NoEvict.gen = 0
      BY Zenon DEF NoEvict
    <3>3. QED
      BY <1>0, <3>1, <3>2, WorkerSteps, Zenon DEF Worked
  <2>2. \A o \in 1..MaxOp : hand'[o].pc # "none" => hand'[o].gen # lput.gen
    BY <1>0, <1>4, HandSteps, Zenon DEF PutTold
  <2>3. CASE lput.pc = "routed"
    <3>1. PICK g \in Gens : g = lput.gen
      BY <2>0, Zenon
    <3>2. Told(g) => Told(g)'
      BY <3>1, ToldStays, Zenon
    <3>3. ASSUME Named(g) /\ route.indexed PROVE Told(g)' \/ (Named(g)' /\ route'.indexed)
      <4>1. ~Past(g)
        BY <3>1, Zenon DEF Past
      <4>2. \A o \in 1..MaxOp : ~(hand[o].pc = "ready" /\ hand[o].gen = g)
        BY <1>4, <3>1, Zenon DEF PutTold
      <4>3. \/ Told(g)'
            \/ Named(g)' /\ route'.indexed = route.indexed
            \/ Named(g)' /\ route'.indexed /\ lget.pc = "hidden" /\ lget.gen = g
            \/ \E o \in 1..MaxOp :
                 /\ hand[o].pc = "ready" /\ hand[o].gen = g /\ hand'[o].pc = "done"
                 /\ (Named(g)' /\ ~route'.indexed) \/ (Asking /\ evict.gen = g /\ Asking' /\ evict'.gen = g)
        BY <1>0, <3>3, <4>1, NameKept, Zenon
      <4>4. QED
        BY <3>3, <4>2, <4>3, Zenon
    <3>4. Told(g)' \/ (Named(g)' /\ route'.indexed)
      BY <2>3, <3>1, <3>2, <3>3, Zenon DEF PutTold
    <3>5. QED
      BY <1>4, <2>0, <2>1, <2>2, <3>1, <3>4, Zenon DEF PutTold
  <2>4. QED
    BY <1>4, <2>0, <2>1, <2>2, <2>3, Zenon DEF PutTold
<1>5. QED
  BY <1>0, <1>1, <1>2, <1>3, <1>4, RouteMoves, Zenon DEF Naming

\* What a ready handler has found stays so until the owner is told.
LEMMA StepReady ==
  ASSUME Order, SlotInv, SlotSource, ScopeArc, PastGens, PutTold, ReadyNamed, [Next]_vars
  PROVE  ReadyNamed'
<1>0. Knows
  BY Zenon DEF Order
<1>1. SUFFICES ASSUME NEW o \in 1..MaxOp, hand'[o].pc = "ready", SourceReadable(slot'[hand'[o].gen])
               PROVE  (Named(hand[o].gen) /\ route.indexed)' \/ Told(hand[o].gen)'
  BY Zenon DEF ReadyNamed
<1>2. hand'[o].gen = hand[o].gen /\ hand[o].pc # "none"
      /\ (hand[o].pc = "ready" \/ (EvictPlan(hand[o].gen) = "Ready" /\ UNCHANGED route))
  BY <1>0, <1>1, HandSteps, Zenon
<1>3. PICK g \in Gens : g = hand[o].gen /\ g # 0
  <2>1. Older(hand[o].gen)
    BY <1>0, <1>2, GenTypes, Zenon DEF Knows, MasterKnows, Older
  <2>2. QED
    BY <1>0, <2>1, OlderGens, SlotGens, Zenon
<1>4. SourceReadable(slot[g])
  BY <1>1, <1>2, <1>3, WasReadable, Zenon DEF PutTold
<1>5. (Named(g)' /\ route'.indexed) \/ Told(g)'
  <2>1. CASE hand[o].pc = "ready"
    <3>1. CASE Told(g)
      BY <1>1, <1>2, <1>3, <3>1, ToldStays, Zenon
    <3>2. CASE Named(g) /\ route.indexed
      <4>1. ~Past(g)
        BY <1>4, Zenon DEF Past
      <4>2. \A q \in 1..MaxOp : hand[q].pc = "ready" => q = o
        <5>1. \A q \in 1..MaxOp : hand[q].pc = "ready" => fence = EvictItem(hand[q].gen, q)
          BY <1>0, Zenon DEF Knows, ProtocolInv, FenceOwner
        <5>2. ASSUME NEW q \in 1..MaxOp, hand[q].pc = "ready" PROVE fence.epoch = q
          <6>1. EvictItem(hand[q].gen, q).epoch = q
            BY OwnerItem, Zenon
          <6>2. QED
            BY <5>1, <5>2, <6>1, Zenon
        <5>3. QED
          BY <2>1, <5>2, Zenon
      <4>3. QED
        BY <1>0, <1>1, <3>2, <4>1, <4>2, NameKept, Zenon
    <3>3. QED
      BY <1>3, <1>4, <2>1, <3>1, <3>2, Zenon DEF ReadyNamed
  <2>2. CASE EvictPlan(hand[o].gen) = "Ready" /\ UNCHANGED route
    <3>1. route.gen = g /\ route.indexed
      BY <1>3, <2>2, Zenon DEF EvictPlan
    <3>2. QED
      BY <2>2, <3>1, Zenon DEF PastGens, Named
  <2>3. QED
    BY <1>2, <2>1, <2>2, Zenon
<1>6. QED
  BY <1>2, <1>3, <1>5, Zenon

\* A demotion that was answered is one the master still knows, or the owner is told.
LEMMA StepDemoted ==
  ASSUME Order, SlotInv, SlotSource, ScopeArc, PastGens, PutTold, ReadyNamed, DemotedNamed, [Next]_vars
  PROVE  DemotedNamed'
<1>0. Knows /\ Worked /\ NoEvict.pc = "idle" /\ route \in [gen : Nat, own : BOOLEAN, indexed : BOOLEAN]
  BY WorkerSteps, Zenon DEF Order, Knows, Types, MasterTypes, NoEvict
<1>1. SUFFICES ASSUME evict'.pc \in {"answered", "commit", "release"}, evict'.out = "DemotedGlobal",
                      SourceReadable(slot'[evict'.gen])
               PROVE  (Named(evict.gen) /\ ~route.indexed)' \/ Told(evict.gen)'
  BY Zenon DEF DemotedNamed
<1>2. evict'.gen = evict.gen /\ evict.pc \in {"wait", "answered", "commit", "release"}
  BY <1>0, <1>1, Zenon DEF Worked, Asking
<1>3. PICK g \in Gens : g = evict.gen
  BY <1>2, SlotGens, Zenon DEF Known
<1>4. SourceReadable(slot[g]) /\ ~Past(g)
  BY <1>1, <1>2, <1>3, WasReadable, Zenon DEF PutTold, Past
<1>5. Told(g) => Told(g)'
  BY <1>1, <1>2, <1>3, ToldStays, Zenon
<1>6. (Named(g)' /\ ~route'.indexed) \/ Told(g)'
  <2>1. CASE evict.pc \in {"answered", "commit", "release"} /\ evict.out = "DemotedGlobal"
    <3>1. (Named(g) /\ ~route.indexed) \/ Told(g)
      BY <1>3, <1>4, <2>1, Zenon DEF DemotedNamed
    <3>2. ASSUME Named(g) /\ ~route.indexed PROVE (Named(g)' /\ ~route'.indexed) \/ Told(g)'
      <4>1. ~(lget.pc = "hidden" /\ lget.gen = g)
        <5>1. slot[g].scope = "LocalExclusive"
          BY <1>3, <1>4, <2>1, Zenon DEF ScopeArc
        <5>2. IndexArc(g)
          BY <1>4, <5>1, Zenon DEF ScopeArc
        <5>3. QED
          BY <5>2, Zenon DEF IndexArc, SlotInv, ArcsApart, HiddenGet
      <4>2. ASSUME NEW o \in 1..MaxOp, hand[o].pc = "ready", hand[o].gen = g
            PROVE  Told(g)
        BY <1>4, <3>2, <4>2, Zenon DEF ReadyNamed
      <4>3. \/ Told(g)'
            \/ Named(g)' /\ route'.indexed = route.indexed
            \/ Named(g)' /\ route'.indexed /\ lget.pc = "hidden" /\ lget.gen = g
            \/ \E o \in 1..MaxOp :
                 /\ hand[o].pc = "ready" /\ hand[o].gen = g /\ hand'[o].pc = "done"
                 /\ (Named(g)' /\ ~route'.indexed) \/ (Asking /\ evict.gen = g /\ Asking' /\ evict'.gen = g)
        BY <1>0, <1>4, <3>2, NameKept, Zenon
      <4>4. QED
        BY <1>5, <3>2, <4>1, <4>2, <4>3, Zenon
    <3>3. QED
      BY <1>5, <3>1, <3>2, Zenon
  <2>2. CASE /\ evict.pc = "wait" /\ evict'.pc = "answered" /\ op \in 1..MaxOp
             /\ EvictPlan(hand[op].gen) = "DemotedGlobal" /\ UNCHANGED route
    <3>1. hand[op].gen = g
      BY <1>3, <2>2, Zenon DEF Order, GoneBefore
    <3>2. route.gen = g /\ ~route.indexed /\ route.gen # 0
      BY <1>3, <2>2, <3>1, SlotGens, Zenon DEF EvictPlan
    <3>3. route.own
      BY <1>4, <3>2, Zenon DEF PastGens
    <3>4. QED
      BY <2>2, <3>2, <3>3, Zenon DEF Named
  <2>3. CASE evict.pc = "wait" /\ op \in 1..MaxOp /\ EvictApply(op, "DemotedGlobal")
    <3>1. hand[op].gen = g /\ hand[op].pc = "ready"
      BY <1>3, <2>3, Zenon DEF Order, GoneBefore, EvictApply
    <3>2. (Named(g) /\ route.indexed) \/ Told(g)
      BY <1>4, <2>3, <3>1, Zenon DEF ReadyNamed
    <3>3. ASSUME Named(g) PROVE Named(g)' /\ ~route'.indexed
      <4>1. route' = [route EXCEPT !.indexed = FALSE]
        BY <2>3, <3>1, <3>3, Zenon DEF EvictApply, Named
      <4>2. QED
        BY <1>0, <3>3, <4>1, Zenon DEF Named
    <3>4. QED
      BY <1>5, <3>2, <3>3, Zenon
  <2>4. QED
    BY <1>0, <1>1, <1>2, <2>1, <2>2, <2>3, Zenon DEF Worked, Asking
<1>7. QED
  BY <1>2, <1>3, <1>6, Zenon

\* Every readable slot is accounted for.
LEMMA StepAccounted ==
  ASSUME Order, SlotInv, SlotSource, ToldInv, [Next]_vars, Order'
  PROVE  Accounted'
<1>0. Knows /\ LocalInv /\ Worked /\ ScopeArc /\ PastGens /\ PutTold /\ DemotedNamed /\ Accounted /\ NoEvict.pc = "idle"
  BY WorkerSteps, Zenon DEF Order, ToldInv, NoEvict
<1>1. SUFFICES ASSUME NEW g \in Gens, SourceReadable(slot'[g])
               PROVE  Named(g)' \/ Told(g)' \/ EvictEnds(g)' \/ ReclaimEnds(g)'
  BY Zenon DEF Accounted
<1>2. Told(g) => Told(g)'
  BY <1>0, <1>1, ToldStays, Zenon
<1>3. CASE ~SourceReadable(slot[g])
  <2>1. g = lput.gen /\ lput.pc = "routed" /\ UNCHANGED <<route, bcast, untold>>
    BY <1>1, <1>3, WasReadable, Zenon
  <2>2. QED
    BY <1>0, <1>2, <2>1, Zenon DEF PutTold, Named
<1>4. CASE SourceReadable(slot[g]) /\ Named(g)
  <2>1. ~Past(g)
    BY <1>4, Zenon DEF Past
  <2>2. \/ Told(g)'
        \/ Named(g)' /\ route'.indexed = route.indexed
        \/ Named(g)' /\ route'.indexed /\ lget.pc = "hidden" /\ lget.gen = g
        \/ \E o \in 1..MaxOp :
             /\ hand[o].pc = "ready" /\ hand[o].gen = g /\ hand'[o].pc = "done"
             /\ (Named(g)' /\ ~route'.indexed) \/ (Asking /\ evict.gen = g /\ Asking' /\ evict'.gen = g)
    BY <1>0, <1>4, <2>1, NameKept, Zenon
  <2>3. QED
    BY <2>2, Zenon DEF EvictEnds
<1>5. CASE SourceReadable(slot[g]) /\ ~Named(g) /\ EvictEnds(g)
  <2>1. evict.gen = g /\ (Asking \/ (evict.pc \in {"commit", "release"} /\ evict.out = "Completed"))
    BY <1>5, Zenon DEF EvictEnds
  <2>2. CASE evict' = NoEvict
    <3>1. Asking /\ FinishSelection /\ UNCHANGED bcast
      BY <1>0, <2>1, <2>2, Zenon DEF Worked, Asking, EvictSelect
    <3>2. CASE OwnArc(g)
      <4>1. g \in bcast' \/ g \in untold'
        BY <1>5, <2>1, <3>1, <3>2, Zenon DEF FinishSelection, Named
      <4>2. QED
        BY <4>1, Zenon DEF Told
    <3>3. CASE ~OwnArc(g)
      <4>1. IndexArc(g)
        <5>1. slot[g].scope = "LocalExclusive"
          BY <1>0, <1>5, <2>1, <3>1, Zenon DEF ScopeArc, Asking
        <5>2. QED
          BY <1>0, <1>5, <5>1, Zenon DEF ScopeArc
      <4>2. rec.src = "index" /\ rec.item.gen = g /\ rec.st # "Prepared"
        BY <3>3, <4>1, Zenon DEF IndexArc, OwnArc, RecArc
      <4>3. rec.st = "Releasing" /\ rec # NoRec
        <5>1. rec.src # "none" /\ rec # NoRec
          BY <4>2 DEF NoRec
        <5>2. QED
          BY <1>0, <4>2, <5>1, Zenon DEF LocalInv, RecShape
      <4>4. rec.item.why = "master"
        <5>1. rec.item.why # "owner"
          BY <1>0, <3>1, Zenon DEF LocalInv, EvictRec, Asking
        <5>2. rec.item.why # "none" /\ rec.item \in Items
          BY <1>0, <4>3, GenTypes, Zenon DEF Knows, OwnerKnows
        <5>3. QED
          BY <5>1, <5>2, Zenon DEF Items
      <4>5. UNCHANGED rec
        BY <3>1, Zenon DEF FinishSelection
      <4>6. QED
        BY <4>2, <4>3, <4>4, <4>5, Zenon DEF ReclaimEnds
    <3>4. QED
      BY <3>2, <3>3, Zenon
  <2>3. CASE EvictAnswered /\ evict'.pc = "commit" /\ evict'.gen = evict.gen /\ evict'.out = evict.out
    <3>1. evict.out \in {"Completed", "DemotedGlobal"} /\ evict.pc = "answered" /\ UNCHANGED route
      BY <2>3, Zenon DEF Order, GoneBefore, EvictAnswered, masterVars
    <3>2. CASE evict.out = "Completed"
      BY <2>1, <2>3, <3>2, Zenon DEF EvictEnds
    <3>3. CASE evict.out = "DemotedGlobal"
      BY <1>0, <1>2, <1>5, <2>1, <3>1, <3>3, Zenon DEF DemotedNamed
    <3>4. QED
      BY <3>1, <3>2, <3>3, Zenon
  <2>4. CASE EvictRelease
    <3>1. evict.out = "Completed" /\ rec.item.gen = g /\ rec.src = "index"
      BY <2>1, <2>4, EvictReleases, Zenon DEF EvictRelease, Asking
    <3>2. slot \in [Gens -> Slot]
      BY Zenon DEF SlotInv, SlotsHeld
    <3>3. ReleaseBacking(FALSE)
      BY <2>4, <3>1, Zenon DEF EvictRelease
    <3>4. slot'[g] = ReleaseResident(slot[g])
      BY <3>1, <3>2, <3>3, Zenon DEF ReleaseBacking
    <3>5. QED
      BY <1>1, <3>2, <3>4, OperationScopes, Zenon
  <2>5. CASE evict'.gen = evict.gen /\ evict'.out = evict.out /\ evict'.pc = evict.pc
    BY <2>1, <2>5, Zenon DEF EvictEnds, Asking
  <2>6. CASE evict'.gen = evict.gen /\ evict'.pc \in {"send", "wait", "answered"}
    BY <2>1, <2>6, Zenon DEF EvictEnds, Asking
  <2>7. CASE evict'.gen = evict.gen /\ evict'.out = evict.out /\ evict.pc = "commit" /\ evict'.pc = "release"
    BY <2>1, <2>7, Zenon DEF EvictEnds, Asking
  <2>8. ~EvictSelect
    BY <1>0, <2>1, Zenon DEF EvictSelect, Asking
  <2>9. QED
    BY <1>0, <2>2, <2>3, <2>4, <2>5, <2>6, <2>7, <2>8, Zenon DEF Worked
<1>6. CASE ReclaimEnds(g)
  <2>1. CASE rec' = rec
    BY <1>6, <2>1, Zenon DEF ReclaimEnds
  <2>2. CASE rec'.item = rec.item /\ Past(rec.item.gen)'
    BY <1>1, <1>6, <2>2, Zenon DEF ReclaimEnds, Past
  <2>3. QED
    BY <1>6, <2>1, <2>2, RecordSteps, Zenon DEF ReclaimEnds
<1>7. QED
  BY <1>0, <1>2, <1>3, <1>4, <1>5, <1>6, Zenon DEF Accounted

-----------------------------------------------------------------------------
(* The theorem.                                                            *)

\* Nothing is routed, fenced or evicted at first.
LEMMA InitTold == Init => ToldInv
<1> SUFFICES ASSUME Init PROVE ToldInv
  BY Zenon
<1>1. /\ rec.st = "none" /\ job.pc = "idle" /\ route.gen = 0 /\ ~route.indexed /\ lput = NoPut /\ lput.pc = "idle"
      /\ evict.pc = "idle"
  BY Zenon DEF Init, NoRec, NoJob, NoRoute, NoPut, NoEvict
<1>2. \A g \in Gens : ~SourceReadable(slot[g])
  BY SlotFields, Zenon DEF Init, SourceReadable
<1>3. \A o \in 1..MaxOp : hand[o].pc = "none"
  BY Zenon DEF Init
<1>4. ScopeArc /\ PastGens /\ PutTold
  BY <1>1, <1>2, Zenon DEF ScopeArc, PastGens, PutTold
<1>5. ReadyNamed /\ DemotedNamed /\ Accounted
  BY <1>1, <1>2, <1>3, Zenon DEF ReadyNamed, DemotedNamed, Accounted
<1>6. QED
  BY <1>4, <1>5, Zenon DEF ToldInv

\* A slot that the master no longer routes to, that no broadcast, eviction or
\* reclaim is about to give back, is one the owner was not told of: its delete
\* broadcast was lost, skipped behind the owner's fence or too early for its put,
\* or the eviction that lost it its route had given up.
THEOREM AbandonedIsUntold == Spec => []AbandonedOnlyIfUntold
<1>1. Init => SlotsInv /\ ToldInv
  BY InitSlots, InitTold, Zenon
<1>2. SlotsInv /\ ToldInv /\ [Next]_vars => (SlotsInv /\ ToldInv)'
  <2> SUFFICES ASSUME SlotsInv, ToldInv, [Next]_vars PROVE SlotsInv' /\ ToldInv'
    BY Zenon
  <2>1. SlotsInv'
    BY StepSlotsInv, Zenon
  <2>2. Order /\ SlotInv /\ SlotSource /\ Order'
    BY <2>1, Zenon DEF SlotsInv, SourceInv
  <2>3. ScopeArc /\ PastGens /\ PutTold /\ ReadyNamed /\ DemotedNamed
    BY Zenon DEF ToldInv
  <2>4. ScopeArc' /\ PastGens' /\ PutTold'
    BY <2>2, <2>3, StepScope, StepPast, StepPut, Zenon
  <2>5. ReadyNamed' /\ DemotedNamed' /\ Accounted'
    BY <2>2, <2>3, StepReady, StepDemoted, StepAccounted, Zenon
  <2>6. QED
    BY <2>1, <2>4, <2>5, Zenon DEF ToldInv
<1>3. ToldInv => AbandonedOnlyIfUntold
  <2> SUFFICES ASSUME ToldInv, NEW g \in Gens, Abandoned(g) PROVE g \in untold
    BY Zenon DEF AbandonedOnlyIfUntold
  <2>1. SourceReadable(slot[g]) /\ ~Named(g) /\ g \notin bcast /\ evict.gen # g /\ rec.item.gen # g
    BY Zenon DEF Abandoned, SourceReadable, Named
  <2>2. QED
    BY <2>1, Zenon DEF ToldInv, Accounted, Told, EvictEnds, ReclaimEnds
<1>4. QED
  BY <1>1, <1>2, <1>3, PTL DEF Spec
===============================================================================
