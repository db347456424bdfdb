--------------------------- MODULE OwnerReclaimInv ----------------------------
(***************************************************************************)
(* The inductive invariants behind the properties of OwnerReclaim: the     *)
(* types, the exchange between the master and the owner, the owner's local *)
(* fence and the order of generations (Order); the references of a slot and*)
(* the slots behind the master's items (SlotsInv); and what the owner has  *)
(* been told of (ToldInv).                                                 *)
(***************************************************************************)
EXTENDS OwnerReclaim

Items    == [gen : Nat, epoch : Nat, why : {"none", "master", "owner"}]
Phases   == {"prepare", "commit", "abort", "finalize"}
Requests == [ph : Phases, item : Items, try : Nat]
Answers  == {"Prepared", "Committed", "Aborted", "Finalized", "Stale", "Busy"}
JobPcs   == Phases \cup {"idle", "planned", "prepared", "toabort", "finish", "tofinalize",
                         "clear", "stuck"}
Jobs     == [pc : JobPcs, item : Items, try : Nat]
Handlers == [pc : {"none", "sent", "fenced", "ready", "done"}, gen : Nat, resv : BOOLEAN]
Outcomes == {"none", "Completed", "Stale", "DemotedGlobal", "Busy", "NeedsGlobalReservation"}
Evicts   == [pc : {"idle", "send", "wait", "answered", "commit", "release", "finalize"},
             gen : Nat, out : Outcomes, debt : BOOLEAN]
Records  == [st : {"none", "Prepared", "Releasing", "Committed"}, item : Items,
             src : {"none", "index", "slot"}]
Probes   == [req : Requests, seen : {"no", "routeOnly", "changed"}]
Puts     == [pc : {"idle", "precommit", "routed"}, gen : Nat]
Gets     == [pc : {"idle", "planned", "hidden", "accepted", "rejected"}, gen : Nat,
             ext : BOOLEAN, guard : BOOLEAN, act : BOOLEAN]

\* The types of the variables the argument is about.
MasterTypes ==
  /\ nextGen \in Nat /\ epoch \in Nat /\ fence \in Items
  /\ route \in [gen : Nat, own : BOOLEAN, indexed : BOOLEAN]
  /\ job \in Jobs
  /\ hand \in [1..MaxOp -> Handlers]

OwnerTypes ==
  /\ idx \in Nat /\ sel \in Nat /\ pend \in Nat /\ op \in Nat
  /\ net \subseteq Requests
  /\ probes \subseteq Probes
  /\ rec \in Records
  /\ lput \in Puts
  /\ lget \in Gets
  /\ evict \in Evicts

Types == MasterTypes /\ OwnerTypes

-----------------------------------------------------------------------------
(* The exchange between the master and the owner.                          *)

Active == job.pc \notin {"idle", "planned"}

\* The master's fence is the running job's item; eviction handlers own the rest.
FenceOwner ==
  /\ job.pc # "idle" => job.item.why = "master" /\ job.item.epoch = epoch
  /\ Active => fence = job.item
  /\ ~Active => fence.why # "master"
  /\ \A o \in 1..MaxOp : hand[o].pc \in {"fenced", "ready"} => fence = EvictItem(hand[o].gen, o)

\* Requests carry the items of jobs that have started to send.
NetItems ==
  /\ \A m \in net : m.item.why = "master" /\ m.item.epoch <= epoch
  /\ \A p \in probes : p.req.item.why = "master" /\ p.req.item.epoch <= epoch
  /\ job.pc = "planned" => /\ \A m \in net : m.item.epoch < epoch
                           /\ \A p \in probes : p.req.item.epoch < epoch
  /\ rec.item.why = "master" => /\ rec.item.epoch <= epoch
                                /\ job.pc = "planned" => rec.item.epoch < epoch

\* A Prepare still to be answered is the first the owner hears of its item.
Preparing == {m \in net : m.ph = "prepare"} \cup {p.req : p \in probes}

PrepareFirst ==
  /\ \A q \in Preparing :
       /\ rec.item # q.item
       /\ \A m \in net : m.ph = "commit" => m.item # q.item
       /\ q.item = job.item => job.pc \notin {"prepared", "commit", "finish", "finalize", "tofinalize"}
  /\ \A m, n \in net : m.ph = "prepare" /\ n.ph = "prepare" /\ m.item = n.item => m = n
  /\ \A p, q \in probes : p.req.item = q.req.item => p = q
  /\ \A m \in net, p \in probes : m.ph = "prepare" => m.item # p.req.item

\* A Commit still to be handled meets its own record only under its own fence.
CommitLast ==
  \A m \in net : m.ph = "commit" =>
    /\ rec.item = m.item => fence = m.item /\ job.pc # "clear"
    /\ m.item = job.item => job.pc \notin {"planned", "prepare", "prepared"}

\* A record of the master's beyond Prepared holds the fence until it is finalized.
ReleaseHeld ==
  rec.st \in {"Releasing", "Committed"} /\ rec.item.why = "master" =>
    fence = rec.item /\ job.pc # "clear"

\* The owner's own reclaim is the record while it runs, and no selection and
\* record coexist.
LocalReclaim ==
  /\ rec = NoRec \/ rec.st \in {"Prepared", "Releasing", "Committed"}
  /\ evict.pc = "commit"   => rec.st = "Prepared" /\ rec.item.why = "owner"
  /\ evict.pc = "release"  => rec.st = "Releasing" /\ rec.item.why = "owner"
  /\ evict.pc = "finalize" => rec.st = "Committed" /\ rec.item.why = "owner"
  /\ sel # 0 => rec = NoRec

ProtocolInv ==
  /\ FenceOwner /\ NetItems /\ PrepareFirst /\ CommitLast /\ ReleaseHeld /\ LocalReclaim

-----------------------------------------------------------------------------
(* The counts.                                                             *)

RGets == [pc : {"idle", "planned", "leased"}, gen : Nat, act : BOOLEAN]

CountTypes ==
  /\ rget \in RGets /\ gets \in Nat /\ failed \in BOOLEAN
  /\ readers \in [Gens -> Nat]

-----------------------------------------------------------------------------
(* What is named has been written.                                         *)

\* g is a generation that has been written.
Written(g) == 1 <= g /\ g <= nextGen

MasterKnows ==
  /\ nextGen <= MaxGen /\ epoch <= MaxEpoch
  /\ route.gen <= nextGen /\ (route.own => route.gen # 0)
  /\ fence = NoItem \/ (Written(fence.gen) /\ fence.why # "none")
  /\ job = NoJob \/ (job.pc # "idle" /\ Written(job.item.gen))
  /\ \A o \in 1..MaxOp : hand[o].pc # "none" => Written(hand[o].gen)
  /\ \A m \in net : Written(m.item.gen)
  /\ \A p \in probes : Written(p.req.item.gen)
  /\ \A g \in bcast \cup untold \cup regressed : g \in Nat /\ Written(g)

OwnerKnows ==
  /\ op <= MaxOp /\ idx <= nextGen /\ sel <= nextGen /\ pend <= nextGen
  /\ lput = NoPut \/ (lput.pc # "idle" /\ Written(lput.gen))
  /\ lget = NoLGet \/ (lget.pc # "idle" /\ Written(lget.gen))
  /\ rget = NoRGet \/ (rget.pc # "idle" /\ Written(rget.gen))
  /\ evict = NoEvict \/ (evict.pc # "idle" /\ Written(evict.gen))
  /\ rec = NoRec \/ (Written(rec.item.gen) /\ rec.item.why # "none")

\* The key's activity counts the gets that hold it, and a fence waits for none.
GetCount ==
  /\ gets = Acts(rget) + Acts(lget)
  /\ rget.act => rget.pc # "idle"
  /\ lget.act => lget.pc \in {"planned", "hidden"}
  /\ fence # NoItem => gets = 0

Knows == Types /\ ProtocolInv /\ CountTypes /\ MasterKnows /\ OwnerKnows

-----------------------------------------------------------------------------
(* The owner's local fence.                                                *)

LocalFence ==
  /\ Fenced => idx = 0 /\ pend = 0 /\ lput = NoPut
  /\ sel # 0 => evict.gen = sel /\ evict.pc \in {"send", "wait", "answered"} /\ readers[sel] = 0

\* An eviction's own reclaim carries its item from the local Prepare to Finalize.
EvictRec ==
  /\ evict.pc \in {"commit", "release", "finalize"} => rec.item = EvictItem(evict.gen, op)
  /\ rec.item.why = "owner" => evict.pc \in {"commit", "release", "finalize"}

\* Where a record's memory comes from.
RecShape ==
  /\ rec.st \in {"Prepared", "Releasing"} <=> rec.src # "none"
  /\ rec.src = "slot" => rec.item.why = "master"

LocalInv == LocalFence /\ EvictRec /\ RecShape

-----------------------------------------------------------------------------
(* The order of generations.                                               *)

\* The master's route, a put before its commit, and what is older than them.
RouteOrder ==
  /\ route.own /\ lput.pc = "precommit" => route.gen < lput.gen
  /\ route.own /\ lput.pc = "routed" => route.gen = lput.gen
  /\ \A g \in bcast : /\ route.own => g < route.gen
                      /\ lput.pc = "precommit" => g < lput.gen
  /\ lget.pc # "idle" /\ route.own => lget.gen <= route.gen
  /\ lput.pc = "precommit" => lget.gen < lput.gen /\ job.item.gen < lput.gen
                                 /\ evict.gen < lput.gen

\* The master will not name g again.
Gone(g) == ~(route.own /\ route.gen = g) /\ (lput.pc = "precommit" => lput.gen # g)

\* A Finalize goes out, and an eviction completes, once the route is gone.
GoneBefore ==
  /\ \A m \in net : m.ph = "finalize" => Gone(m.item.gen)
  /\ job.pc \in {"finalize", "tofinalize"} => Gone(job.item.gen)
  /\ evict.pc = "wait" => hand[op].gen = evict.gen
  /\ evict.pc \in {"answered", "commit", "release"} /\ evict.out = "Completed" => Gone(evict.gen)
  /\ evict.pc \in {"commit", "release"} => evict.out \in {"Completed", "DemotedGlobal"}

Order == Knows /\ GetCount /\ LocalInv /\ RouteOrder /\ GoneBefore

-----------------------------------------------------------------------------
(* The references of a slot.                                               *)

HiddenGet == lget.pc \in {"hidden", "accepted", "rejected"}

\* A record that took over the index's Arc of generation g.
RecArc(g) == rec.src = "index" /\ rec.item.gen = g

\* One of the owner's own Arcs of g's MemoryInfo is alive.
Arc(g) == idx = g \/ sel = g \/ lput.gen = g \/ (HiddenGet /\ lget.gen = g) \/ RecArc(g)

\* No generation has two of them, apart from readers.
ArcsApart ==
  /\ HiddenGet => lget.gen \notin {idx, sel, lput.gen} /\ ~RecArc(lget.gen)
  /\ idx # 0 => idx # lput.gen

\* The reference counts that the state of readers, gets and records calls for.
HolderCount(g) == IF Arc(g) \/ readers[g] > 0 THEN 1 ELSE 0
Leased(g)      == rget.pc = "leased" /\ rget.gen = g
LeaseCount(g)  == IF Leased(g) THEN 1 ELSE 0

\* Slot s has h holders and l leases, and is free exactly when nothing refers to it.
Held(s, h, l) ==
  /\ s \in Slot /\ s.holders = h /\ s.leases = l /\ s.st # "prepared"
  /\ s.st = "free" => s = FreeSlot
  /\ s.st # "free" => ~Unreferenced(s)
  /\ s.st = "pending" => ~s.route /\ s.leases = 0

SlotsHeld ==
  /\ slot \in [Gens -> Slot]
  /\ \A g \in Gens : /\ Held(slot[g], HolderCount(g), LeaseCount(g))
                     /\ slot[g].st = "pending" <=> lput.gen = g
                     /\ lput.gen = g \/ g > nextGen => readers[g] = 0
                     /\ g > nextGen => slot[g].st = "free"

\* The memory that the index, a selection, a hidden get or a record stands for
\* has its route reference.
RoutedArcs ==
  /\ idx # 0 => SourceReadable(slot[idx])
  /\ sel # 0 => SourceReadable(slot[sel])
  /\ rec.src = "index" => SourceReadable(slot[rec.item.gen]) /\ readers[rec.item.gen] = 0
  /\ pend # 0 => /\ SourceReadable(slot[pend]) /\ slot[pend].scope = "GlobalShared"
                 /\ HiddenGet /\ lget.gen = pend

\* An eviction that was told to demote can still do so.
DemotionHolds ==
  evict.pc \in {"commit", "release"} /\ evict.out = "DemotedGlobal" => DemotionValid(slot[evict.gen])

SlotInv == ArcsApart /\ SlotsHeld /\ RoutedArcs /\ DemotionHolds

-----------------------------------------------------------------------------
(* The slots behind the master's items.                                    *)

\* Generation g is not about to enter the index.
OffIndex(g) ==
  /\ g \notin {idx, sel, lput.gen} /\ ~RecArc(g)
  /\ lget.pc = "accepted" => lget.gen # g

\* A probe that found its slot route-only is right for as long as it matters.
ProbeSource ==
  \A p \in probes : p.seen = "routeOnly" /\ p.req.item = fence =>
    /\ OffIndex(p.req.item.gen)
    /\ RouteValid(p.req.item) => SourceReadable(slot[p.req.item.gen])

\* So is a record made from it, once its Commit can be on the way.
Committing(i) == \/ rec.st = "Releasing" \/ RouteValid(i)
                 \/ \E m \in net : m.ph = "commit" /\ m.item = i

SlotSource ==
  rec.src = "slot" /\ rec.item = fence /\ Committing(rec.item) =>
    SourceReadable(slot[rec.item.gen])

\* A routed slot is readable, but for the time between Commit and Finalize.
RouteReadable ==
  route.own /\ lput.gen # route.gen /\ route.gen \notin regressed =>
    \/ SourceReadable(slot[route.gen])
    \/ rec.st = "Committed" /\ rec.item.why = "master" /\ rec.item.gen = route.gen

SourceInv == ProbeSource /\ SlotSource /\ RouteReadable

SlotsInv == Order /\ SlotInv /\ SourceInv /\ ~failed

-----------------------------------------------------------------------------
(* What the owner has been told of.                                        *)

\* The index, a selection or a record made from one of them stands for g.
IndexArc(g) == idx = g \/ sel = g \/ RecArc(g)

\* A readable slot is LocalExclusive as long as that is so, and as long as an
\* eviction of it is under way.
ScopeArc ==
  /\ \A g \in Gens : SourceReadable(slot[g]) =>
       slot[g].scope = IF IndexArc(g) THEN "LocalExclusive" ELSE "GlobalShared"
  /\ evict.pc \in {"send", "wait", "answered", "commit", "release"} /\ SourceReadable(slot[evict.gen]) =>
       slot[evict.gen].scope = "LocalExclusive"

\* The slot of g is not readable and will not be again.
Past(g) == ~SourceReadable(slot[g]) /\ lput.gen # g

PastGens ==
  /\ rec.st = "Committed" /\ rec.item.why = "master" => Past(rec.item.gen)
  /\ job.pc = "finish" => Past(job.item.gen)
  /\ route.gen # 0 /\ ~route.own => Past(route.gen)
  /\ route.indexed => route.own

Named(g) == route.own /\ route.gen = g
Told(g)  == g \in bcast \cup untold

\* The put on its way is the first the eviction protocol can hear of its
\* generation, and is routed until the owner is told otherwise.
PutTold ==
  /\ lput.pc = "routed" => (Named(lput.gen) /\ route.indexed) \/ Told(lput.gen)
  /\ lput # NoPut => /\ evict.gen # lput.gen
                     /\ \A o \in 1..MaxOp : hand[o].pc # "none" => hand[o].gen # lput.gen

\* What a handler found under its fence is still so, or the owner was told.
ReadyNamed ==
  \A o \in 1..MaxOp : hand[o].pc = "ready" /\ SourceReadable(slot[hand[o].gen]) =>
    (Named(hand[o].gen) /\ route.indexed) \/ Told(hand[o].gen)

\* So is a demotion that was answered.
DemotedNamed ==
  evict.pc \in {"answered", "commit", "release"} /\ evict.out = "DemotedGlobal"
    /\ SourceReadable(slot[evict.gen]) => (Named(evict.gen) /\ ~route.indexed) \/ Told(evict.gen)

\* An eviction or a reclaim that will give g's slot back, or find out that it has
\* lost its route.
Asking         == evict.pc \in {"send", "wait", "answered"}
EvictEnds(g)   == evict.gen = g /\ (Asking \/ (evict.pc \in {"commit", "release"} /\ evict.out = "Completed"))
ReclaimEnds(g) == rec.st = "Releasing" /\ rec.item.why = "master" /\ rec.item.gen = g

Accounted ==
  \A g \in Gens : SourceReadable(slot[g]) => Named(g) \/ Told(g) \/ EvictEnds(g) \/ ReclaimEnds(g)

ToldInv == ScopeArc /\ PastGens /\ PutTold /\ ReadyNamed /\ DemotedNamed /\ Accounted
===============================================================================
