-------------------------- MODULE OwnerReclaimSlots ---------------------------
(***************************************************************************)
(* Proof of SlotInv and SourceInv: the references of every slot are the    *)
(* ones that the index, the selection, the record, the gets and the readers*)
(* call for; what is routed is readable, and what a Prepare found is there *)
(* when its Commit comes.                                                  *)
(***************************************************************************)
EXTENDS OwnerReclaimProtocol

-----------------------------------------------------------------------------
(* The operations on a slot.                                               *)

\* A slot is what its fields say.
LEMMA SlotFields ==
  /\ FreeSlot \in Slot /\ FreeSlot.st = "free" /\ ~FreeSlot.route /\ FreeSlot.holders = 0
  /\ FreeSlot.leases = 0 /\ FreeSlot.resv = FALSE /\ FreeSlot.scope = "none"
BY Zenon DEF FreeSlot, Slot, SlotStates, Scopes

\* A slot with a reference is not free.
LEMMA HeldFree ==
  ASSUME NEW s, NEW h, NEW l, Held(s, h, l)
  PROVE  /\ h # 0 \/ l # 0 \/ s.route => s.st \in {"pending", "committed"}
         /\ s.st = "free" => h = 0 /\ l = 0 /\ ~s.route
         /\ s.st \in {"free", "pending", "committed"}
BY SlotFields, Zenon DEF Held, Slot, SlotStates

\* Freeing what nothing refers to.
LEMMA FreeHeld ==
  ASSUME NEW s \in Slot, s.st \in {"pending", "committed"}, s.st = "pending" => ~s.route /\ s.leases = 0
  PROVE  /\ Held(FreeIfUnreferenced(s), s.holders, s.leases)
         /\ s.route => FreeIfUnreferenced(s) = s
         /\ FreeIfUnreferenced(s).st \in {s.st, "free"}
         /\ FreeIfUnreferenced(s).route = s.route
         /\ FreeIfUnreferenced(s).st = "pending" => s.st = "pending" /\ s.holders # 0
<1>1. CASE Unreferenced(s)
  <2>1. FreeIfUnreferenced(s) = FreeSlot /\ ~s.route /\ s.holders = 0 /\ s.leases = 0
    BY <1>1, Zenon DEF FreeIfUnreferenced, Unreferenced
  <2>2. Held(FreeSlot, 0, 0)
    BY SlotFields, Zenon DEF Held
  <2>3. s.route = FALSE /\ FreeSlot.route = FALSE
    BY <2>1, SlotFields, Zenon DEF Slot
  <2>4. QED
    BY <2>1, <2>2, <2>3, SlotFields, Zenon, Zenon
<1>2. CASE ~Unreferenced(s)
  <2>1. FreeIfUnreferenced(s) = s
    BY <1>2, Zenon DEF FreeIfUnreferenced
  <2>2. Held(s, s.holders, s.leases)
    BY <1>2, Zenon DEF Held
  <2>3. s.st = "pending" => s.holders # 0
    BY <1>2, Zenon DEF Unreferenced
  <2>4. QED
    BY <2>1, <2>2, <2>3, Zenon
<1>3. QED
  BY <1>1, <1>2, Zenon

\* The last Arc's holder goes.
LEMMA HolderReleased ==
  ASSUME NEW s, NEW l, Held(s, 1, l)
  PROVE  /\ Held(ReleaseHolder(s), 0, l) /\ HolderReleasable(s)
         /\ ReleaseHolder(s).st # "pending"
         /\ ReleaseHolder(s).route = s.route
         /\ SourceReadable(s) => /\ SourceReadable(ReleaseHolder(s))
                                 /\ ReleaseHolder(s).scope = s.scope /\ ReleaseHolder(s).resv = s.resv
<1> DEFINE t == [s EXCEPT !.holders = @ - 1]
<1>1. s \in Slot /\ s.holders = 1 /\ s.leases = l /\ s.st \in {"pending", "committed"}
      /\ (s.st = "pending" => ~s.route /\ s.leases = 0)
  BY HeldFree DEF Held
<1>2. /\ t \in Slot /\ t.st = s.st /\ t.holders = 0 /\ t.leases = l /\ t.route = s.route
      /\ t.scope = s.scope /\ t.resv = s.resv
  BY <1>1 DEF Slot
<1>3. ReleaseHolder(s) = FreeIfUnreferenced(t)
  BY Zenon DEF ReleaseHolder
<1> HIDE DEF t
<1>4. QED
  BY <1>1, <1>2, <1>3, FreeHeld DEF SourceReadable, HolderReleasable

\* The route reference goes.
LEMMA RouteReleased ==
  ASSUME NEW s, NEW h, NEW l, Held(s, h, l), SourceReadable(s)
  PROVE  /\ Held(ReleaseRoute(s), h, l) /\ RouteReleasable(s)
         /\ ReleaseRoute(s).st # "pending"
<1> DEFINE t == [s EXCEPT !.route = FALSE]
<1>1. s \in Slot /\ s.holders = h /\ s.leases = l /\ s.st = "committed" /\ s.route
  BY Zenon DEF Held, SourceReadable
<1>2. t \in Slot /\ t.st = "committed" /\ t.holders = h /\ t.leases = l
  BY <1>1, Zenon DEF Slot
<1>3. ReleaseRoute(s) = FreeIfUnreferenced(t)
  BY Zenon DEF ReleaseRoute
<1> HIDE DEF t
<1>4. QED
  BY <1>1, <1>2, <1>3, FreeHeld DEF RouteReleasable

\* The scope and the reservation of a slot say nothing about its references.
LEMMA Relabelled ==
  ASSUME NEW s, NEW h, NEW l, Held(s, h, l)
  PROVE  /\ Held(DropReservation(s), h, l) /\ DropReservation(s).st = s.st
         /\ DropReservation(s).route = s.route /\ DropReservation(s).scope = s.scope
         /\ s.st = "committed" => /\ Held(ReserveDemotion(s), h, l) /\ ReserveDemotion(s).st = s.st
                                  /\ ReserveDemotion(s).route = s.route
                                  /\ ReserveDemotion(s).scope = s.scope /\ ReserveDemotion(s).resv = TRUE
         /\ s.st = "committed" => /\ Held(CommitDemotion(s), h, l) /\ CommitDemotion(s).st = s.st
                                  /\ CommitDemotion(s).route = s.route
         /\ s.st = "committed" => LET t == [s EXCEPT !.scope = "LocalExclusive"]
                                  IN  Held(t, h, l) /\ t.st = s.st /\ t.route = s.route
<1>1. s \in Slot /\ s.holders = h /\ s.leases = l /\ s.st # "prepared"
      /\ (s.st = "free" => s = FreeSlot) /\ (s.st # "free" => ~Unreferenced(s))
      /\ (s.st = "pending" => ~s.route /\ s.leases = 0)
  BY Zenon DEF Held
<1>2. ASSUME NEW t \in Slot, t.st = s.st, t.holders = h, t.leases = l, t.route = s.route, t = s \/ s.st # "free"
      PROVE  Held(t, h, l)
  BY <1>1, <1>2, Zenon DEF Held, Unreferenced
<1>3. Held(DropReservation(s), h, l) /\ DropReservation(s).st = s.st /\ DropReservation(s).route = s.route
      /\ DropReservation(s).scope = s.scope
  <2> DEFINE t == [s EXCEPT !.resv = FALSE]
  <2>1. /\ t \in Slot /\ t.st = s.st /\ t.holders = h /\ t.leases = l /\ t.route = s.route /\ t.scope = s.scope
    BY <1>1, Zenon DEF Slot
  <2>2. s = FreeSlot => t = s
    BY <1>1, SlotFields, Zenon DEF Slot
  <2>3. DropReservation(s) = t
    BY Zenon DEF DropReservation
  <2> HIDE DEF t
  <2>4. QED
    BY <1>1, <1>2, <2>1, <2>2, <2>3, Zenon
<1>4. ASSUME s.st = "committed"
      PROVE  /\ Held(ReserveDemotion(s), h, l) /\ ReserveDemotion(s).st = s.st
             /\ ReserveDemotion(s).route = s.route
             /\ ReserveDemotion(s).scope = s.scope /\ ReserveDemotion(s).resv = TRUE
  <2> DEFINE t == [s EXCEPT !.resv = TRUE]
  <2>1. /\ t \in Slot /\ t.st = s.st /\ t.holders = h /\ t.leases = l /\ t.route = s.route
        /\ t.scope = s.scope /\ t.resv = TRUE
    BY <1>1, Zenon DEF Slot
  <2>2. ReserveDemotion(s) = t
    BY Zenon DEF ReserveDemotion
  <2> HIDE DEF t
  <2>3. QED
    BY <1>2, <1>4, <2>1, <2>2, Zenon
<1>5. ASSUME s.st = "committed"
      PROVE  Held(CommitDemotion(s), h, l) /\ CommitDemotion(s).st = s.st /\ CommitDemotion(s).route = s.route
  <2> DEFINE t == [s EXCEPT !.scope = "GlobalShared", !.resv = FALSE]
  <2>1. t \in Slot /\ t.st = s.st /\ t.holders = h /\ t.leases = l /\ t.route = s.route
    BY <1>1, Zenon DEF Slot, Scopes
  <2>2. CommitDemotion(s) = t
    BY Zenon DEF CommitDemotion
  <2> HIDE DEF t
  <2>3. QED
    BY <1>2, <1>5, <2>1, <2>2, Zenon
<1>6. ASSUME s.st = "committed"
      PROVE  LET t == [s EXCEPT !.scope = "LocalExclusive"] IN Held(t, h, l) /\ t.st = s.st /\ t.route = s.route
  <2> DEFINE t == [s EXCEPT !.scope = "LocalExclusive"]
  <2>1. t \in Slot /\ t.st = s.st /\ t.holders = h /\ t.leases = l /\ t.route = s.route
    BY <1>1, Zenon DEF Slot, Scopes
  <2> HIDE DEF t
  <2>2. Held(t, h, l) /\ t.st = s.st /\ t.route = s.route
    BY <1>2, <1>6, <2>1, Zenon
  <2>3. QED
    BY <2>2, Zenon DEF t
<1>7. QED
  BY <1>3, <1>4, <1>5, <1>6, Zenon, Zenon

-----------------------------------------------------------------------------
(* One step and the slots.                                                 *)

\* A step that does not concern generation g's slot, and one that does.
Unmoved(g) ==
  /\ slot'[g] = slot[g] /\ (Arc(g)' <=> Arc(g)) /\ readers'[g] = readers[g]
  /\ (Leased(g)' <=> Leased(g)) /\ (lput'.gen = g <=> lput.gen = g)

Settled(g) ==
  /\ Held(slot'[g], HolderCount(g)', LeaseCount(g)')
  /\ slot'[g].st = "pending" <=> lput'.gen = g
  /\ lput'.gen = g => readers'[g] = 0
  /\ g <= nextGen'

LEMMA HeldStep ==
  ASSUME SlotsHeld, slot' \in [Gens -> Slot], nextGen \in Nat, nextGen' \in Nat, nextGen <= nextGen',
         \A g \in Gens : Unmoved(g) \/ Settled(g)
  PROVE  SlotsHeld'
<1>1. ASSUME NEW g \in Gens
      PROVE  /\ Held(slot'[g], HolderCount(g)', LeaseCount(g)')
             /\ slot'[g].st = "pending" <=> lput'.gen = g
             /\ lput'.gen = g \/ g > nextGen' => readers'[g] = 0
             /\ g > nextGen' => slot'[g].st = "free"
  <2>1. CASE Unmoved(g)
    <3>1. HolderCount(g)' = HolderCount(g) /\ LeaseCount(g)' = LeaseCount(g)
      BY <2>1, Zenon DEF Unmoved, HolderCount, LeaseCount
    <3>2. g > nextGen' => g > nextGen
      BY BoundAssumption DEF Gens
    <3>3. /\ Held(slot[g], HolderCount(g), LeaseCount(g)) /\ (slot[g].st = "pending" <=> lput.gen = g)
          /\ (lput.gen = g \/ g > nextGen => readers[g] = 0) /\ (g > nextGen => slot[g].st = "free")
      BY Zenon DEF SlotsHeld
    <3>4. slot'[g] = slot[g] /\ readers'[g] = readers[g] /\ (lput'.gen = g <=> lput.gen = g)
      BY <2>1, Zenon DEF Unmoved
    <3>5. QED
      BY <3>1, <3>2, <3>3, <3>4, Zenon
  <2>2. CASE Settled(g)
    <3>1. ~(g > nextGen')
      BY <2>2, BoundAssumption DEF Settled, Gens
    <3>2. QED
      BY <2>2, <3>1, Zenon DEF Settled
  <2>3. QED
    BY <2>1, <2>2, Zenon
<1>2. QED
  BY <1>1, Zenon DEF SlotsHeld

\* A step that moves no slot and no Arc.
LEMMA SlotFrame ==
  ASSUME SlotInv, nextGen \in Nat, nextGen' \in Nat, nextGen <= nextGen',
         UNCHANGED <<slot, idx, sel, pend, readers>>, lput'.gen = lput.gen,
         rec'.src = "index" <=> rec.src = "index", rec.src = "index" => rec'.item = rec.item,
         HiddenGet' <=> HiddenGet, HiddenGet => lget'.gen = lget.gen,
         \A g \in Gens : Leased(g)' <=> Leased(g),
         evict'.pc \in {"commit", "release"} =>
           evict.pc \in {"commit", "release"} /\ evict'.gen = evict.gen /\ evict'.out = evict.out
  PROVE  SlotInv'
<1>1. ASSUME NEW g PROVE (Arc(g)' <=> Arc(g)) /\ (RecArc(g)' <=> RecArc(g))
  <2>1. RecArc(g)' <=> RecArc(g)
    BY Zenon DEF RecArc
  <2>2. QED
    BY <2>1, Zenon DEF Arc
<1>2. SlotsHeld'
  <2>1. \A g \in Gens : Unmoved(g)
    BY <1>1, Zenon DEF Unmoved
  <2>2. slot' \in [Gens -> Slot]
    BY Zenon DEF SlotInv, SlotsHeld
  <2>3. QED
    BY <2>1, <2>2, HeldStep, Zenon DEF SlotInv
<1>3. ArcsApart'
  <2>1. ~RecArc(lget.gen) => ~(rec'.src = "index" /\ rec'.item.gen = lget.gen)
    BY Zenon DEF RecArc
  <2>2. HiddenGet => lget'.gen \notin {idx', sel', lput'.gen} /\ ~(rec'.src = "index" /\ rec'.item.gen = lget'.gen)
    BY <2>1, Zenon DEF SlotInv, ArcsApart
  <2>3. QED
    BY <2>2, Zenon DEF SlotInv, ArcsApart, RecArc
<1>4. RoutedArcs'
  BY Zenon DEF SlotInv, RoutedArcs
<1>5. DemotionHolds'
  BY Zenon DEF SlotInv, DemotionHolds
<1>6. QED
  BY <1>2, <1>3, <1>4, <1>5, Zenon DEF SlotInv

\* A step in which Arcs change hands but no slot moves (HandlePrepare, HandleAbort,
\* EvictSelect, FinishSelection).
LEMMA ArcShift ==
  ASSUME SlotInv, UNCHANGED <<nextGen, pend, readers, lput, lget, rget>>, nextGen \in Nat,
         slot' \in [Gens -> Slot],
         \A g \in Gens : \A h, l : Held(slot[g], h, l) =>
           Held(slot'[g], h, l) /\ slot'[g].st = slot[g].st /\ slot'[g].route = slot[g].route
                                /\ slot'[g].scope = slot[g].scope,
         \A g \in Gens : Arc(g)' <=> Arc(g),
         idx' # 0 => idx' # lput.gen /\ idx' \in Gens /\ SourceReadable(slot[idx']),
         sel' # 0 => sel' \in Gens /\ SourceReadable(slot[sel']),
         HiddenGet => lget.gen \notin {idx', sel'} /\ ~(rec'.src = "index" /\ rec'.item.gen = lget.gen),
         rec'.src = "index" => rec'.item.gen \in Gens /\ SourceReadable(slot[rec'.item.gen])
                               /\ readers[rec'.item.gen] = 0,
         pend # 0 => pend \in Gens,
         DemotionHolds'
  PROVE  SlotInv'
<1>1. \A g \in Gens : SourceReadable(slot[g]) => SourceReadable(slot'[g])
  <2>1. ASSUME NEW g \in Gens, SourceReadable(slot[g]) PROVE SourceReadable(slot'[g])
    <3>1. PICK h, l : Held(slot[g], h, l)
      BY <2>1, Zenon DEF SlotInv, SlotsHeld
    <3>2. slot'[g].st = slot[g].st /\ slot'[g].route = slot[g].route
      BY <3>1, Zenon
    <3>3. QED
      BY <2>1, <3>2, Zenon DEF SourceReadable
  <2>2. QED
    BY <2>1, Zenon
<1>2. SlotsHeld'
  <2>1. ASSUME NEW g \in Gens PROVE Settled(g) \/ Unmoved(g)
    <3>1. HolderCount(g)' = HolderCount(g) /\ LeaseCount(g)' = LeaseCount(g)
      BY Zenon DEF HolderCount, LeaseCount, Leased
    <3>2. Held(slot[g], HolderCount(g), LeaseCount(g)) /\ (slot[g].st = "pending" <=> lput.gen = g)
          /\ (lput.gen = g \/ g > nextGen => readers[g] = 0) /\ (g > nextGen => slot[g].st = "free")
      BY Zenon DEF SlotInv, SlotsHeld
    <3>3. /\ Held(slot'[g], HolderCount(g), LeaseCount(g)) /\ slot'[g].st = slot[g].st
      BY <3>2, Zenon
    <3>4. CASE g <= nextGen
      BY <3>1, <3>2, <3>3, <3>4, Zenon DEF Settled
    <3>5. CASE ~(g <= nextGen)
      <4>1. slot[g].st = "free" /\ slot'[g].st = "free"
        BY <3>2, <3>3, <3>5, BoundAssumption DEF Gens
      <4>2. slot'[g] = slot[g]
        BY <3>2, <3>3, <4>1, Zenon DEF Held
      <4>3. QED
        BY <4>2, Zenon DEF Unmoved, Leased
    <3>6. QED
      BY <3>4, <3>5, Zenon
  <2>2. nextGen' \in Nat /\ nextGen <= nextGen'
    OBVIOUS
  <2>3. QED
    BY <2>1, <2>2, HeldStep, Zenon DEF SlotInv
<1>3. ArcsApart'
  BY Zenon DEF SlotInv, ArcsApart, RecArc, HiddenGet
<1>4. RoutedArcs'
  <2>1. pend # 0 => slot'[pend].scope = slot[pend].scope
    BY Zenon DEF SlotInv, SlotsHeld
  <2>2. QED
    BY <1>1, <2>1, Zenon DEF SlotInv, RoutedArcs, HiddenGet
<1>5. QED
  BY <1>2, <1>3, <1>4, Zenon DEF SlotInv

\* A generation that names a slot.
Known(g) == g \in Gens /\ g <= nextGen

\* Everything the steps name has a slot.
LEMMA SlotGens ==
  ASSUME Order
  PROVE  /\ nextGen \in Nat /\ readers \in [Gens -> Nat] /\ 0 \notin Gens
         /\ idx # 0 => Known(idx)
         /\ sel # 0 => Known(sel)
         /\ pend # 0 => Known(pend)
         /\ lput.gen # 0 => Known(lput.gen)
         /\ lget.pc # "idle" => Known(lget.gen) /\ lget.gen # 0
         /\ rget.pc # "idle" => Known(rget.gen)
         /\ evict.pc # "idle" => Known(evict.gen)
         /\ rec.src # "none" => rec # NoRec
         /\ rec # NoRec => Known(rec.item.gen)
         /\ route.own => Known(route.gen)
         /\ \A g \in bcast : Known(g)
<1>1. Knows /\ \A g : Older(g) => g \in Gens
  BY OlderGens, Zenon DEF Order
<1>2. \A g : Older(g) => Known(g)
  BY <1>1, Zenon DEF Known, Older, Written
<1>3. /\ nextGen \in Nat /\ readers \in [Gens -> Nat] /\ 0 \notin Gens
  BY <1>1, NamedGens, BoundAssumption DEF Gens, Knows, CountTypes
<1>4. /\ NoPut.gen = 0 /\ NoLGet.pc = "idle" /\ NoRGet.pc = "idle" /\ NoEvict.pc = "idle" /\ NoRec.src = "none"
  BY Zenon DEF NoPut, NoLGet, NoRGet, NoEvict, NoRec
<1>5. \A g : Known(g) => g # 0
  BY <1>3, Zenon DEF Known
<1>6. /\ idx # 0 => Older(idx)
      /\ sel # 0 => Older(sel)
      /\ pend # 0 => Older(pend)
      /\ lput = NoPut \/ Older(lput.gen)
      /\ lget = NoLGet \/ Older(lget.gen)
      /\ rget = NoRGet \/ Older(rget.gen)
      /\ evict = NoEvict \/ Older(evict.gen)
      /\ rec = NoRec \/ Older(rec.item.gen)
      /\ route.own => Older(route.gen)
  BY <1>1, NamedGens, Zenon
<1>7. \A g \in bcast : Older(g)
  BY <1>1, Zenon DEF Knows, MasterKnows, Older
<1>8. QED
  BY <1>2, <1>3, <1>4, <1>5, <1>6, <1>7, Zenon

\* What SlotsHeld says of one slot.
LEMMA AtSlot ==
  ASSUME SlotsHeld, NEW g \in Gens, readers \in [Gens -> Nat]
  PROVE  /\ slot \in [Gens -> Slot] /\ slot[g] \in Slot
         /\ Held(slot[g], HolderCount(g), LeaseCount(g))
         /\ HolderCount(g) \in {0, 1} /\ LeaseCount(g) \in {0, 1}
         /\ HolderCount(g) = 1 <=> Arc(g) \/ readers[g] # 0
         /\ LeaseCount(g) = 1 <=> Leased(g)
         /\ slot[g].st = "pending" <=> lput.gen = g
         /\ lput.gen = g => readers[g] = 0 /\ Arc(g)
         /\ readers[g] # 0 \/ slot[g].st # "free" => ~(g > nextGen)
         /\ slot[g].st # "free" => slot[g].st \in {"pending", "committed"}
<1>1. /\ Held(slot[g], HolderCount(g), LeaseCount(g)) /\ slot \in [Gens -> Slot]
      /\ (slot[g].st = "pending" <=> lput.gen = g) /\ (lput.gen = g \/ g > nextGen => readers[g] = 0)
      /\ (g > nextGen => slot[g].st = "free")
  BY Zenon DEF SlotsHeld
<1>2. readers[g] > 0 <=> readers[g] # 0
  OBVIOUS
<1>3. /\ HolderCount(g) \in {0, 1} /\ LeaseCount(g) \in {0, 1}
      /\ HolderCount(g) = 1 <=> Arc(g) \/ readers[g] # 0
      /\ LeaseCount(g) = 1 <=> Leased(g)
  BY <1>2 DEF HolderCount, LeaseCount
<1>4. slot[g].st # "free" => slot[g].st \in {"pending", "committed"}
  BY <1>1, HeldFree, Zenon
<1>5. lput.gen = g => Arc(g)
  BY Zenon DEF Arc
<1>6. QED
  BY <1>1, <1>3, <1>4, <1>5, Zenon

-----------------------------------------------------------------------------
(* Which steps take a slot's route reference away.                         *)

Kept(g) == SourceReadable(slot[g]) => SourceReadable(slot'[g])

\* Every operation but the release of the route leaves a slot readable.
LEMMA OperationKeeps ==
  ASSUME NEW s \in Slot, SourceReadable(s)
  PROVE  /\ SourceReadable(RetainHolder(s)) /\ SourceReadable(ReleaseHolder(s))
         /\ SourceReadable(AcquireSource(s)) /\ SourceReadable(ReleaseSource(s))
         /\ SourceReadable(ReserveDemotion(s)) /\ SourceReadable(DropReservation(s))
         /\ CommitDemotion(s) \in Slot /\ SourceReadable(CommitDemotion(s))
         /\ SourceReadable(PromotePending(s)) /\ SourceReadable([s EXCEPT !.scope = "LocalExclusive"])
<1>1. s.st = "committed" /\ s.route
  BY Zenon DEF SourceReadable
<1>2. SourceReadable(ReleaseHolder(s))
  <2> DEFINE t == [s EXCEPT !.holders = @ - 1]
  <2>1. t.st = "committed" /\ t.route
    BY <1>1, Zenon DEF Slot
  <2> HIDE DEF t
  <2>2. FreeIfUnreferenced(t) = t
    BY <2>1, Zenon DEF FreeIfUnreferenced, Unreferenced
  <2>3. QED
    BY <2>1, <2>2, Zenon DEF SourceReadable, ReleaseHolder, t
<1>3. SourceReadable(ReleaseSource(s))
  <2> DEFINE t == [s EXCEPT !.leases = @ - 1]
  <2>1. t.st = "committed" /\ t.route
    BY <1>1, Zenon DEF Slot
  <2> HIDE DEF t
  <2>2. FreeIfUnreferenced(t) = t
    BY <2>1, Zenon DEF FreeIfUnreferenced, Unreferenced
  <2>3. QED
    BY <2>1, <2>2, Zenon DEF SourceReadable, ReleaseSource, t
<1>4. SourceReadable(RetainHolder(s)) /\ SourceReadable(AcquireSource(s))
  BY <1>1, Zenon DEF SourceReadable, RetainHolder, AcquireSource, Slot
<1>5. SourceReadable(ReserveDemotion(s)) /\ SourceReadable(DropReservation(s))
  BY <1>1, Zenon DEF SourceReadable, ReserveDemotion, DropReservation, Slot
<1>6. CommitDemotion(s) \in Slot /\ SourceReadable(CommitDemotion(s))
  BY <1>1, Zenon DEF SourceReadable, CommitDemotion, Slot, Scopes
<1>7. SourceReadable(PromotePending(s)) /\ SourceReadable([s EXCEPT !.scope = "LocalExclusive"])
  BY <1>1, Zenon DEF SourceReadable, PromotePending, Slot
<1>8. QED
  BY <1>2, <1>3, <1>4, <1>5, <1>6, <1>7, Zenon

-----------------------------------------------------------------------------
(* Readers and gets.                                                       *)

\* A readable slot stays readable, with its scope and its reservation.
StaysAs(g) ==
  SourceReadable(slot[g]) =>
    SourceReadable(slot'[g]) /\ slot'[g].scope = slot[g].scope /\ slot'[g].resv = slot[g].resv

\* A step that at most ends a put or a get and takes no route reference away.
LEMMA KeptSlots ==
  ASSUME Order, SlotInv, \A g \in Gens : StaysAs(g), UNCHANGED <<idx, sel, rec, evict>>,
         lput'.gen \in {lput.gen, 0}, HiddenGet' => HiddenGet /\ lget'.gen = lget.gen,
         pend' \in {pend, 0}, pend' # 0 => HiddenGet',
         rec.src = "index" => readers'[rec.item.gen] = 0
  PROVE  ArcsApart' /\ RoutedArcs' /\ DemotionHolds'
<1>1. /\ idx # 0 => idx \in Gens
      /\ sel # 0 => sel \in Gens
      /\ pend # 0 => pend \in Gens
      /\ lget.pc # "idle" => lget.gen # 0
      /\ rec.src = "index" => rec.item.gen \in Gens
      /\ evict.pc \in {"commit", "release"} => evict.gen \in Gens
  BY SlotGens, Zenon DEF Known
<1>2. ArcsApart'
  <2>1. HiddenGet => lget.gen # 0
    BY <1>1, Zenon DEF HiddenGet
  <2>2. HiddenGet' => lget'.gen \notin {idx', sel', lput'.gen} /\ ~(rec'.src = "index" /\ rec'.item.gen = lget'.gen)
    BY <2>1, Zenon DEF SlotInv, ArcsApart, RecArc
  <2>3. QED
    BY <2>2, Zenon DEF SlotInv, ArcsApart, RecArc
<1>3. RoutedArcs'
  <2>1. /\ idx' # 0 => SourceReadable(slot'[idx'])
        /\ sel' # 0 => SourceReadable(slot'[sel'])
        /\ rec'.src = "index" => SourceReadable(slot'[rec'.item.gen]) /\ readers'[rec'.item.gen] = 0
    BY <1>1, Zenon DEF SlotInv, RoutedArcs, StaysAs
  <2>2. pend' # 0 => /\ SourceReadable(slot'[pend']) /\ slot'[pend'].scope = "GlobalShared"
                     /\ HiddenGet' /\ lget'.gen = pend'
    BY <1>1, Zenon DEF SlotInv, RoutedArcs, StaysAs
  <2>3. QED
    BY <2>1, <2>2, Zenon DEF RoutedArcs
<1>4. DemotionHolds'
  <2>1. ASSUME evict.pc \in {"commit", "release"}, evict.out = "DemotedGlobal" PROVE DemotionValid(slot'[evict.gen])
    <3>1. DemotionValid(slot[evict.gen]) /\ evict.gen \in Gens
      BY <1>1, <2>1, Zenon DEF SlotInv, DemotionHolds
    <3>2. SourceReadable(slot[evict.gen])
      BY <3>1, Zenon DEF DemotionValid, SourceReadable
    <3>3. QED
      BY <3>1, <3>2, Zenon DEF StaysAs, DemotionValid, SourceReadable
  <2>2. QED
    BY <2>1, Zenon DEF DemotionHolds
<1>5. QED
  BY <1>2, <1>3, <1>4, Zenon

\* A step that concerns one slot.
LEMMA OneSlot ==
  ASSUME Order, SlotInv, NEW g \in Gens, UNCHANGED <<nextGen, rget>>,
         slot' = [slot EXCEPT ![g] = slot'[g]], Settled(g),
         \A h \in Gens : h # g => /\ Arc(h)' <=> Arc(h)
                                  /\ readers'[h] = readers[h]
                                  /\ lput'.gen = h <=> lput.gen = h
  PROVE  SlotsHeld' /\ \A h \in Gens : h # g => slot'[h] = slot[h]
<1>1. slot \in [Gens -> Slot] /\ nextGen \in Nat /\ nextGen' \in Nat /\ nextGen <= nextGen'
  BY SlotGens DEF SlotInv, SlotsHeld
<1>2. \A h \in Gens : h # g => slot'[h] = slot[h]
  BY <1>1, Zenon
<1>3. \A h \in Gens : h # g => Unmoved(h)
  BY <1>2, Zenon DEF Unmoved, Leased
<1>4. slot' \in [Gens -> Slot]
  <2>1. slot'[g] \in Slot
    BY Zenon DEF Settled, Held
  <2>2. QED
    BY <1>1, <2>1, Zenon
<1>5. QED
  BY <1>1, <1>2, <1>3, <1>4, HeldStep, Zenon DEF SlotInv

\* An unfenced key: no selection, no record, no eviction that releases.
LEMMA Unfenced ==
  ASSUME Order, ~Fenced
  PROVE  /\ sel = 0 /\ rec = NoRec /\ rec.src = "none" /\ rec.st = "none" /\ rec.item.why = "none"
         /\ evict.pc \notin {"commit", "release", "finalize"}
<1>1. sel = 0 /\ rec = NoRec /\ NoRec.src = "none" /\ NoRec.st = "none" /\ NoRec.item.why = "none"
  BY Zenon DEF Fenced, NoRec, NoItem
<1>2. evict.pc \notin {"commit", "release", "finalize"}
  BY <1>1, MastersRecord, Zenon DEF Order
<1>3. QED
  BY <1>1, <1>2, Zenon

\* The index entry that a publication replaces.
LEMMA IndexReplaced ==
  ASSUME Order, SlotInv, NEW s \in [Gens -> Slot], idx # 0 => s[idx] = slot[idx]
  PROVE  /\ ReplaceIndexed(s) \in [Gens -> Slot] /\ ~ReplaceFails(s)
         /\ \A h \in Gens : h # idx => ReplaceIndexed(s)[h] = s[h]
         /\ idx # 0 => LET t == ReplaceIndexed(s)[idx]
                       IN  /\ readers[idx] = 0 => Held(t, 0, LeaseCount(idx))
                           /\ readers[idx] # 0 => Held(t, 1, LeaseCount(idx))
                           /\ t.st # "pending"
<1>1. CASE idx = 0
  BY <1>1, Zenon DEF ReplaceIndexed, ReplaceFails
<1>2. CASE idx # 0
  <2>1. idx \in Gens /\ Arc(idx) /\ SourceReadable(slot[idx]) /\ readers \in [Gens -> Nat] /\ SlotsHeld
    BY <1>2, SlotGens, Zenon DEF Known, Arc, SlotInv, RoutedArcs
  <2>2. Held(slot[idx], 1, LeaseCount(idx))
    BY <2>1, AtSlot, Zenon
  <2> DEFINE r == ReleaseRoute(slot[idx])
             u == [s EXCEPT ![idx] = r]
  <2>3. Held(r, 1, LeaseCount(idx)) /\ RouteReleasable(slot[idx]) /\ r.st # "pending"
    BY <2>1, <2>2, RouteReleased, Zenon
  <2>4. /\ Held(ReleaseHolder(r), 0, LeaseCount(idx)) /\ ReleaseHolder(r).st # "pending"
    BY <2>3, HolderReleased, Zenon
  <2>5. r \in Slot /\ ReleaseHolder(r) \in Slot
    BY <2>3, <2>4, Zenon DEF Held
  <2>6. ReplaceIndexed(s) = IF readers[idx] = 0 THEN [u EXCEPT ![idx] = ReleaseHolder(u[idx])] ELSE u
    BY <1>2, Zenon DEF ReplaceIndexed, DropArc
  <2> HIDE DEF r
  <2>7. /\ u \in [Gens -> Slot] /\ u[idx] = r /\ \A h \in Gens : h # idx => u[h] = s[h]
    BY <2>1, <2>5, Zenon
  <2> HIDE DEF u
  <2>8. ~ReplaceFails(s)
    BY <1>2, <2>3, Zenon DEF ReplaceFails
  <2>9. CASE readers[idx] = 0
    <3>1. ReplaceIndexed(s) = [u EXCEPT ![idx] = ReleaseHolder(r)]
      BY <2>6, <2>7, <2>9, Zenon
    <3>2. /\ ReplaceIndexed(s) \in [Gens -> Slot] /\ ReplaceIndexed(s)[idx] = ReleaseHolder(r)
          /\ \A h \in Gens : h # idx => ReplaceIndexed(s)[h] = s[h]
      BY <2>1, <2>5, <2>7, <3>1, Zenon
    <3>3. QED
      BY <2>4, <2>8, <2>9, <3>2, Zenon
  <2>10. CASE readers[idx] # 0
    <3>1. ReplaceIndexed(s) = u
      BY <2>6, <2>10, Zenon
    <3>2. QED
      BY <2>3, <2>7, <2>8, <2>10, <3>1, Zenon
  <2>11. QED
    BY <2>9, <2>10, Zenon
<1>3. QED
  BY <1>1, <1>2, Zenon

\* Generation g becomes the index, in place of what was there (OwnerPutPublish and
\* OwnerGetPromote).
LEMMA Reindexed ==
  ASSUME Order, SlotInv, ~Fenced, NEW g \in Gens, g <= nextGen, g # idx,
         NEW t, Held(t, 1, LeaseCount(g)), SourceReadable(t),
         slot' = ReplaceIndexed([slot EXCEPT ![g] = t]), idx' = g,
         UNCHANGED <<nextGen, sel, rec, readers, rget, evict>>,
         lput'.gen # g, lput'.gen \in {lput.gen, 0}, lput.gen # g => lput'.gen = lput.gen,
         HiddenGet' => HiddenGet /\ lget'.gen = lget.gen /\ lget.gen # g,
         HiddenGet /\ lget.gen # g => HiddenGet',
         pend' # 0 => pend' = pend /\ HiddenGet'
  PROVE  SlotInv'
<1>1. /\ slot \in [Gens -> Slot] /\ nextGen \in Nat /\ nextGen <= nextGen' /\ readers \in [Gens -> Nat] /\ SlotsHeld
      /\ t \in Slot /\ nextGen' \in Nat
  BY SlotGens DEF SlotInv, SlotsHeld, Held
<1>2. /\ sel = 0 /\ rec.src = "none" /\ evict.pc \notin {"commit", "release"}
  BY Unfenced, Zenon
<1>3. PICK o : o = idx
  BY Zenon
<1>4. o # g /\ (o # 0 => o \in Gens /\ o <= nextGen)
  BY <1>3, SlotGens, Zenon DEF Known
<1>5. [slot EXCEPT ![g] = t] \in [Gens -> Slot] /\ (\A h \in Gens : h # g => [slot EXCEPT ![g] = t][h] = slot[h])
      /\ [slot EXCEPT ![g] = t][g] = t
  BY <1>1, Zenon
<1>6. /\ slot' \in [Gens -> Slot] /\ slot'[g] = t
      /\ \A h \in Gens : h \notin {o, g} => slot'[h] = slot[h]
      /\ o # 0 => /\ readers[o] = 0 => Held(slot'[o], 0, LeaseCount(o))
                  /\ readers[o] # 0 => Held(slot'[o], 1, LeaseCount(o))
                  /\ slot'[o].st # "pending"
  BY <1>3, <1>4, <1>5, IndexReplaced, Zenon
<1>7. HiddenGet => lget.gen # 0 /\ lget.gen # o /\ lget.gen # sel /\ lget.gen # lput.gen
  BY <1>3, SlotGens, Zenon DEF SlotInv, ArcsApart, HiddenGet
<1>8. o # 0 => o # lput.gen /\ o # lput'.gen
  BY <1>3, Zenon DEF SlotInv, ArcsApart
<1>9. Arc(g)' /\ HolderCount(g)' = 1 /\ \A h : LeaseCount(h)' = LeaseCount(h)
  BY Zenon DEF Arc, HolderCount, LeaseCount, Leased
<1>10. o # 0 => ~Arc(o)'
  BY <1>2, <1>4, <1>7, <1>8, Zenon DEF Arc, RecArc
<1>11. ASSUME NEW h \in Gens, h \notin {o, g} PROVE Unmoved(h)
  <2>1. h # 0
    BY SlotGens, Zenon
  <2>2. (lput'.gen = h <=> lput.gen = h) /\ (HiddenGet' /\ lget'.gen = h <=> HiddenGet /\ lget.gen = h)
    BY <1>11, <2>1, Zenon
  <2>3. Arc(h)' <=> Arc(h)
    BY <1>2, <1>3, <1>11, <2>2, Zenon DEF Arc, RecArc
  <2>4. QED
    BY <1>6, <1>11, <2>2, <2>3, Zenon DEF Unmoved, Leased
<1>12. Settled(g)
  <2>1. slot'[g].st # "pending"
    BY <1>6, Zenon DEF SourceReadable
  <2>2. QED
    BY <1>6, <1>9, <2>1, Zenon DEF Settled
<1>13. o # 0 => Settled(o)
  <2> SUFFICES ASSUME o # 0 PROVE Settled(o)
    BY Zenon
  <2>1. readers[o] > 0 <=> readers[o] # 0
    BY <1>1, <1>4
  <2>2. HolderCount(o)' = IF readers[o] # 0 THEN 1 ELSE 0
    BY <1>10, <2>1, Zenon DEF HolderCount
  <2>3. Held(slot'[o], HolderCount(o)', LeaseCount(o)')
    BY <1>6, <1>9, <2>2, Zenon
  <2>4. QED
    BY <1>4, <1>6, <1>8, <2>3, Zenon DEF Settled
<1>14. SlotsHeld'
  <2>1. \A h \in Gens : Unmoved(h) \/ Settled(h)
    BY <1>11, <1>12, <1>13, SlotGens, Zenon
  <2>2. QED
    BY <1>1, <1>6, <2>1, HeldStep, Zenon
<1>15. ArcsApart'
  BY <1>2, <1>7, Zenon DEF ArcsApart, RecArc
<1>16. RoutedArcs'
  <2>1. pend' # 0 => /\ SourceReadable(slot'[pend']) /\ slot'[pend'].scope = "GlobalShared"
                     /\ HiddenGet' /\ lget'.gen = pend'
    BY <1>6, <1>7, SlotGens, Zenon DEF SlotInv, RoutedArcs, Known
  <2>2. QED
    BY <1>2, <1>6, <2>1, Zenon DEF RoutedArcs
<1>17. DemotionHolds'
  BY <1>2, Zenon DEF DemotionHolds
<1>18. QED
  BY <1>14, <1>15, <1>16, <1>17, Zenon DEF SlotInv

\* One of the owner's own Arcs goes (OwnerPutFail, OwnerGetAbort, and a get whose
\* hidden target was closed).
LEMMA ArcDropped ==
  ASSUME Order, SlotInv, NEW g \in Gens, g <= nextGen, Arc(g), slot' = DropArc(slot, g),
         ~Arc(g)', lput'.gen # g,
         \A h \in Gens : h # g => (Arc(h)' <=> Arc(h)) /\ (lput'.gen = h <=> lput.gen = h),
         UNCHANGED <<nextGen, readers, rget, idx, sel, rec, evict>>,
         lput'.gen \in {lput.gen, 0}, HiddenGet' => HiddenGet /\ lget'.gen = lget.gen,
         pend' \in {pend, 0}, pend' # 0 => HiddenGet'
  PROVE  SlotInv'
<1>1. /\ slot \in [Gens -> Slot] /\ readers \in [Gens -> Nat] /\ SlotsHeld
  BY SlotGens, Zenon DEF SlotInv, SlotsHeld
<1>2. Held(slot[g], 1, LeaseCount(g)) /\ (readers[g] # 0 => slot[g].st # "pending")
  BY <1>1, AtSlot, Zenon
<1>3. LeaseCount(g)' = LeaseCount(g) /\ (readers[g] > 0 <=> readers[g] # 0)
  BY <1>1 DEF LeaseCount, Leased
<1>4. HolderCount(g)' = IF readers[g] # 0 THEN 1 ELSE 0
  BY <1>3, Zenon DEF HolderCount
<1>5. Settled(g) /\ StaysAs(g) /\ slot' = [slot EXCEPT ![g] = slot'[g]]
  <2>1. CASE readers[g] = 0
    <3>1. slot' = [slot EXCEPT ![g] = ReleaseHolder(slot[g])]
      BY <2>1, Zenon DEF DropArc
    <3>2. slot'[g] = ReleaseHolder(slot[g]) /\ slot' = [slot EXCEPT ![g] = slot'[g]]
      BY <1>1, <3>1, Zenon
    <3>3. /\ Held(slot'[g], 0, LeaseCount(g)) /\ slot'[g].st # "pending"
          /\ SourceReadable(slot[g]) => /\ SourceReadable(slot'[g]) /\ slot'[g].scope = slot[g].scope
                                        /\ slot'[g].resv = slot[g].resv
      BY <1>2, <3>2, HolderReleased
    <3>4. QED
      BY <1>3, <1>4, <2>1, <3>2, <3>3, Zenon DEF Settled, StaysAs
  <2>2. CASE readers[g] # 0
    <3>1. slot' = slot
      BY <2>2, Zenon DEF DropArc
    <3>2. slot' = [slot EXCEPT ![g] = slot'[g]]
      BY <1>1, <3>1, Zenon
    <3>3. QED
      BY <1>2, <1>3, <1>4, <2>2, <3>1, <3>2, Zenon DEF Settled, StaysAs
  <2>3. QED
    BY <2>1, <2>2, Zenon
<1>6. SlotsHeld' /\ \A h \in Gens : h # g => slot'[h] = slot[h]
  BY <1>5, OneSlot, Zenon
<1>7. \A h \in Gens : StaysAs(h)
  BY <1>5, <1>6, Zenon DEF StaysAs
<1>8. rec.src = "index" => readers'[rec.item.gen] = 0
  BY Zenon DEF SlotInv, RoutedArcs
<1>9. QED
  BY <1>6, <1>7, <1>8, KeptSlots, Zenon DEF SlotInv

-----------------------------------------------------------------------------
(* Puts, the delete and its broadcast.                                     *)

\* What a delete broadcast does to the slots: the route of a GlobalShared slot goes,
\* and the index up to the deleted generation.
LEMMA BroadcastMoves ==
  ASSUME Order, SlotInv, NEW b \in Gens, BroadcastApply(b)
  PROVE  LET dropIdx == idx # 0 /\ idx <= b
             global  == slot[b].scope = "GlobalShared" /\ slot[b].route
             w == IF global /\ idx # b THEN [slot EXCEPT ![b] = ReleaseRoute(slot[b])] ELSE slot
         IN  /\ slot' = IF dropIdx THEN ReplaceIndexed(w) ELSE w
             /\ idx' = IF dropIdx THEN 0 ELSE idx
             /\ ~dropIdx => idx # b
             /\ global => SourceReadable(slot[b])
             /\ w \in [Gens -> Slot] /\ (idx # 0 => w[idx] = slot[idx])
             /\ failed' = (failed \/ (dropIdx /\ ~(global /\ idx = b) /\ ~RouteReleasable(slot[idx])))
<1> DEFINE dropIdx == idx # 0 /\ idx <= b
           global  == slot[b].scope = "GlobalShared" /\ slot[b].route
           w == IF global /\ idx # b THEN [slot EXCEPT ![b] = ReleaseRoute(slot[b])] ELSE slot
           s1 == IF global THEN [slot EXCEPT ![b] = ReleaseRoute(slot[b])] ELSE slot
           routeGone == global /\ idx = b
           s2 == IF dropIdx /\ ~routeGone THEN [s1 EXCEPT ![idx] = ReleaseRoute(s1[idx])] ELSE s1
<1>1. /\ slot' = IF dropIdx THEN DropArc(s2, idx) ELSE s2
      /\ idx' = IF dropIdx THEN 0 ELSE idx
      /\ failed' = (failed \/ (dropIdx /\ ~routeGone /\ ~RouteReleasable(s1[idx])))
  BY Zenon DEF BroadcastApply
<1>2. ~dropIdx => idx # b
  <2>1. b # 0 /\ b <= b
    BY BoundAssumption DEF Gens
  <2>2. QED
    BY <2>1, Zenon
<1>3. slot \in [Gens -> Slot] /\ SlotsHeld /\ readers \in [Gens -> Nat] /\ (idx # 0 => idx \in Gens)
  BY SlotGens, Zenon DEF SlotInv, SlotsHeld, Known
<1>4. global => SourceReadable(slot[b])
  <2>1. Held(slot[b], HolderCount(b), LeaseCount(b))
    BY <1>3, AtSlot, Zenon
  <2>2. QED
    BY <2>1, HeldFree, Zenon DEF SourceReadable, Held
<1>5. w \in [Gens -> Slot]
  <2>1. global => ReleaseRoute(slot[b]) \in Slot
    BY <1>3, <1>4, AtSlot, RouteReleased, Zenon DEF Held
  <2>2. QED
    BY <1>3, <2>1, Zenon
<1>6. (idx # 0 => w[idx] = slot[idx]) /\ (~routeGone => s1 = w)
  BY <1>3, Zenon
<1>7. slot' = IF dropIdx THEN ReplaceIndexed(w) ELSE w
  <2>1. CASE ~dropIdx
    <3>1. ~routeGone
      BY <1>2, <2>1, Zenon
    <3>2. QED
      BY <1>1, <1>6, <2>1, <3>1, Zenon
  <2>2. CASE dropIdx /\ routeGone
    <3>1. slot' = DropArc([slot EXCEPT ![idx] = ReleaseRoute(slot[idx])], idx) /\ w = slot
      BY <1>1, <2>2, Zenon
    <3>2. QED
      BY <2>2, <3>1, Zenon DEF ReplaceIndexed
  <2>3. CASE dropIdx /\ ~routeGone
    <3>1. slot' = DropArc([w EXCEPT ![idx] = ReleaseRoute(w[idx])], idx)
      BY <1>1, <1>6, <2>3, Zenon
    <3> HIDE DEF w
    <3>2. QED
      BY <2>3, <3>1, Zenon DEF ReplaceIndexed
  <2>4. QED
    BY <2>1, <2>2, <2>3, Zenon
<1>8. failed' = (failed \/ (dropIdx /\ ~routeGone /\ ~RouteReleasable(slot[idx])))
  BY <1>1, <1>6, Zenon
<1>9. QED
  BY <1>1, <1>2, <1>4, <1>5, <1>6, <1>7, <1>8, Zenon

-----------------------------------------------------------------------------
(* The reclaim and the eviction.                                           *)

\* At most scopes and reservations of slots change, and no scope.
Relabels ==
  /\ slot' \in [Gens -> Slot]
  /\ \A g \in Gens : \A h, l : Held(slot[g], h, l) =>
       Held(slot'[g], h, l) /\ slot'[g].st = slot[g].st /\ slot'[g].route = slot[g].route
                            /\ slot'[g].scope = slot[g].scope

ownerGets == <<nextGen, pend, readers, lput, lget, rget>>

\* Such a step that leaves the Arcs where they are.
LEMMA ArcsStay ==
  ASSUME Order, SlotInv, Relabels, UNCHANGED ownerGets, UNCHANGED <<idx, sel, rec>>, DemotionHolds'
  PROVE  SlotInv'
<1>1. /\ nextGen \in Nat /\ (idx # 0 => idx \in Gens) /\ (sel # 0 => sel \in Gens) /\ (pend # 0 => pend \in Gens)
      /\ (rec.src = "index" => rec.item.gen \in Gens)
  BY SlotGens, Zenon DEF Known
<1>2. ASSUME NEW g \in Gens PROVE Arc(g)' <=> Arc(g)
  BY Zenon DEF Arc, RecArc, HiddenGet, ownerGets
<1>3. /\ idx' # 0 => idx' # lput.gen /\ idx' \in Gens /\ SourceReadable(slot[idx'])
      /\ sel' # 0 => sel' \in Gens /\ SourceReadable(slot[sel'])
      /\ HiddenGet => lget.gen \notin {idx', sel'} /\ ~(rec'.src = "index" /\ rec'.item.gen = lget.gen)
      /\ rec'.src = "index" => rec'.item.gen \in Gens /\ SourceReadable(slot[rec'.item.gen])
                               /\ readers[rec'.item.gen] = 0
  BY <1>1, Zenon DEF SlotInv, ArcsApart, RoutedArcs, RecArc
<1>4. QED
  BY <1>1, <1>2, <1>3, ArcShift, Zenon DEF ownerGets, Relabels

\* Prepare takes the Arc over from the index or the selection.
LEMMA PrepareSlots ==
  ASSUME Order, SlotInv, NEW i, i.gen # 0, NEW st, st = PrepareStep(i), PrepareEffect(i, st),
         Relabels, UNCHANGED ownerGets, DemotionHolds'
  PROVE  SlotInv'
<1>1. CASE UNCHANGED <<rec, sel, idx>>
  BY <1>1, ArcsStay, Zenon
<1>2. CASE /\ rec = NoRec /\ rec' = Prepared(i, "index") /\ sel' = 0 /\ idx' = 0
           /\ i.gen \in {sel, idx} /\ readers[i.gen] = 0 /\ lput = NoPut /\ pend = 0
  <2>1. /\ nextGen \in Nat /\ 0 \notin Gens /\ (idx # 0 => idx \in Gens) /\ (sel # 0 => sel \in Gens)
    BY SlotGens, Zenon DEF Known
  <2>2. rec'.src = "index" /\ rec'.item = i /\ rec.src = "none" /\ lput.gen = 0
    BY <1>2, Zenon DEF Prepared, NoRec, NoPut
  <2>3. sel # 0 => idx = 0
    BY Zenon DEF Order, LocalInv, LocalFence, Fenced
  <2>4. ASSUME NEW g \in Gens PROVE Arc(g)' <=> Arc(g)
    <3>1. g # 0
      BY <2>1, Zenon
    <3>2. (i.gen = g) <=> (idx = g \/ sel = g)
      BY <1>2, <2>3, <3>1, Zenon
    <3>3. QED
      BY <1>2, <2>2, <3>1, <3>2, Zenon DEF Arc, RecArc, HiddenGet, ownerGets
  <2>5. i.gen \in Gens /\ SourceReadable(slot[i.gen]) /\ (HiddenGet => lget.gen # i.gen)
    BY <1>2, <2>1, Zenon DEF SlotInv, RoutedArcs, ArcsApart
  <2>6. HiddenGet => lget.gen # 0
    BY SlotGens, Zenon DEF HiddenGet
  <2>7. QED
    BY <1>2, <2>1, <2>2, <2>4, <2>5, <2>6, ArcShift, Zenon DEF ownerGets, Relabels
<1>3. QED
  BY <1>1, <1>2, PrepareLocal, Zenon DEF Order

\* Abort gives the record's Arc back to the index; a selection takes the index's.
LEMMA BackToIndex ==
  ASSUME Order, SlotInv, Relabels, UNCHANGED ownerGets, DemotionHolds',
         \/ rec.src = "index" /\ rec' = NoRec /\ idx' = rec.item.gen /\ UNCHANGED sel
         \/ idx # 0 /\ sel' = idx /\ idx' = 0 /\ UNCHANGED rec /\ ~Fenced
         \/ sel # 0 /\ idx' = sel /\ sel' = 0 /\ UNCHANGED rec
  PROVE  SlotInv'
<1>1. /\ nextGen \in Nat /\ 0 \notin Gens /\ (idx # 0 => idx \in Gens) /\ (sel # 0 => sel \in Gens)
      /\ (rec.src # "none" => rec # NoRec) /\ (rec # NoRec => rec.item.gen \in Gens)
      /\ (pend # 0 => pend \in Gens)
      /\ (HiddenGet => lget.gen # 0)
  BY SlotGens, Zenon DEF Known, HiddenGet
<1>2. NoRec.src = "none" /\ NoPut.gen = 0
  BY Zenon DEF NoRec, NoPut
<1>3. /\ rec # NoRec => sel = 0 /\ idx = 0 /\ lput = NoPut
      /\ sel # 0 => idx = 0 /\ rec = NoRec /\ lput = NoPut
  BY Zenon DEF Order, LocalInv, LocalFence, Fenced, Knows, ProtocolInv, LocalReclaim
<1>4. CASE rec.src = "index" /\ rec' = NoRec /\ idx' = rec.item.gen /\ UNCHANGED sel
  <2>1. /\ sel = 0 /\ idx = 0 /\ lput.gen = 0 /\ rec.item.gen \in Gens /\ rec'.src = "none"
    BY <1>1, <1>2, <1>3, <1>4, Zenon
  <2>2. ASSUME NEW g \in Gens PROVE Arc(g)' <=> Arc(g)
    <3>1. g # 0
      BY <1>1, Zenon
    <3>2. QED
      BY <1>4, <2>1, <3>1, Zenon DEF Arc, RecArc, HiddenGet, ownerGets
  <2>3. SourceReadable(slot[rec.item.gen]) /\ (HiddenGet => lget.gen # rec.item.gen)
    BY <1>4, Zenon DEF SlotInv, RoutedArcs, ArcsApart, RecArc
  <2>4. QED
    BY <1>1, <1>4, <2>1, <2>2, <2>3, ArcShift, Zenon DEF ownerGets, Relabels
<1>5. CASE idx # 0 /\ sel' = idx /\ idx' = 0 /\ UNCHANGED rec /\ ~Fenced
  <2>1. sel = 0 /\ rec.src = "none"
    BY <1>5, Unfenced, Zenon
  <2>2. ASSUME NEW g \in Gens PROVE Arc(g)' <=> Arc(g)
    <3>1. g # 0
      BY <1>1, Zenon
    <3>2. QED
      BY <1>5, <2>1, <3>1, Zenon DEF Arc, RecArc, HiddenGet, ownerGets
  <2>3. SourceReadable(slot[idx]) /\ (HiddenGet => lget.gen # idx)
    BY <1>5, Zenon DEF SlotInv, RoutedArcs, ArcsApart
  <2>4. QED
    BY <1>1, <1>5, <2>1, <2>2, <2>3, ArcShift, Zenon DEF ownerGets, Relabels
<1>6. CASE sel # 0 /\ idx' = sel /\ sel' = 0 /\ UNCHANGED rec
  <2>1. idx = 0 /\ rec.src = "none" /\ lput.gen = 0
    BY <1>2, <1>3, <1>6, Zenon
  <2>2. ASSUME NEW g \in Gens PROVE Arc(g)' <=> Arc(g)
    <3>1. g # 0
      BY <1>1, Zenon
    <3>2. QED
      BY <1>6, <2>1, <3>1, Zenon DEF Arc, RecArc, HiddenGet, ownerGets
  <2>3. SourceReadable(slot[sel]) /\ (HiddenGet => lget.gen # sel)
    BY <1>6, Zenon DEF SlotInv, RoutedArcs, ArcsApart
  <2>4. QED
    BY <1>1, <1>6, <2>1, <2>2, <2>3, ArcShift, Zenon DEF ownerGets, Relabels
<1>7. QED
  BY <1>4, <1>5, <1>6, Zenon

\* The release of a record's backing does what its assertions ask for.
LEMMA BackingReleased ==
  ASSUME Order, SlotInv, rec.st = "Releasing", NEW demote \in BOOLEAN, ReleaseBacking(demote),
         rec.src = "slot" => ~demote /\ SourceReadable(slot[rec.item.gen]),
         demote => DemotionValid(slot[rec.item.gen]),
         rec'.src = "none", UNCHANGED ownerGets, UNCHANGED <<idx, sel>>, evict'.pc \notin {"commit", "release"}
  PROVE  /\ SlotInv' /\ (failed' <=> failed)
         /\ \A h \in Gens : h # rec.item.gen => slot'[h] = slot[h]
         /\ demote => SourceReadable(slot'[rec.item.gen])
\* Both go at once.
<1>ResidentReleased. ASSUME NEW s, NEW l, Held(s, 1, l), SourceReadable(s)
                     PROVE  /\ Held(ReleaseResident(s), 0, l) /\ ResidentReleasable(s)
                            /\ ReleaseResident(s).st # "pending"
  <2> USE <1>ResidentReleased
  <2> DEFINE t == [s EXCEPT !.route = FALSE, !.holders = @ - 1]
  <2>1. s \in Slot /\ s.holders = 1 /\ s.leases = l /\ s.st = "committed" /\ s.route
    BY Zenon DEF Held, SourceReadable
  <2>2. t \in Slot /\ t.st = "committed" /\ t.holders = 0 /\ t.leases = l
    <3>1. 0 \in Nat /\ s.holders - 1 = 0
      BY <2>1
    <3>2. QED
      BY <2>1, <3>1, Zenon DEF Slot
  <2>3. ReleaseResident(s) = FreeIfUnreferenced(t)
    BY Zenon DEF ReleaseResident
  <2> HIDE DEF t
  <2>4. QED
    BY <2>1, <2>2, <2>3, FreeHeld DEF ResidentReleasable
<1>1. PICK g : g = rec.item.gen
  BY Zenon
<1>2. /\ rec # NoRec /\ rec.src \in {"index", "slot"} /\ sel = 0 /\ idx = 0 /\ pend = 0 /\ lput = NoPut /\ lput.gen = 0
  <2>1. NoRec.st = "none" /\ NoPut.gen = 0 /\ rec.src \in {"none", "index", "slot"}
    BY Zenon DEF NoRec, NoPut, Order, Knows, Types, OwnerTypes, Records
  <2>2. rec # NoRec /\ rec.src # "none"
    BY <2>1, Zenon DEF Order, LocalInv, RecShape
  <2>3. QED
    BY <2>1, <2>2, MastersRecord, Zenon DEF Order
<1>3. /\ g \in Gens /\ g <= nextGen /\ g # 0 /\ nextGen \in Nat /\ readers \in [Gens -> Nat]
      /\ slot \in [Gens -> Slot] /\ SlotsHeld
  BY <1>1, <1>2, SlotGens, Zenon DEF Known, SlotInv, SlotsHeld
<1>4. SourceReadable(slot[g]) /\ (rec.src = "index" => readers[g] = 0 /\ Arc(g) /\ (HiddenGet => lget.gen # g))
  BY <1>1, <1>2, Zenon DEF SlotInv, RoutedArcs, Arc, RecArc, ArcsApart
<1>5. Held(slot[g], HolderCount(g), LeaseCount(g)) /\ (rec.src = "index" => HolderCount(g) = 1)
  BY <1>3, <1>4, AtSlot, Zenon
<1>6. LeaseCount(g)' = LeaseCount(g) /\ readers' = readers /\ lput'.gen = 0 /\ rec'.src = "none"
  BY <1>2, Zenon DEF LeaseCount, Leased, ownerGets
<1>7. \A h \in Gens : h # g => (Arc(h)' <=> Arc(h))
  BY <1>1, Zenon DEF Arc, RecArc, HiddenGet, ownerGets
<1>8. ASSUME NEW t, slot' = [slot EXCEPT ![g] = t], Held(t, HolderCount(g)', LeaseCount(g)), t.st # "pending"
      PROVE  SlotInv' /\ (\A h \in Gens : h # g => slot'[h] = slot[h]) /\ slot'[g] = t
  <2>1. slot'[g] = t /\ slot' = [slot EXCEPT ![g] = slot'[g]]
    BY <1>3, <1>8, Zenon
  <2>2. Settled(g)
    <3>1. g <= nextGen' /\ lput'.gen # g
      BY <1>3, <1>6, Zenon DEF ownerGets
    <3>2. QED
      BY <1>6, <1>8, <2>1, <3>1, Zenon DEF Settled
  <2>3. SlotsHeld' /\ \A h \in Gens : h # g => slot'[h] = slot[h]
    BY <1>3, <1>7, <2>1, <2>2, OneSlot, Zenon DEF ownerGets
  <2>4. ArcsApart'
    BY <1>2, <1>6, SlotGens, Zenon DEF SlotInv, ArcsApart, RecArc, HiddenGet, ownerGets
  <2>5. RoutedArcs' /\ DemotionHolds'
    BY <1>2, <1>6, Zenon DEF RoutedArcs, DemotionHolds, ownerGets
  <2>6. QED
    BY <2>1, <2>3, <2>4, <2>5, Zenon DEF SlotInv
<1>9. CASE rec.src = "slot"
  <2>1. slot' = [slot EXCEPT ![g] = ReleaseRoute(slot[g])]
    BY <1>1, <1>9, Zenon DEF ReleaseBacking
  <2>2. Held(ReleaseRoute(slot[g]), HolderCount(g), LeaseCount(g)) /\ RouteReleasable(slot[g]) /\ ReleaseRoute(slot[g]).st # "pending"
    BY <1>4, <1>5, RouteReleased, Zenon
  <2>3. HolderCount(g)' = HolderCount(g)
    <3>1. Arc(g)' <=> Arc(g)
      BY <1>2, <1>9, Zenon DEF Arc, RecArc, HiddenGet, ownerGets
    <3>2. QED
      BY <1>6, <3>1, Zenon DEF HolderCount
  <2>4. failed' <=> failed
    BY <1>1, <1>2, <1>9, <2>2, Zenon DEF ReleaseBacking
  <2>5. QED
    BY <1>1, <1>8, <1>9, <2>1, <2>2, <2>3, <2>4, Zenon
<1>10. CASE rec.src = "index"
  <2>1. Held(slot[g], 1, LeaseCount(g)) /\ HolderReleasable(slot[g]) /\ slot[g].st = "committed"
    BY <1>4, <1>5, <1>10, HolderReleased, Zenon DEF SourceReadable
  <2>2. HolderCount(g)' = 0
    <3>1. ~Arc(g)'
      BY <1>2, <1>3, <1>4, <1>6, <1>10, Zenon DEF Arc, RecArc, HiddenGet, ownerGets
    <3>2. ~(readers[g] > 0)
      BY <1>3, <1>4, <1>10
    <3>3. QED
      BY <1>6, <3>1, <3>2, Zenon DEF HolderCount
  <2>3. CASE demote
    <3> DEFINE d == CommitDemotion(slot[g])
    <3>1. slot' = [slot EXCEPT ![g] = ReleaseHolder(d)]
      BY <1>1, <1>10, <2>3, Zenon DEF ReleaseBacking
    <3>2. Held(d, 1, LeaseCount(g)) /\ d.st = slot[g].st /\ d.route = slot[g].route
      BY <2>1, Relabelled, Zenon, Zenon
    <3>3. SourceReadable(d)
      BY <1>4, <3>2, Zenon DEF SourceReadable
    <3> HIDE DEF d
    <3>4. Held(ReleaseHolder(d), 0, LeaseCount(g)) /\ ReleaseHolder(d).st # "pending" /\ SourceReadable(ReleaseHolder(d))
      BY <3>2, <3>3, HolderReleased, Zenon
    <3>5. failed' <=> failed
      BY <1>1, <1>2, <1>4, <1>10, <2>1, <2>3, Zenon DEF ReleaseBacking
    <3>6. QED
      BY <1>1, <1>8, <2>2, <3>1, <3>4, <3>5, Zenon
  <2>4. CASE ~demote
    <3>1. slot' = [slot EXCEPT ![g] = ReleaseResident(slot[g])]
      BY <1>1, <1>10, <2>4, Zenon DEF ReleaseBacking
    <3>2. Held(ReleaseResident(slot[g]), 0, LeaseCount(g)) /\ ResidentReleasable(slot[g]) /\ ReleaseResident(slot[g]).st # "pending"
      BY <1>4, <2>1, <1>ResidentReleased, Zenon
    <3>3. failed' <=> failed
      BY <1>1, <1>2, <1>4, <1>10, <2>4, <3>2, Zenon DEF ReleaseBacking
    <3>4. QED
      BY <1>1, <1>8, <2>2, <2>4, <3>1, <3>2, <3>3, Zenon
  <2>5. QED
    BY <2>3, <2>4, Zenon
<1>11. QED
  BY <1>2, <1>9, <1>10, Zenon

\* The master's Commit releases what its record was made from.
LEMMA CommitReleases ==
  ASSUME Order, SlotInv, SlotSource, CommitEnd
  PROVE  /\ SlotInv' /\ (failed' <=> failed)
         /\ \A h \in Gens : h # rec.item.gen => slot'[h] = slot[h]
<1>1. /\ rec.st = "Releasing" /\ rec.item.why = "master" /\ ReleaseBacking(FALSE)
      /\ rec' = [rec EXCEPT !.st = "Committed", !.src = "none"]
      /\ evict' = IF evict.gen = rec.item.gen THEN [evict EXCEPT !.debt = FALSE] ELSE evict
      /\ UNCHANGED ownerGets /\ UNCHANGED <<idx, sel>>
  BY Zenon DEF CommitEnd, ownerGets
<1>2. rec \in Records /\ evict \in Evicts /\ rec'.src = "none" /\ evict'.pc = evict.pc
  BY <1>1, Zenon DEF Order, Knows, Types, OwnerTypes, Records, Evicts
<1>3. evict.pc \notin {"commit", "release"}
  BY <1>1, MastersRecord, Zenon DEF Order
<1>4. rec.src = "slot" => SourceReadable(slot[rec.item.gen])
  <2>1. rec.item = fence
    BY <1>1, Zenon DEF Order, Knows, ProtocolInv, ReleaseHeld
  <2>2. QED
    BY <1>1, <2>1, Zenon DEF SlotSource, Committing
<1>5. QED
  BY <1>1, <1>2, <1>3, <1>4, BackingReleased, Zenon, Zenon

\* So does the eviction's own.
LEMMA EvictReleases ==
  ASSUME Order, SlotInv, EvictRelease
  PROVE  /\ SlotInv' /\ (failed' <=> failed)
         /\ rec.item.gen = evict.gen /\ rec.src = "index"
         /\ \A h \in Gens : h # rec.item.gen => slot'[h] = slot[h]
         /\ evict.out = "DemotedGlobal" => SourceReadable(slot'[rec.item.gen])
<1> DEFINE demote == evict.out = "DemotedGlobal"
<1>1. /\ evict.pc = "release" /\ ReleaseBacking(demote)
      /\ rec' = [rec EXCEPT !.st = "Committed", !.src = "none"]
      /\ evict' = [evict EXCEPT !.pc = "finalize"]
      /\ UNCHANGED ownerGets /\ UNCHANGED <<idx, sel>>
  BY Zenon DEF EvictRelease, ownerGets, masterVars
<1>2. rec \in Records /\ evict \in Evicts /\ rec'.src = "none" /\ evict'.pc = "finalize"
  BY <1>1, Zenon DEF Order, Knows, Types, OwnerTypes, Records, Evicts
<1>3. rec.st = "Releasing" /\ rec.item.why = "owner" /\ rec.item = EvictItem(evict.gen, op)
  BY <1>1, Zenon DEF Order, Knows, ProtocolInv, LocalReclaim, LocalInv, EvictRec
<1>4. rec.item.gen = evict.gen /\ rec.src = "index"
  BY <1>2, <1>3 DEF EvictItem, Order, LocalInv, RecShape, Records
<1>5. demote => DemotionValid(slot[rec.item.gen])
  BY <1>1, <1>4, Zenon DEF SlotInv, DemotionHolds
<1>6. demote \in BOOLEAN
  BY Zenon
<1> HIDE DEF demote
<1>7. /\ SlotInv' /\ (failed' <=> failed)
      /\ \A h \in Gens : h # rec.item.gen => slot'[h] = slot[h]
      /\ demote => SourceReadable(slot'[rec.item.gen])
  BY <1>1, <1>2, <1>3, <1>4, <1>5, <1>6, BackingReleased, Zenon
<1>8. QED
  BY <1>4, <1>7, Zenon DEF demote

\* A step that leaves every slot as it is.
LEMMA SameSlots == ASSUME SlotInv, UNCHANGED slot PROVE Relabels
BY Zenon DEF Relabels, SlotInv, SlotsHeld

\* A reservation of one slot comes or goes.
LEMMA ReservationMoves ==
  ASSUME Order, SlotInv, NEW g \in Gens,
         \/ slot' = [slot EXCEPT ![g] = DropReservation(slot[g])]
         \/ slot[g].st = "committed" /\ slot' = [slot EXCEPT ![g] = ReserveDemotion(slot[g])]
  PROVE  Relabels
<1>1. slot \in [Gens -> Slot] /\ SlotsHeld /\ readers \in [Gens -> Nat]
  BY SlotGens, Zenon DEF SlotInv, SlotsHeld
<1>2. slot'[g] = DropReservation(slot[g]) \/ (slot[g].st = "committed" /\ slot'[g] = ReserveDemotion(slot[g]))
  BY <1>1, Zenon
<1>3. \A h \in Gens : h # g => slot'[h] = slot[h]
  BY <1>1, Zenon
<1>4. ASSUME NEW h, NEW l, Held(slot[g], h, l)
      PROVE  Held(slot'[g], h, l) /\ slot'[g].st = slot[g].st /\ slot'[g].route = slot[g].route
             /\ slot'[g].scope = slot[g].scope
  <2>1. /\ Held(DropReservation(slot[g]), h, l) /\ DropReservation(slot[g]).st = slot[g].st
        /\ DropReservation(slot[g]).route = slot[g].route /\ DropReservation(slot[g]).scope = slot[g].scope
    BY <1>4, Relabelled, Zenon
  <2>2. slot[g].st = "committed" =>
          /\ Held(ReserveDemotion(slot[g]), h, l) /\ ReserveDemotion(slot[g]).st = slot[g].st
          /\ ReserveDemotion(slot[g]).route = slot[g].route /\ ReserveDemotion(slot[g]).scope = slot[g].scope
    BY <1>4, Relabelled, Zenon
  <2>3. QED
    BY <1>2, <2>1, <2>2, Zenon
<1>5. slot'[g] \in Slot
  BY <1>1, <1>4, AtSlot, Zenon DEF Held
<1>6. slot' \in [Gens -> Slot]
  BY <1>1, <1>5, Zenon
<1>7. QED
  BY <1>3, <1>4, <1>6, Zenon DEF Relabels

\* The references of the slots follow every step.
LEMMA StepSlots == Order /\ SlotInv /\ SlotSource /\ [Next]_vars => SlotInv'
\* The lease of a remote read.
<1>RemoteGetSlots. Order /\ SlotInv /\ RemoteGet => SlotInv'
  \* A remote read's lease comes and goes.
  <2>SourceLeased. ASSUME NEW s, NEW h
                   PROVE  /\ Held(s, h, 0) /\ SourceReadable(s) =>
                               /\ Held(AcquireSource(s), h, 1) /\ SourceReadable(AcquireSource(s))
                               /\ AcquireSource(s).scope = s.scope /\ AcquireSource(s).resv = s.resv
                          /\ Held(s, h, 1) =>
                               /\ Held(ReleaseSource(s), h, 0) /\ ReleaseSource(s).st # "pending"
                               /\ SourceReadable(s) => /\ SourceReadable(ReleaseSource(s))
                                                       /\ ReleaseSource(s).scope = s.scope /\ ReleaseSource(s).resv = s.resv
    <3> USE <2>SourceLeased
    <3>1. ASSUME Held(s, h, 0), SourceReadable(s)
          PROVE  /\ Held(AcquireSource(s), h, 1) /\ SourceReadable(AcquireSource(s))
                 /\ AcquireSource(s).scope = s.scope /\ AcquireSource(s).resv = s.resv
      <4> DEFINE t == [s EXCEPT !.leases = @ + 1]
      <4>1. s \in Slot /\ s.holders = h /\ s.leases = 0 /\ s.st = "committed" /\ s.route
        BY <3>1, Zenon DEF Held, SourceReadable
      <4>2. /\ t \in Slot /\ t.st = "committed" /\ t.holders = h /\ t.leases = 1 /\ t.route = s.route
            /\ t.scope = s.scope /\ t.resv = s.resv
        <5>1. 1 \in Nat /\ s.leases + 1 = 1
          BY <4>1
        <5>2. QED
          BY <4>1, <5>1, Zenon DEF Slot
      <4>3. AcquireSource(s) = t
        BY Zenon DEF AcquireSource
      <4> HIDE DEF t
      <4>4. QED
        BY <4>1, <4>2, <4>3, Zenon, Zenon DEF Held, SourceReadable, Unreferenced
    <3>2. ASSUME Held(s, h, 1)
          PROVE  /\ Held(ReleaseSource(s), h, 0) /\ ReleaseSource(s).st # "pending"
                 /\ SourceReadable(s) => /\ SourceReadable(ReleaseSource(s))
                                         /\ ReleaseSource(s).scope = s.scope /\ ReleaseSource(s).resv = s.resv
      <4> DEFINE t == [s EXCEPT !.leases = @ - 1]
      <4>1. s \in Slot /\ s.holders = h /\ s.leases = 1 /\ s.st = "committed"
        BY <3>2, HeldFree DEF Held
      <4>2. /\ t \in Slot /\ t.st = "committed" /\ t.holders = h /\ t.leases = 0 /\ t.route = s.route
            /\ t.scope = s.scope /\ t.resv = s.resv
        BY <4>1 DEF Slot
      <4>3. ReleaseSource(s) = FreeIfUnreferenced(t)
        BY Zenon DEF ReleaseSource
      <4> HIDE DEF t
      <4>4. QED
        BY <4>1, <4>2, <4>3, FreeHeld DEF SourceReadable
    <3>3. QED
      BY <3>1, <3>2, Zenon
  <2> SUFFICES ASSUME Order, SlotInv, RemoteGet PROVE SlotInv'
    BY Zenon
  <2>0. /\ UNCHANGED <<nextGen, idx, sel, rec, pend, readers, lput, evict, lget>> /\ nextGen \in Nat /\ nextGen <= nextGen
        /\ slot \in [Gens -> Slot]
    <3>1. UNCHANGED <<nextGen, idx, sel, rec, pend, readers, lput, evict, lget>>
      BY Zenon DEF RemoteGet, RemoteGetPlan, RemoteGetAcquire, RemoteGetDone, RemoteGetExpire, localVars, evictVars
    <3>2. nextGen \in Nat /\ slot \in [Gens -> Slot]
      BY SlotGens, Zenon DEF SlotInv, SlotsHeld
    <3>3. QED
      BY <3>1, <3>2
  <2>1. ASSUME slot' = slot, \A g : Leased(g)' <=> Leased(g) PROVE SlotInv'
    <3>1. HiddenGet' <=> HiddenGet
      BY <2>0, Zenon DEF HiddenGet
    <3>2. QED
      BY <2>0, <2>1, <3>1, SlotFrame, Zenon
  <2>2. ASSUME NEW g \in Gens, g <= nextGen, slot' = [slot EXCEPT ![g] = slot'[g]], StaysAs(g),
               Held(slot'[g], HolderCount(g), LeaseCount(g)'), slot'[g].st # "pending", slot[g].st # "pending",
               \A h \in Gens : h # g => (Leased(h)' <=> Leased(h))
        PROVE  SlotInv'
    <3>1. ASSUME NEW h \in Gens PROVE Arc(h)' <=> Arc(h)
      BY <2>0, Zenon DEF Arc, RecArc, HiddenGet
    <3>2. HolderCount(g)' = HolderCount(g)
      BY <2>0, <3>1, Zenon DEF HolderCount
    <3>3. Settled(g)
      <4>1. lput.gen # g
        BY <2>2, Zenon DEF SlotInv, SlotsHeld
      <4>2. QED
        BY <2>0, <2>2, <3>2, <4>1, Zenon DEF Settled
    <3>4. \A h \in Gens : h # g => slot'[h] = slot[h]
      BY <2>0, <2>2, Zenon
    <3>5. \A h \in Gens : h # g => Unmoved(h)
      BY <2>0, <2>2, <3>1, <3>4, Zenon DEF Unmoved
    <3>6. slot' \in [Gens -> Slot]
      <4>1. slot'[g] \in Slot
        BY <2>2, Zenon DEF Held
      <4>2. QED
        BY <2>0, <2>2, <4>1, Zenon
    <3>7. SlotsHeld'
      BY <2>0, <3>3, <3>5, <3>6, HeldStep, Zenon DEF SlotInv
    <3>8. \A h \in Gens : StaysAs(h)
      BY <2>2, <3>4, Zenon DEF StaysAs
    <3>9. ArcsApart' /\ RoutedArcs' /\ DemotionHolds'
      <4>1. (HiddenGet' => HiddenGet /\ lget'.gen = lget.gen) /\ (pend' # 0 => HiddenGet')
        BY <2>0, Zenon DEF HiddenGet, SlotInv, RoutedArcs
      <4>2. rec.src = "index" => readers'[rec.item.gen] = 0
        BY <2>0, Zenon DEF SlotInv, RoutedArcs
      <4>3. QED
        BY <2>0, <3>8, <4>1, <4>2, KeptSlots, Zenon
    <3>10. QED
      BY <3>7, <3>9, Zenon DEF SlotInv
  <2>3. CASE RemoteGetPlan \/ RemoteGetExpire
    <3>1. rget \in RGets
      BY Zenon DEF Order, Knows, CountTypes
    <3>2. slot' = slot /\ (rget'.gen = rget.gen \/ (rget'.pc # "leased" /\ rget.pc # "leased"))
      BY <2>3, <3>1 DEF RemoteGetPlan, RemoteGetExpire, RGets, NoRGet
    <3>3. rget'.pc = rget.pc \/ (rget'.pc # "leased" /\ rget.pc # "leased")
      BY <2>3, <3>1 DEF RemoteGetPlan, RemoteGetExpire, RGets, NoRGet
    <3>4. QED
      BY <2>1, <3>2, <3>3, Zenon DEF Leased
  <2>4. CASE RemoteGetAcquire
    <3>1. /\ rget.pc = "planned" /\ \A h : ~Leased(h)
      BY <2>4, Zenon DEF RemoteGetAcquire, Leased
    <3>2. CASE ~SourceReadable(slot[rget.gen])
      <4>1. slot' = slot /\ rget' = NoRGet /\ NoRGet.pc = "idle"
        BY <2>4, <3>2, Zenon DEF RemoteGetAcquire, NoRGet
      <4>2. QED
        BY <2>1, <3>1, <4>1, Zenon DEF Leased
    <3>3. CASE SourceReadable(slot[rget.gen])
      <4>0. PICK g : g = rget.gen
        BY Zenon
      <4>1. g \in Gens /\ g <= nextGen
        BY <3>1, <4>0, SlotGens, Zenon DEF Known
      <4>2. slot' = [slot EXCEPT ![g] = AcquireSource(slot[g])] /\ rget' = [rget EXCEPT !.pc = "leased"]
        BY <2>4, <3>3, <4>0, Zenon DEF RemoteGetAcquire
      <4>3. rget'.pc = "leased" /\ rget'.gen = g
        BY <4>0, <4>2, Zenon DEF Order, Knows, CountTypes, RGets
      <4>4. Held(slot[g], HolderCount(g), 0)
        <5>1. LeaseCount(g) = 0
          BY <3>1, Zenon DEF LeaseCount
        <5>2. QED
          BY <4>1, <5>1, Zenon DEF SlotInv, SlotsHeld
      <4>5. slot'[g] = AcquireSource(slot[g])
        BY <2>0, <4>1, <4>2, Zenon
      <4>6. /\ Held(slot'[g], HolderCount(g), 1) /\ SourceReadable(slot'[g])
            /\ slot'[g].scope = slot[g].scope /\ slot'[g].resv = slot[g].resv
        BY <3>3, <4>0, <4>4, <4>5, <2>SourceLeased, Zenon
      <4>7. LeaseCount(g)' = 1
        BY <4>3, Zenon DEF LeaseCount, Leased
      <4>8. \A h \in Gens : h # g => (Leased(h)' <=> Leased(h))
        BY <3>1, <4>3, Zenon DEF Leased
      <4>9. StaysAs(g) /\ slot[g].st # "pending" /\ slot'[g].st # "pending"
        BY <3>3, <4>0, <4>6, Zenon DEF StaysAs, SourceReadable
      <4>10. QED
        BY <2>2, <4>1, <4>2, <4>5, <4>6, <4>7, <4>8, <4>9, Zenon
    <3>4. QED
      BY <3>2, <3>3, Zenon
  <2>5. CASE RemoteGetDone
    <3>0. PICK g : g = rget.gen
      BY Zenon
    <3>1. rget.pc = "leased" /\ slot' = [slot EXCEPT ![g] = ReleaseSource(slot[g])] /\ rget'.pc = "idle"
      BY <2>5, <3>0, Zenon DEF RemoteGetDone, NoRGet
    <3>2. g \in Gens /\ g <= nextGen
      BY <3>0, <3>1, SlotGens, Zenon DEF Known
    <3>3. Held(slot[g], HolderCount(g), 1)
      <4>1. LeaseCount(g) = 1
        BY <3>0, <3>1, Zenon DEF LeaseCount, Leased
      <4>2. QED
        BY <3>2, <4>1, Zenon DEF SlotInv, SlotsHeld
    <3>4. slot'[g] = ReleaseSource(slot[g])
      BY <2>0, <3>1, <3>2, Zenon
    <3>5. Held(slot'[g], HolderCount(g), 0) /\ slot'[g].st # "pending" /\ StaysAs(g)
      BY <3>3, <3>4, <2>SourceLeased, Zenon DEF StaysAs
    <3>6. slot[g].st # "pending"
      BY <3>3 DEF Held
    <3>7. \A h \in Gens : h # g => (Leased(h)' <=> Leased(h))
      BY <3>0, <3>1, Zenon DEF Leased
    <3>8. LeaseCount(g)' = 0
      BY <3>1, Zenon DEF LeaseCount, Leased
    <3>9. QED
      BY <2>2, <3>1, <3>2, <3>4, <3>5, <3>6, <3>7, <3>8, Zenon
  <2>6. QED
    BY <2>3, <2>4, <2>5, Zenon DEF RemoteGet
\* Readers come and go.
<1>ReadSlots. Order /\ SlotInv /\ Read => SlotInv'
  <2> SUFFICES ASSUME Order, SlotInv, Read PROVE SlotInv'
    BY Zenon
  <2>0. /\ UNCHANGED <<nextGen, idx, sel, rec, pend, lput, evict, lget, rget>> /\ nextGen \in Nat
        /\ slot \in [Gens -> Slot] /\ SlotsHeld
    BY SlotGens, Zenon DEF Read, ReadStart, ReadEnd, masterVars, evictVars, SlotInv, SlotsHeld
  <2>1. ASSUME NEW h PROVE Arc(h)' <=> Arc(h)
    BY <2>0, Zenon DEF Arc, RecArc, HiddenGet
  <2>2. ASSUME NEW g \in Gens, slot' = [slot EXCEPT ![g] = slot'[g]], Settled(g), StaysAs(g),
               \A h \in Gens : h # g => readers'[h] = readers[h],
               rec.src = "index" => rec.item.gen # g
        PROVE  SlotInv'
    <3>1. SlotsHeld' /\ \A h \in Gens : h # g => slot'[h] = slot[h]
      BY <2>0, <2>1, <2>2, OneSlot, Zenon
    <3>2. \A h \in Gens : StaysAs(h)
      BY <2>2, <3>1, Zenon DEF StaysAs
    <3>3. (HiddenGet' => HiddenGet /\ lget'.gen = lget.gen) /\ (pend' # 0 => HiddenGet')
      BY <2>0, Zenon DEF HiddenGet, SlotInv, RoutedArcs
    <3>4. rec.src = "index" => readers'[rec.item.gen] = 0
      <4>1. rec.src = "index" => rec.item.gen \in Gens /\ readers[rec.item.gen] = 0
        BY SlotGens, Zenon DEF SlotInv, RoutedArcs, Known
      <4>2. QED
        BY <2>2, <4>1, Zenon
    <3>5. ArcsApart' /\ RoutedArcs' /\ DemotionHolds'
      BY <2>0, <3>2, <3>3, <3>4, KeptSlots, Zenon
    <3>6. QED
      BY <3>1, <3>5, Zenon DEF SlotInv
  <2>3. CASE ReadStart
    <3>0. PICK g : g = idx
      BY Zenon
    <3>1. /\ g # 0 /\ g \in Gens /\ g <= nextGen /\ rec = NoRec /\ slot' = slot
          /\ readers' = [readers EXCEPT ![g] = readers[g] + 1] /\ readers \in [Gens -> Nat]
      BY <2>3, <3>0, SlotGens, Zenon DEF ReadStart, Fenced, Known
    <3>2. rec.src # "index"
      BY <3>1, Zenon DEF NoRec
    <3>3. Arc(g) /\ lput.gen # g /\ HolderCount(g)' = 1 /\ HolderCount(g) = 1
      <4>1. Arc(g) /\ lput.gen # g
        BY <3>0, <3>1, Zenon DEF Arc, SlotInv, ArcsApart
      <4>2. QED
        BY <2>1, <4>1, Zenon DEF HolderCount
    <3>4. Settled(g)
      <4>1. Held(slot[g], 1, LeaseCount(g)) /\ slot[g].st # "pending" /\ LeaseCount(g)' = LeaseCount(g)
        BY <2>0, <3>1, <3>3, AtSlot, Zenon DEF LeaseCount, Leased
      <4>2. QED
        BY <2>0, <3>1, <3>3, <4>1, Zenon DEF Settled
    <3>5. slot' = [slot EXCEPT ![g] = slot'[g]] /\ StaysAs(g) /\ (\A h \in Gens : h # g => readers'[h] = readers[h])
      BY <2>0, <3>1, Zenon DEF StaysAs
    <3>6. QED
      BY <2>2, <3>1, <3>2, <3>4, <3>5, Zenon
  <2>4. ASSUME NEW g \in Gens, ReadEnd(g) PROVE SlotInv'
    <3>1. /\ readers[g] > 0 /\ readers' = [readers EXCEPT ![g] = readers[g] - 1] /\ readers \in [Gens -> Nat]
      BY <2>4, SlotGens, Zenon DEF ReadEnd
    <3>2. /\ readers[g] # 0 /\ readers'[g] = readers[g] - 1 /\ (readers[g] = 1 <=> readers'[g] = 0)
          /\ readers'[g] > 0 <=> readers'[g] # 0
          /\ \A h \in Gens : h # g => readers'[h] = readers[h]
      BY <3>1
    <3>3. /\ HolderCount(g) = 1 /\ Held(slot[g], 1, LeaseCount(g)) /\ lput.gen # g /\ slot[g].st # "pending"
          /\ ~(g > nextGen)
      BY <2>0, <3>1, <3>2, AtSlot, Zenon
    <3>4. g <= nextGen /\ LeaseCount(g)' = LeaseCount(g)
      BY <2>0, <3>3, BoundAssumption DEF Gens, LeaseCount, Leased
    <3>5. /\ rec.src = "index" => rec.item.gen # g
          /\ ~OwnArc(g) => ~Arc(g)
      <4>1. rec.src = "index" => rec.item.gen # g
        <5>1. rec.src = "index" => readers[rec.item.gen] = 0
          BY Zenon DEF SlotInv, RoutedArcs
        <5>2. QED
          BY <3>2, <5>1
      <4>2. QED
        BY <4>1, Zenon DEF OwnArc, Arc, RecArc, HiddenGet
    <3>6. CASE readers[g] = 1 /\ ~OwnArc(g)
      <4>1. slot' = [slot EXCEPT ![g] = ReleaseHolder(slot[g])]
        BY <2>4, <3>6, Zenon DEF ReadEnd
      <4>2. slot'[g] = ReleaseHolder(slot[g]) /\ slot' = [slot EXCEPT ![g] = slot'[g]]
        BY <2>0, <4>1, Zenon
      <4>3. Held(slot'[g], 0, LeaseCount(g)) /\ slot'[g].st # "pending" /\ StaysAs(g)
        <5>1. /\ Held(slot'[g], 0, LeaseCount(g)) /\ slot'[g].st # "pending"
              /\ SourceReadable(slot[g]) => /\ SourceReadable(slot'[g]) /\ slot'[g].scope = slot[g].scope
                                            /\ slot'[g].resv = slot[g].resv
          BY <3>3, <4>2, HolderReleased
        <5>2. QED
          BY <5>1, Zenon DEF StaysAs
      <4>4. HolderCount(g)' = 0
        BY <2>1, <3>2, <3>5, <3>6, Zenon DEF HolderCount
      <4>5. Settled(g)
        BY <2>0, <3>3, <3>4, <4>3, <4>4, Zenon DEF Settled
      <4>6. QED
        BY <2>2, <3>2, <3>5, <4>2, <4>3, <4>5, Zenon
    <3>7. CASE ~(readers[g] = 1 /\ ~OwnArc(g))
      <4>1. slot' = slot
        BY <2>4, <3>7, Zenon DEF ReadEnd
      <4>2. HolderCount(g)' = 1
        <5>1. OwnArc(g) => Arc(g)
          BY Zenon DEF OwnArc, Arc, RecArc, HiddenGet
        <5>2. QED
          BY <2>1, <3>2, <3>7, <5>1, Zenon DEF HolderCount
      <4>3. Settled(g)
        BY <2>0, <3>3, <3>4, <4>1, <4>2, Zenon DEF Settled
      <4>4. slot' = [slot EXCEPT ![g] = slot'[g]] /\ StaysAs(g)
        BY <2>0, <4>1, Zenon DEF StaysAs
      <4>5. QED
        BY <2>2, <3>2, <3>5, <4>3, <4>4, Zenon
    <3>8. QED
      BY <3>6, <3>7, Zenon
  <2>5. QED
    BY <2>3, <2>4, Zenon DEF Read
\* The other steps of the owner's get.
<1>OwnerGetSlots. Order /\ SlotInv /\ OwnerGet => SlotInv'
  \* The hidden target of a get: its slot is route-only, and nobody else has an Arc.
  <2>InstallSlots. ASSUME Order, SlotInv, OwnerGetInstall, lget' # NoLGet
                   PROVE  SlotInv'
    <3> USE <2>InstallSlots
    \* A hidden get retains a slot that only its route keeps.
    <3>HolderRetained. ASSUME NEW s, NEW h, NEW l, Held(s, h, l), RouteOnly(s)
                       PROVE  /\ h = 0 /\ Held(RetainHolder(s), 1, l) /\ SourceReadable(RetainHolder(s))
                              /\ RetainHolder(s).scope = s.scope /\ RetainHolder(s).resv = s.resv
      <4> USE <3>HolderRetained
      <4> DEFINE t == [s EXCEPT !.holders = @ + 1]
      <4>1. s \in Slot /\ s.holders = 0 /\ h = 0 /\ s.leases = l /\ s.st = "committed" /\ s.route
        BY Zenon DEF Held, RouteOnly
      <4>2. /\ t \in Slot /\ t.st = "committed" /\ t.holders = 1 /\ t.leases = l /\ t.route = s.route
            /\ t.scope = s.scope /\ t.resv = s.resv
        <5>1. 1 \in Nat /\ s.holders + 1 = 1
          BY <4>1
        <5>2. QED
          BY <4>1, <5>1, Zenon DEF Slot
      <4>3. RetainHolder(s) = t
        BY Zenon DEF RetainHolder
      <4> HIDE DEF t
      <4>4. QED
        BY <4>1, <4>2, <4>3, Zenon, Zenon DEF Held, SourceReadable, Unreferenced
    <3>0. PICK g : g = lget.gen
      BY Zenon
    <3>1. /\ lget.pc = "planned" /\ ~Fenced /\ RouteOnly(slot[g]) /\ slot[g].scope = "GlobalShared"
          /\ slot' = [slot EXCEPT ![g] = RetainHolder(slot[g])] /\ pend' = g
          /\ readers' = [readers EXCEPT ![g] = readers[g] + 1]
          /\ lget' = [lget EXCEPT !.pc = "hidden", !.guard = lput = NoPut]
          /\ UNCHANGED <<nextGen, idx, sel, rec, lput, evict, rget>>
      BY <3>0, Zenon DEF OwnerGetInstall, evictVars
    <3>2. g \in Gens /\ g <= nextGen /\ g # 0 /\ readers \in [Gens -> Nat] /\ slot \in [Gens -> Slot] /\ SlotsHeld
      BY <3>0, <3>1, SlotGens, Zenon DEF Known, SlotInv, SlotsHeld
    <3>3. lget'.pc = "hidden" /\ lget'.gen = g /\ HiddenGet' /\ ~HiddenGet
      BY <3>0, <3>1, Zenon DEF HiddenGet, Order, Knows, Types, OwnerTypes, Gets
    <3>4. Held(slot[g], HolderCount(g), LeaseCount(g))
      BY <3>2, AtSlot, Zenon
    <3>5. /\ HolderCount(g) = 0 /\ Held(RetainHolder(slot[g]), 1, LeaseCount(g)) /\ SourceReadable(RetainHolder(slot[g]))
          /\ RetainHolder(slot[g]).scope = slot[g].scope /\ RetainHolder(slot[g]).resv = slot[g].resv
      BY <3>1, <3>4, <3>HolderRetained, Zenon
    <3>6. ~Arc(g) /\ readers[g] = 0
      <4>1. HolderCount(g) # 1
        BY <3>5
      <4>2. QED
        BY <3>2, <4>1, AtSlot, Zenon
    <3>7. slot'[g] = RetainHolder(slot[g]) /\ slot' = [slot EXCEPT ![g] = slot'[g]]
      BY <3>1, <3>2, Zenon
    <3>8. HolderCount(g)' = 1 /\ LeaseCount(g)' = LeaseCount(g)
      BY <3>1, <3>3, Zenon DEF HolderCount, LeaseCount, Arc, Leased
    <3>9. Settled(g) /\ StaysAs(g)
      <4>1. lput.gen # g
        BY <3>6, Zenon DEF Arc
      <4>2. slot'[g].st # "pending"
        BY <3>5, <3>7, Zenon DEF SourceReadable
      <4>3. QED
        BY <3>1, <3>2, <3>5, <3>7, <3>8, <4>1, <4>2, Zenon DEF Settled, StaysAs
    <3>10. ASSUME NEW h \in Gens, h # g
           PROVE  (Arc(h)' <=> Arc(h)) /\ readers'[h] = readers[h] /\ (lput'.gen = h <=> lput.gen = h)
      BY <3>1, <3>2, <3>3, <3>10, Zenon DEF Arc, RecArc
    <3>11. SlotsHeld' /\ \A h \in Gens : h # g => slot'[h] = slot[h]
      BY <3>1, <3>2, <3>7, <3>9, <3>10, OneSlot, Zenon
    <3>12. sel = 0 /\ rec.src = "none" /\ evict.pc \notin {"commit", "release"}
      BY <3>1, Unfenced, Zenon
    <3>13. ArcsApart'
      BY <3>1, <3>3, <3>6, <3>12, Zenon DEF ArcsApart, Arc, RecArc, SlotInv
    <3>14. RoutedArcs'
      <4>1. \A h \in Gens : StaysAs(h)
        BY <3>9, <3>11, Zenon DEF StaysAs
      <4>2. idx' # 0 => SourceReadable(slot'[idx'])
        BY <3>1, <4>1, SlotGens, Zenon DEF SlotInv, RoutedArcs, StaysAs, Known
      <4>3. SourceReadable(slot'[g]) /\ slot'[g].scope = "GlobalShared"
        BY <3>1, <3>5, <3>7, Zenon
      <4>4. QED
        BY <3>1, <3>3, <3>12, <4>2, <4>3, Zenon DEF RoutedArcs
    <3>15. DemotionHolds'
      BY <3>1, <3>12, Zenon DEF DemotionHolds
    <3>16. QED
      BY <3>11, <3>13, <3>14, <3>15, Zenon DEF SlotInv
  <2> SUFFICES ASSUME Order, SlotInv, OwnerGet PROVE SlotInv'
    BY Zenon
  <2>0. /\ lget \in Gets /\ nextGen \in Nat /\ nextGen <= nextGen /\ NoLGet.pc = "idle"
        /\ UNCHANGED <<nextGen, sel, rec, lput, evict, rget>>
    <3>1. nextGen \in Nat /\ lget \in Gets
      BY SlotGens, Zenon DEF Order, Knows, Types, OwnerTypes
    <3>2. NoLGet.pc = "idle" /\ nextGen <= nextGen
      BY <3>1 DEF NoLGet
    <3>3. UNCHANGED <<nextGen, sel, rec, lput, evict, rget>>
      BY Zenon DEF OwnerGet, OwnerGetPlan, OwnerGetExpire, OwnerGetInstall, OwnerGetDone, OwnerGetPromote, OwnerGetAbort,
         masterVars, localVars, evictVars
    <3>4. QED
      BY <3>1, <3>2, <3>3, Zenon
  <2>1. ASSUME UNCHANGED <<slot, idx, pend, readers>>, HiddenGet' <=> HiddenGet, HiddenGet => lget'.gen = lget.gen
        PROVE  SlotInv'
    <3>1. \A g \in Gens : Leased(g)' <=> Leased(g)
      BY <2>0, Zenon DEF Leased
    <3>2. QED
      BY <2>0, <2>1, <3>1, SlotFrame, Zenon
  <2>2. ASSUME NEW ext \in BOOLEAN, OwnerGetPlan(ext) PROVE SlotInv'
    <3>1. UNCHANGED <<slot, idx, pend, readers>> /\ lget = NoLGet /\ lget'.pc = "planned"
      BY <2>2, Zenon DEF OwnerGetPlan, localVars
    <3>2. QED
      BY <2>0, <2>1, <3>1, Zenon DEF HiddenGet
  <2>3. CASE OwnerGetExpire
    <3>1. UNCHANGED <<slot, idx, pend, readers>> /\ lget'.pc = lget.pc /\ lget'.gen = lget.gen
      BY <2>0, <2>3, Zenon DEF OwnerGetExpire, localVars, Gets
    <3>2. QED
      BY <2>1, <3>1, Zenon DEF HiddenGet
  <2>4. CASE OwnerGetInstall
    <3>1. CASE lget' = NoLGet
      <4>1. lget.pc = "planned" /\ UNCHANGED <<slot, idx, pend, readers>>
        <5>1. [lget EXCEPT !.pc = "hidden", !.guard = lput = NoPut].pc = "hidden"
          BY <2>0, Zenon DEF Gets
        <5>2. QED
          BY <2>0, <2>4, <3>1, <5>1, Zenon DEF OwnerGetInstall
      <4>2. QED
        BY <2>0, <2>1, <3>1, <4>1, Zenon DEF HiddenGet
    <3>2. QED
      BY <2>4, <3>1, <2>InstallSlots, Zenon
  <2>5. CASE OwnerGetDone
    <3>1. /\ UNCHANGED <<slot, idx, pend, readers>> /\ lget'.pc \in {"accepted", "rejected"} /\ lget'.gen = lget.gen
          /\ lget.pc = "hidden"
      BY <2>0, <2>5, Zenon DEF OwnerGetDone, localVars, Gets
    <3>2. QED
      BY <2>1, <3>1, Zenon DEF HiddenGet
  <2>6. ASSUME lget.pc \in {"accepted", "rejected"}, lget' = NoLGet, slot' = DropArc(slot, lget.gen), pend' = 0,
               UNCHANGED <<idx, readers>>
        PROVE  SlotInv'
    <3>1. PICK g : g = lget.gen
      BY Zenon
    <3>2. g \in Gens /\ g <= nextGen /\ HiddenGet /\ ~HiddenGet'
      BY <2>0, <2>6, <3>1, SlotGens, Zenon DEF Known, HiddenGet
    <3>3. Arc(g) /\ ~Arc(g)' /\ lput.gen # g
      BY <2>0, <2>6, <3>1, <3>2, Zenon DEF Arc, RecArc, SlotInv, ArcsApart
    <3>4. ASSUME NEW h \in Gens, h # g PROVE Arc(h)' <=> Arc(h)
      BY <2>0, <2>6, <3>1, <3>2, <3>4, Zenon DEF Arc, RecArc
    <3>5. QED
      BY <2>0, <2>6, <3>1, <3>2, <3>3, <3>4, ArcDropped, Zenon
  <2>7. CASE OwnerGetPromote
    <3>1. /\ lget.pc = "accepted" /\ lget' = NoLGet /\ UNCHANGED readers
          /\ HiddenGet /\ ~HiddenGet' /\ (pend # 0 => pend = lget.gen) /\ lget.gen # 0
      BY <2>0, <2>7, SlotGens, Zenon DEF OwnerGetPromote, HiddenGet, SlotInv, RoutedArcs
    <3>2. CASE pend # lget.gen
      <4>1. slot' = DropArc(slot, lget.gen) /\ UNCHANGED <<idx, pend>> /\ pend = 0
        BY <2>7, <3>1, <3>2, Zenon DEF OwnerGetPromote
      <4>2. QED
        BY <2>6, <3>1, <4>1, Zenon
    <3>3. CASE pend = lget.gen
      <4>0. PICK g : g = lget.gen
        BY Zenon
      <4> DEFINE t == [slot[g] EXCEPT !.scope = "LocalExclusive"]
      <4>1. ~Fenced /\ slot' = ReplaceIndexed([slot EXCEPT ![g] = t]) /\ idx' = g /\ pend' = 0
        BY <2>7, <3>3, <4>0, Zenon DEF OwnerGetPromote
      <4>2. g \in Gens /\ g <= nextGen /\ g # idx /\ g # lput.gen /\ Arc(g) /\ SourceReadable(slot[g])
        BY <3>1, <3>3, <4>0, SlotGens, Zenon DEF Known, SlotInv, ArcsApart, RoutedArcs, Arc
      <4>3. Held(slot[g], 1, LeaseCount(g)) /\ slot[g].st = "committed" /\ slot[g].route
        BY <4>2, AtSlot, SlotGens, Zenon DEF SlotInv, SourceReadable
      <4>4. Held(t, 1, LeaseCount(g)) /\ t.st = slot[g].st /\ t.route = slot[g].route
        BY <4>3, Relabelled, Zenon
      <4>5. SourceReadable(t)
        BY <4>3, <4>4, Zenon DEF SourceReadable
      <4> HIDE DEF t
      <4>6. lput'.gen = lput.gen /\ (HiddenGet /\ lget.gen # g => HiddenGet')
        BY <2>0, <4>0, Zenon
      <4>7. QED
        BY <2>0, <3>1, <4>1, <4>2, <4>4, <4>5, <4>6, Reindexed, Zenon
    <3>4. QED
      BY <3>2, <3>3, Zenon
  <2>8. CASE OwnerGetAbort
    <3>1. /\ lget.pc = "rejected" /\ lget' = NoLGet /\ UNCHANGED <<idx, readers>> /\ slot' = DropArc(slot, lget.gen)
          /\ (pend # 0 => pend = lget.gen) /\ pend' = IF pend = lget.gen THEN 0 ELSE pend
      BY <2>8, Zenon DEF OwnerGetAbort, SlotInv, RoutedArcs
    <3>2. pend' = 0
      BY <3>1, Zenon
    <3>3. QED
      BY <2>6, <3>1, <3>2, Zenon
  <2>9. QED
    BY <2>2, <2>3, <2>4, <2>5, <2>7, <2>8, Zenon DEF OwnerGet
<1>PutSlots. Order /\ SlotInv /\ (Put \/ MasterDelete) => SlotInv'
  <2>PendingPromoted. ASSUME NEW s, NEW l, Held(s, 1, l), s.st = "pending"
                      PROVE  Held(PromotePending(s), 1, l) /\ SourceReadable(PromotePending(s))
    <3> USE <2>PendingPromoted
    <3> DEFINE t == [s EXCEPT !.st = "committed", !.route = TRUE, !.scope = "LocalExclusive"]
    <3>1. s \in Slot /\ s.holders = 1 /\ s.leases = l
      BY Zenon DEF Held
    <3>2. /\ t \in Slot /\ t.st = "committed" /\ t.holders = 1 /\ t.leases = l /\ t.route = TRUE
      BY <3>1, Zenon DEF Slot, SlotStates, Scopes
    <3>3. PromotePending(s) = t
      BY Zenon DEF PromotePending
    <3> HIDE DEF t
    <3>4. QED
      BY <3>1, <3>2, <3>3, Zenon DEF Held, SourceReadable, Unreferenced
  \* A put's slot: claimed, given up, published.
  <2>PutStartSlots. Order /\ SlotInv /\ OwnerPutStart => SlotInv'
    \* A new put's slot, and its promotion.
    <3>PendingSlot. LET s == RetainHolder(MarkPendingVisible(PreparedSlot))
                    IN  Held(s, 1, 0) /\ s.st = "pending"
      <4> DEFINE p == MarkPendingVisible(PreparedSlot)
                 s == RetainHolder(p)
      <4>1. p \in Slot /\ p.st = "pending" /\ p.holders = 0 /\ p.leases = 0 /\ p.route = FALSE
        BY Zenon, Zenon DEF MarkPendingVisible, PreparedSlot, FreeSlot, Slot, SlotStates, Scopes
      <4>2. 1 \in Nat /\ p.holders + 1 = 1
        BY <4>1
      <4>3. s = [p EXCEPT !.holders = @ + 1]
        BY Zenon DEF RetainHolder
      <4> HIDE DEF p, s
      <4>4. s \in Slot /\ s.st = "pending" /\ s.holders = 1 /\ s.leases = 0 /\ s.route = FALSE
        BY <4>1, <4>2, <4>3, Zenon DEF Slot
      <4>5. Held(s, 1, 0) /\ s.st = "pending"
        BY <4>4 DEF Held, Unreferenced
      <4>6. QED
        BY <4>5, Zenon DEF s, p
    <3> SUFFICES ASSUME Order, SlotInv, OwnerPutStart PROVE SlotInv'
      BY Zenon
    <3>0. PICK g : g = nextGen + 1
      BY Zenon
    <3> DEFINE t == RetainHolder(MarkPendingVisible(PreparedSlot))
    <3>1. /\ lput = NoPut /\ ~Fenced /\ nextGen' = g /\ lput' = [pc |-> "precommit", gen |-> g]
          /\ slot' = [slot EXCEPT ![g] = t] /\ nextGen < MaxGen
          /\ UNCHANGED <<idx, sel, rec, pend, readers, evict, lget, rget>>
      BY <3>0, Zenon DEF OwnerPutStart, evictVars
    <3>2. /\ nextGen \in Nat /\ readers \in [Gens -> Nat] /\ slot \in [Gens -> Slot] /\ SlotsHeld
      BY SlotGens, Zenon DEF SlotInv, SlotsHeld
    <3>3. g \in Gens /\ g > nextGen /\ nextGen <= g /\ g \in Nat /\ g # 0 /\ g <= g
      BY <3>0, <3>1, <3>2, BoundAssumption DEF Gens
    <3>4. NoPut.gen = 0 /\ lput'.gen = g
      BY <3>1, Zenon DEF NoPut
    <3>5. readers[g] = 0 /\ slot[g].st = "free"
      BY <3>2, <3>3, Zenon DEF SlotsHeld
    <3>6. ~Arc(g) /\ ~Leased(g)
      <4>1. HolderCount(g) # 1 /\ LeaseCount(g) # 1
        <5>1. Held(slot[g], HolderCount(g), LeaseCount(g))
          BY <3>2, <3>3, AtSlot, Zenon
        <5>2. HolderCount(g) = 0 /\ LeaseCount(g) = 0
          BY <3>5, <5>1, HeldFree
        <5>3. QED
          BY <5>2
      <4>2. QED
        BY <3>2, <3>3, <4>1, AtSlot, Zenon
    <3>7. Held(t, 1, 0) /\ t.st = "pending"
      BY <3>PendingSlot, Zenon
    <3> HIDE DEF t
    <3>8. slot'[g] = t /\ (\A h \in Gens : h # g => slot'[h] = slot[h]) /\ slot' \in [Gens -> Slot]
      <4>1. t \in Slot
        BY <3>7, Zenon DEF Held
      <4>2. QED
        BY <3>1, <3>2, <3>3, <4>1, Zenon
    <3>9. HolderCount(g)' = 1 /\ LeaseCount(g)' = 0
      BY <3>1, <3>4, <3>6, Zenon DEF HolderCount, LeaseCount, Arc, Leased
    <3>10. Settled(g)
      BY <3>1, <3>3, <3>4, <3>5, <3>7, <3>8, <3>9, Zenon DEF Settled
    <3>11. ASSUME NEW h \in Gens, h # g PROVE Unmoved(h)
      <4>1. lput'.gen # h /\ lput.gen # h
        BY <3>1, <3>4, <3>11, SlotGens, Zenon
      <4>2. QED
        BY <3>1, <3>8, <3>11, <4>1, Zenon DEF Unmoved, Arc, RecArc, HiddenGet, Leased
    <3>12. SlotsHeld'
      BY <3>1, <3>2, <3>3, <3>8, <3>10, <3>11, HeldStep, Zenon
    <3>13. sel = 0 /\ rec.src = "none" /\ evict.pc \notin {"commit", "release"}
      BY <3>1, Unfenced, Zenon
    <3>14. ArcsApart'
      BY <3>1, <3>4, <3>6, <3>13, Zenon DEF ArcsApart, Arc, RecArc, HiddenGet, SlotInv
    <3>15. RoutedArcs'
      <4>1. idx # g /\ pend # g
        <5>1. HiddenGet => lget.gen # g
          BY <3>6, Zenon DEF Arc
        <5>2. QED
          BY <3>3, <3>6, <5>1, Zenon DEF Arc, SlotInv, RoutedArcs
      <4>2. /\ idx # 0 => idx \in Gens
            /\ pend # 0 => pend \in Gens
        BY SlotGens, Zenon DEF Known
      <4>3. QED
        BY <3>1, <3>8, <3>13, <4>1, <4>2, Zenon DEF RoutedArcs, SlotInv, HiddenGet
    <3>16. DemotionHolds'
      BY <3>1, <3>13, Zenon DEF DemotionHolds
    <3>17. QED
      BY <3>12, <3>14, <3>15, <3>16, Zenon DEF SlotInv
  <2> SUFFICES ASSUME Order, SlotInv, Put \/ MasterDelete PROVE SlotInv'
    BY Zenon
  <2>0. lput \in Puts /\ nextGen \in Nat /\ NoPut.gen = 0 /\ NoPut.pc = "idle"
    BY SlotGens, Zenon DEF Order, Knows, Types, OwnerTypes, NoPut
  <2>1. ASSUME lput.pc \in {"precommit", "routed"}
        PROVE  /\ ~Fenced /\ lput.gen \in Gens /\ lput.gen <= nextGen /\ lput.gen # 0 /\ lput.gen # idx
               /\ sel = 0 /\ rec.src = "none" /\ Arc(lput.gen) /\ (HiddenGet => lget.gen # lput.gen)
    <3>1. lput # NoPut /\ ~Fenced
      BY <2>0, <2>1, Zenon DEF Order, LocalInv, LocalFence
    <3>2. lput.gen # 0 /\ lput.gen \in Gens /\ lput.gen <= nextGen
      <4>1. Older(lput.gen)
        BY <3>1, NamedGens, Zenon DEF Order
      <4>2. lput.gen # 0
        BY <4>1 DEF Older, Written
      <4>3. QED
        BY <4>2, SlotGens, Zenon DEF Known
    <3>3. QED
      BY <3>1, <3>2, Unfenced, Zenon DEF SlotInv, ArcsApart, Arc
  <2>2. CASE OwnerPutCommit \/ OtherPut \/ MasterDelete
    <3>1. /\ UNCHANGED <<slot, idx, sel, pend, readers, rec, lget, rget, evict>>
          /\ nextGen' \in Nat /\ nextGen <= nextGen'
      BY <2>0, <2>2 DEF OwnerPutCommit, OtherPut, MasterDelete, localVars, evictVars
    <3>2. lput'.gen = lput.gen
      BY <2>0, <2>2, Zenon DEF OwnerPutCommit, OtherPut, MasterDelete, localVars, Puts
    <3>3. (HiddenGet' <=> HiddenGet) /\ (\A g \in Gens : Leased(g)' <=> Leased(g))
      BY <3>1, Zenon DEF HiddenGet, Leased
    <3>4. QED
      BY <2>0, <3>1, <3>2, <3>3, SlotFrame, Zenon
  <2>3. CASE OwnerPutFail
    <3>0. PICK g : g = lput.gen
      BY Zenon
    <3>1. /\ lput.pc = "precommit" /\ lput' = NoPut /\ slot' = DropArc(slot, g)
          /\ UNCHANGED <<nextGen, idx, sel, pend, readers, rec, lget, rget, evict>>
      BY <2>3, <3>0, Zenon DEF OwnerPutFail, masterVars, evictVars
    <3>2. /\ g \in Gens /\ g <= nextGen /\ g # 0 /\ g # idx /\ sel = 0 /\ rec.src = "none" /\ Arc(g)
          /\ (HiddenGet => lget.gen # g)
      BY <2>1, <3>0, <3>1, Zenon
    <3>3. ~Arc(g)' /\ lput'.gen # g /\ lput'.gen = 0
      BY <2>0, <3>1, <3>2, Zenon DEF Arc, RecArc, HiddenGet
    <3>4. ASSUME NEW h \in Gens, h # g PROVE (Arc(h)' <=> Arc(h)) /\ (lput'.gen = h <=> lput.gen = h)
      <4>1. lput.gen # h /\ lput'.gen # h
        BY <3>0, <3>3, <3>4, SlotGens, Zenon
      <4>2. QED
        BY <3>1, <4>1, Zenon DEF Arc, RecArc, HiddenGet
    <3>5. (HiddenGet' => HiddenGet /\ lget'.gen = lget.gen) /\ (pend' # 0 => HiddenGet')
      BY <3>1, Zenon DEF HiddenGet, SlotInv, RoutedArcs
    <3>6. QED
      BY <3>1, <3>2, <3>3, <3>4, <3>5, ArcDropped, Zenon
  <2>4. CASE OwnerPutPublish
    <3>0. PICK g : g = lput.gen
      BY Zenon
    <3> DEFINE t == PromotePending(slot[g])
    <3>1. /\ lput.pc = "routed" /\ lput' = NoPut /\ slot' = ReplaceIndexed([slot EXCEPT ![g] = t]) /\ idx' = g
          /\ UNCHANGED <<nextGen, sel, pend, readers, rec, lget, rget, evict>>
      BY <2>4, <3>0, Zenon DEF OwnerPutPublish, masterVars, evictVars
    <3>2. /\ g \in Gens /\ g <= nextGen /\ g # 0 /\ g # idx /\ ~Fenced /\ Arc(g)
          /\ (HiddenGet => lget.gen # g)
      BY <2>1, <3>0, <3>1, Zenon
    <3>3. Held(slot[g], 1, LeaseCount(g)) /\ slot[g].st = "pending"
      BY <3>0, <3>2, AtSlot, SlotGens, Zenon DEF SlotInv
    <3>4. Held(t, 1, LeaseCount(g)) /\ SourceReadable(t)
      BY <3>3, <2>PendingPromoted, Zenon
    <3> HIDE DEF t
    <3>5. lput'.gen # g /\ lput'.gen = 0 /\ (lput.gen # g => lput'.gen = lput.gen)
      BY <2>0, <3>0, <3>1, <3>2, Zenon
    <3>6. /\ HiddenGet' => HiddenGet /\ lget'.gen = lget.gen /\ lget.gen # g
          /\ HiddenGet => HiddenGet'
          /\ pend' # 0 => pend' = pend /\ HiddenGet'
      BY <3>1, <3>2, Zenon DEF HiddenGet, SlotInv, RoutedArcs
    <3>7. QED
      BY <3>1, <3>2, <3>4, <3>5, <3>6, Reindexed, Zenon
  <2>5. QED
    BY <2>2, <2>3, <2>4, <2>PutStartSlots, Zenon DEF Put
<1>BroadcastSlots. Order /\ SlotInv /\ Broadcast => SlotInv'
  <2>BroadcastApplySlots. ASSUME Order, SlotInv, NEW b \in Gens, BroadcastApply(b)
                          PROVE  SlotInv'
    <3> USE <2>BroadcastApplySlots
    <3> DEFINE dropIdx == idx # 0 /\ idx <= b
               global  == slot[b].scope = "GlobalShared" /\ slot[b].route
               w == IF global /\ idx # b THEN [slot EXCEPT ![b] = ReleaseRoute(slot[b])] ELSE slot
    <3>1. /\ slot' = IF dropIdx THEN ReplaceIndexed(w) ELSE w
          /\ idx' = IF dropIdx THEN 0 ELSE idx
          /\ ~dropIdx => idx # b
          /\ global => SourceReadable(slot[b])
          /\ w \in [Gens -> Slot] /\ (idx # 0 => w[idx] = slot[idx])
      BY BroadcastMoves, Zenon
    <3>2. /\ slot \in [Gens -> Slot] /\ SlotsHeld /\ readers \in [Gens -> Nat] /\ nextGen \in Nat /\ 0 \notin Gens
          /\ (idx # 0 => idx \in Gens /\ idx <= nextGen) /\ b <= nextGen
      <4>1. b \in bcast
        BY Zenon DEF BroadcastApply
      <4>2. QED
        BY <4>1, SlotGens, Zenon DEF SlotInv, SlotsHeld, Known
    <3>3. /\ ~Fenced /\ UNCHANGED <<nextGen, sel, rec, readers, lput, evict, lget, rget>>
          /\ pend' = IF pend # 0 /\ pend <= b THEN 0 ELSE pend
      BY Zenon DEF BroadcastApply, masterVars, evictVars
    <3>4. sel = 0 /\ rec.src = "none" /\ evict.pc \notin {"commit", "release"}
      BY <3>3, Unfenced, Zenon
    <3>5. PICK o : o = idx
      BY Zenon
    <3>6. (HiddenGet => lget.gen # o) /\ (o # 0 => o # lput.gen)
      BY <3>5, Zenon DEF SlotInv, ArcsApart
    <3>7. \A h : LeaseCount(h)' = LeaseCount(h)
      BY <3>3, Zenon DEF LeaseCount, Leased
    <3>8. /\ \A h \in Gens : h # b => w[h] = slot[h]
          /\ o # b => w[b] = IF global THEN ReleaseRoute(slot[b]) ELSE slot[b]
      BY <3>2, <3>5, Zenon
    <3>9. /\ slot' \in [Gens -> Slot]
          /\ \A h \in Gens : h # o \/ ~dropIdx => slot'[h] = w[h]
          /\ dropIdx => /\ readers[o] = 0 => Held(slot'[o], 0, LeaseCount(o))
                        /\ readers[o] # 0 => Held(slot'[o], 1, LeaseCount(o))
                        /\ slot'[o].st # "pending"
      <4>1. CASE ~dropIdx
        BY <3>1, <4>1, Zenon
      <4>2. CASE dropIdx
        BY <3>1, <3>5, <4>2, IndexReplaced, Zenon
      <4>3. QED
        BY <4>1, <4>2, Zenon
    <3>10. ASSUME NEW h \in Gens, h # o \/ ~dropIdx PROVE Arc(h)' <=> Arc(h)
      BY <3>1, <3>2, <3>3, <3>5, <3>10, Zenon DEF Arc, RecArc, HiddenGet
    <3> HIDE DEF w
    <3>11. dropIdx => Settled(o)
      <4> SUFFICES ASSUME dropIdx PROVE Settled(o)
        BY Zenon
      <4>1. o # 0 /\ o \in Gens /\ o <= nextGen
        BY <3>2, <3>5, Zenon
      <4>2. ~Arc(o)'
        BY <3>1, <3>3, <3>4, <3>6, <4>1, Zenon DEF Arc, RecArc, HiddenGet
      <4>3. readers[o] > 0 <=> readers[o] # 0
        BY <3>2, <4>1
      <4>4. HolderCount(o)' = IF readers[o] # 0 THEN 1 ELSE 0
        BY <3>3, <4>2, <4>3, Zenon DEF HolderCount
      <4>5. Held(slot'[o], HolderCount(o)', LeaseCount(o)')
        BY <3>7, <3>9, <4>4, Zenon
      <4>6. QED
        BY <3>3, <3>6, <3>9, <4>1, <4>5, Zenon DEF Settled
    <3>12. global /\ b # o => Settled(b)
      <4> SUFFICES ASSUME global, b # o PROVE Settled(b)
        BY Zenon
      <4>1. SourceReadable(slot[b]) /\ Held(slot[b], HolderCount(b), LeaseCount(b)) /\ (slot[b].st = "pending" <=> lput.gen = b)
        BY <3>1, <3>2, AtSlot, Zenon
      <4>2. Held(ReleaseRoute(slot[b]), HolderCount(b), LeaseCount(b)) /\ ReleaseRoute(slot[b]).st # "pending"
        BY <4>1, RouteReleased, Zenon
      <4>3. slot'[b] = ReleaseRoute(slot[b])
        BY <3>8, <3>9, Zenon
      <4>4. lput.gen # b
        BY <4>1, Zenon DEF SourceReadable
      <4>5. HolderCount(b)' = HolderCount(b)
        BY <3>3, <3>10, Zenon DEF HolderCount
      <4>6. QED
        BY <3>2, <3>3, <3>7, <4>2, <4>3, <4>4, <4>5, Zenon DEF Settled
    <3>13. ASSUME NEW h \in Gens, ~(h = o /\ dropIdx), ~(h = b /\ global /\ b # o) PROVE Unmoved(h)
      <4>1. slot'[h] = slot[h]
        <5>1. o = b => dropIdx
          BY <3>1, <3>5, Zenon
        <5> HIDE DEF dropIdx, global
        <5>2. slot'[h] = w[h]
          BY <3>9, <3>13, Zenon
        <5>3. CASE h # b
          BY <3>8, <5>2, <5>3, Zenon
        <5>4. CASE h = b
          <6>1. b # o /\ ~global
            BY <3>13, <5>1, <5>4, Zenon
          <6>2. QED
            BY <3>8, <5>2, <5>4, <6>1, Zenon
        <5>5. QED
          BY <5>3, <5>4, Zenon
      <4>2. QED
        BY <3>3, <3>10, <3>13, <4>1, Zenon DEF Unmoved, Leased
    <3>14. SlotsHeld'
      <4>1. \A h \in Gens : Unmoved(h) \/ Settled(h)
        BY <3>11, <3>12, <3>13, Zenon
      <4>2. nextGen' \in Nat /\ nextGen <= nextGen'
        BY <3>2, <3>3
      <4>3. QED
        BY <3>2, <3>9, <4>1, <4>2, HeldStep, Zenon
    <3>15. ArcsApart'
      BY <3>1, <3>2, <3>3, <3>4, Zenon DEF SlotInv, ArcsApart, RecArc, HiddenGet
    <3>16. RoutedArcs'
      <4>1. idx' # 0 => SourceReadable(slot'[idx'])
        <5>1. idx' # 0 => ~dropIdx /\ idx' = idx /\ idx # b /\ idx \in Gens
          BY <3>1, <3>2, Zenon
        <5>2. QED
          BY <3>8, <3>9, <5>1, Zenon DEF SlotInv, RoutedArcs
      <4>2. pend' # 0 => /\ SourceReadable(slot'[pend']) /\ slot'[pend'].scope = "GlobalShared"
                         /\ HiddenGet' /\ lget'.gen = pend'
        <5>1. pend' # 0 => pend' = pend /\ pend # b /\ pend \in Gens
          <6>1. b <= b
            BY BoundAssumption DEF Gens
          <6>2. QED
            BY <3>3, <6>1, SlotGens, Zenon DEF Known
        <5>2. pend' # 0 => pend # o
          BY <3>6, <5>1, Zenon DEF SlotInv, RoutedArcs
        <5>3. pend' # 0 => slot'[pend] = slot[pend]
          BY <3>8, <3>9, <5>1, <5>2, Zenon
        <5>4. QED
          BY <3>3, <5>1, <5>3, Zenon DEF SlotInv, RoutedArcs, HiddenGet
      <4>3. QED
        BY <3>3, <3>4, <4>1, <4>2, Zenon DEF RoutedArcs
    <3>17. DemotionHolds'
      BY <3>3, <3>4, Zenon DEF DemotionHolds
    <3>18. QED
      BY <3>14, <3>15, <3>16, <3>17, Zenon DEF SlotInv
  <2> SUFFICES ASSUME Order, SlotInv, NEW g \in Gens, BroadcastSkipped(g) \/ BroadcastLost(g) \/ BroadcastApply(g)
               PROVE  SlotInv'
    BY Zenon DEF Broadcast
  <2>1. CASE BroadcastSkipped(g) \/ BroadcastLost(g)
    <3>1. UNCHANGED <<nextGen, slot, idx, sel, pend, readers, rec, lget, rget, evict, lput>>
      BY <2>1, Zenon DEF BroadcastSkipped, BroadcastLost, masterVars, localVars, evictVars
    <3>2. (HiddenGet' <=> HiddenGet) /\ (\A h \in Gens : Leased(h)' <=> Leased(h))
      BY <3>1, Zenon DEF HiddenGet, Leased
    <3>3. nextGen \in Nat /\ nextGen' \in Nat /\ nextGen <= nextGen'
      BY <3>1, SlotGens
    <3>4. QED
      BY <3>1, <3>2, <3>3, SlotFrame, Zenon
  <2>2. QED
    BY <2>1, <2>BroadcastApplySlots, Zenon
\* The master's steps leave the slots alone.
<1>MasterSlots. Order /\ SlotInv /\ (Job \/ EvictHandler) => SlotInv'
  <2> SUFFICES ASSUME Order, SlotInv, Job \/ EvictHandler PROVE SlotInv'
    BY Zenon
  <2>1. UNCHANGED <<nextGen, slot, idx, sel, pend, readers, rec, lget, rget, lput>>
    BY Zenon DEF Job, JobPlan, JobFence, JobTimeout, JobValidate, JobAbort, JobFinish, JobFinalizeRetry, JobClear,
       EvictHandler, EvictFence, EvictReplan, EvictApply, localVars
  <2>2. evict' = evict \/ evict'.pc = "answered"
    <3>1. evict \in Evicts
      BY Zenon DEF Order, Knows, Types, OwnerTypes
    <3>2. ASSUME NEW o, NEW out, Reply(o, out) PROVE evict' = evict \/ evict'.pc = "answered"
      BY <3>1, <3>2, Zenon DEF Reply, Evicts
    <3>3. QED
      BY <3>2, Zenon DEF Job, JobPlan, JobFence, JobTimeout, JobValidate, JobAbort, JobFinish, JobFinalizeRetry, JobClear,
         EvictHandler, EvictFence, EvictReplan, EvictApply, evictVars
  <2>3. (HiddenGet' <=> HiddenGet) /\ (\A h \in Gens : Leased(h)' <=> Leased(h))
    BY <2>1, Zenon DEF HiddenGet, Leased
  <2>4. nextGen \in Nat /\ nextGen' \in Nat /\ nextGen <= nextGen'
    BY <2>1, SlotGens
  <2>5. evict'.pc \in {"commit", "release"} => evict' = evict
    BY <2>2, Zenon
  <2>6. QED
    BY <2>1, <2>3, <2>4, <2>5, SlotFrame, Zenon
\* The owner's side of the master's reclaim.
<1>PhaseSlots. Order /\ SlotInv /\ SlotSource /\ OwnerPhase => SlotInv'
  <2> SUFFICES ASSUME Order, SlotInv, SlotSource, OwnerPhase PROVE SlotInv'
    BY Zenon
  <2>0. /\ rec \in Records /\ nextGen \in Nat /\ nextGen <= nextGen /\ NoRec.src = "none"
    <3>1. nextGen \in Nat /\ rec \in Records
      BY SlotGens, Zenon DEF Order, Knows, Types, OwnerTypes
    <3>2. QED
      BY <3>1 DEF NoRec
  <2>1. ASSUME UNCHANGED <<slot, idx, sel, evict>>, UNCHANGED ownerGets,
               rec'.src = "index" <=> rec.src = "index", rec.src = "index" => rec'.item = rec.item
        PROVE  SlotInv'
    <3>1. (HiddenGet' <=> HiddenGet) /\ (\A h \in Gens : Leased(h)' <=> Leased(h))
      BY <2>1, Zenon DEF HiddenGet, Leased, ownerGets
    <3>2. QED
      BY <2>0, <2>1, <3>1, SlotFrame, Zenon DEF ownerGets
  <2>2. ASSUME NEW m \in net, HandlePrepare(m) PROVE SlotInv'
    <3>1. /\ UNCHANGED ownerGets /\ UNCHANGED slot /\ UNCHANGED evict
          /\ PrepareEffect(m.item, PrepareStep(m.item))
      BY <2>2, Zenon DEF HandlePrepare, ownerGets, evictVars
    <3>2. m.item.gen # 0
      <4>1. Older(m.item.gen)
        BY NamedGens, Zenon DEF Order
      <4>2. QED
        BY <4>1 DEF Older, Written
    <3>3. DemotionHolds'
      BY <3>1, Zenon DEF SlotInv, DemotionHolds
    <3>4. QED
      BY <3>1, <3>2, <3>3, SameSlots, PrepareSlots, Zenon
  <2>3. ASSUME NEW m \in net, CommitBegin(m) \/ CommitRefused(m) \/ HandleFinalize(m) PROVE SlotInv'
    <3>1. UNCHANGED <<slot, idx, sel, evict>> /\ UNCHANGED ownerGets
      BY <2>3, Zenon DEF CommitBegin, CommitRefused, HandleFinalize, ownerGets, masterVars, localVars, evictVars
    <3>2. rec' = rec \/ (rec'.src = rec.src /\ rec'.item = rec.item) \/ (rec.st = "Committed" /\ rec' = NoRec)
      BY <2>0, <2>3, Zenon DEF CommitBegin, CommitRefused, HandleFinalize, localVars, Records
    <3>3. rec.st = "Committed" => rec.src = "none"
      BY Zenon DEF Order, LocalInv, RecShape
    <3>4. QED
      BY <2>0, <2>1, <3>1, <3>2, <3>3, Zenon
  <2>4. ASSUME NEW m \in net, HandleAbort(m) PROVE SlotInv'
    <3>1. UNCHANGED <<slot, sel, evict>> /\ UNCHANGED ownerGets
      BY <2>4, Zenon DEF HandleAbort, ownerGets, evictVars
    <3>2. \/ rec' = rec /\ idx' = idx
          \/ rec.src # "index" /\ rec' = NoRec /\ idx' = idx
          \/ rec.src = "index" /\ rec' = NoRec /\ idx' = rec.item.gen
      BY <2>4, Zenon DEF HandleAbort
    <3>3. CASE rec.src = "index" /\ rec' = NoRec /\ idx' = rec.item.gen
      <4>1. DemotionHolds'
        BY <3>1, Zenon DEF SlotInv, DemotionHolds
      <4>2. QED
        BY <3>1, <3>3, <4>1, SameSlots, BackToIndex, Zenon
    <3>4. QED
      BY <2>0, <2>1, <3>1, <3>2, <3>3, Zenon
  <2>5. ASSUME NEW p \in probes, ProbeSlot(p) \/ ProbeInstall(p) PROVE SlotInv'
    <3>1. UNCHANGED <<slot, idx, sel, evict>> /\ UNCHANGED ownerGets
      BY <2>5, Zenon DEF ProbeSlot, ProbeInstall, ownerGets, masterVars, evictVars
    <3>2. rec' = rec \/ (rec = NoRec /\ rec'.src = "slot")
      <4>1. \A i : Prepared(i, "slot").src = "slot"
        BY Zenon DEF Prepared
      <4>2. rec' = rec \/ (~Fenced /\ rec' = Prepared(p.req.item, "slot"))
        BY <2>5, Zenon DEF ProbeSlot, ProbeInstall
      <4>3. QED
        BY <4>1, <4>2, Unfenced, Zenon
    <3>3. QED
      BY <2>0, <2>1, <3>1, <3>2, Zenon
  <2>6. QED
    BY <2>2, <2>3, <2>4, <2>5, CommitReleases, Zenon DEF OwnerPhase
\* The eviction.
<1>WorkerSlots. Order /\ SlotInv /\ Evict => SlotInv'
  \* The eviction gives up its selection.
  <2>FinishSlots. ASSUME Order, SlotInv, FinishSelection, evict.pc \in {"send", "answered"}, UNCHANGED ownerGets
                  PROVE  SlotInv'
    <3> USE <2>FinishSlots
    <3>1. /\ slot' = [slot EXCEPT ![evict.gen] = DropReservation(slot[evict.gen])]
          /\ idx' = (IF sel = evict.gen THEN sel ELSE idx) /\ sel' = (IF sel = evict.gen THEN 0 ELSE sel)
          /\ evict' = NoEvict /\ UNCHANGED rec
      BY Zenon DEF FinishSelection
    <3>2. evict.gen \in Gens /\ evict.gen # 0
      BY SlotGens, Zenon DEF Known
    <3>3. Relabels
      BY <3>1, <3>2, ReservationMoves, Zenon
    <3>4. DemotionHolds'
      <4>1. evict'.pc = "idle"
        BY <3>1, Zenon DEF NoEvict
      <4>2. QED
        BY <4>1, Zenon DEF DemotionHolds
    <3>5. CASE sel = evict.gen
      BY <3>1, <3>2, <3>3, <3>4, <3>5, BackToIndex, Zenon
    <3>6. CASE sel # evict.gen
      BY <3>1, <3>3, <3>4, <3>6, ArcsStay, Zenon
    <3>7. QED
      BY <3>5, <3>6, Zenon
  <2> SUFFICES ASSUME Order, SlotInv, Evict PROVE SlotInv'
    BY Zenon
  <2>0. /\ evict \in Evicts /\ rec \in Records /\ NoRec.src = "none" /\ NoEvict.pc = "idle"
    BY Zenon DEF Order, Knows, Types, OwnerTypes, NoRec, NoEvict
  <2>1. UNCHANGED ownerGets
    BY Zenon DEF Evict, EvictSelect, EvictSend, EvictTimeout, EvictLost, EvictAnswered, EvictCommit, EvictRelease,
       EvictFinalize, masterVars, localVars, ownerGets
  <2>2. CASE EvictSelect
    <3>1. /\ idx # 0 /\ sel' = idx /\ idx' = 0 /\ UNCHANGED rec /\ ~Fenced /\ UNCHANGED slot /\ evict'.pc = "send"
      BY <2>2, Zenon DEF EvictSelect
    <3>2. DemotionHolds'
      BY <3>1, Zenon DEF DemotionHolds
    <3>3. QED
      BY <2>1, <3>1, <3>2, SameSlots, BackToIndex, Zenon
  <2>3. ASSUME NEW r \in BOOLEAN, EvictSend(r) PROVE SlotInv'
    <3>1. /\ evict.pc = "send" /\ evict' = [evict EXCEPT !.pc = "wait"] /\ UNCHANGED <<idx, sel, rec>>
          /\ \/ slot' = slot
             \/ /\ slot[evict.gen].st = "committed"
                /\ slot' = [slot EXCEPT ![evict.gen] = ReserveDemotion(slot[evict.gen])]
      BY <2>3, Zenon DEF EvictSend, localVars
    <3>2. evict'.pc = "wait" /\ evict.gen \in Gens
      BY <2>0, <3>1, SlotGens, Zenon DEF Evicts, Known
    <3>3. Relabels
      BY <3>1, <3>2, SameSlots, ReservationMoves, Zenon
    <3>4. DemotionHolds'
      BY <3>2, Zenon DEF DemotionHolds
    <3>5. QED
      BY <2>1, <3>1, <3>3, <3>4, ArcsStay, Zenon
  <2>4. CASE EvictTimeout
    <3>1. evict'.pc = "send" /\ UNCHANGED <<slot, idx, sel, rec>>
      BY <2>0, <2>4, Zenon DEF EvictTimeout, localVars, Evicts
    <3>2. DemotionHolds'
      BY <3>1, Zenon DEF DemotionHolds
    <3>3. QED
      BY <2>1, <3>1, <3>2, SameSlots, ArcsStay, Zenon
  <2>5. CASE EvictLost
    <3>1. evict.pc = "send" /\ FinishSelection
      BY <2>5, Zenon DEF EvictLost
    <3>2. QED
      BY <2>1, <3>1, <2>FinishSlots, Zenon
  <2>6. CASE EvictAnswered
    <3>1. evict.pc = "answered" /\ evict.gen \in Gens /\ evict.gen # 0
      BY <2>6, SlotGens, Zenon DEF EvictAnswered, Known
    <3> DEFINE i == EvictItem(evict.gen, op)
               st == PrepareStep(i)
               go == evict.out = "Completed" \/ (evict.out = "DemotedGlobal" /\ DemotionValid(slot[evict.gen]))
    <3>2. \/ FinishSelection
          \/ /\ go /\ PrepareEffect(i, st)
             /\ slot' = IF evict.out = "Completed" THEN [slot EXCEPT ![evict.gen] = DropReservation(slot[evict.gen])] ELSE slot
             /\ \E pc : evict' = [evict EXCEPT !.pc = pc]
          \/ evict' = [evict EXCEPT !.pc = "send"] /\ UNCHANGED <<slot, rec, sel, idx>>
      BY <2>6, Zenon DEF EvictAnswered
    <3>3. CASE FinishSelection
      BY <2>1, <3>1, <3>3, <2>FinishSlots, Zenon
    <3>4. CASE evict' = [evict EXCEPT !.pc = "send"] /\ UNCHANGED <<slot, rec, sel, idx>>
      <4>1. evict'.pc = "send"
        BY <2>0, <3>4, Zenon DEF Evicts
      <4>2. DemotionHolds'
        BY <4>1, Zenon DEF DemotionHolds
      <4>3. QED
        BY <2>1, <3>4, <4>2, SameSlots, ArcsStay, Zenon
    <3>5. CASE /\ go /\ PrepareEffect(i, st)
               /\ slot' = IF evict.out = "Completed" THEN [slot EXCEPT ![evict.gen] = DropReservation(slot[evict.gen])] ELSE slot
               /\ \E pc : evict' = [evict EXCEPT !.pc = pc]
      <4>1. evict'.gen = evict.gen /\ evict'.out = evict.out
        BY <2>0, <3>5, Zenon DEF Evicts
      <4>2. i.gen = evict.gen
        BY Zenon DEF EvictItem
      <4>3. Relabels
        <5>1. CASE slot' = slot
          BY <5>1, SameSlots, Zenon
        <5>2. CASE slot' = [slot EXCEPT ![evict.gen] = DropReservation(slot[evict.gen])]
          BY <3>1, <5>2, ReservationMoves, Zenon
        <5>3. QED
          BY <3>5, <5>1, <5>2, Zenon
      <4>4. DemotionHolds'
        <5>1. evict.out = "DemotedGlobal" => slot' = slot /\ DemotionValid(slot[evict.gen])
          BY <3>5, Zenon
        <5>2. QED
          BY <4>1, <5>1, Zenon DEF DemotionHolds
      <4> HIDE DEF i
      <4>5. QED
        BY <2>1, <3>1, <3>5, <4>2, <4>3, <4>4, PrepareSlots, Zenon
    <3>6. QED
      BY <3>2, <3>3, <3>4, <3>5, Zenon
  <2>7. CASE EvictCommit
    <3>1. /\ evict.pc = "commit" /\ evict'.gen = evict.gen /\ evict'.out = evict.out
          /\ UNCHANGED <<slot, idx, sel>> /\ rec'.src = rec.src /\ rec'.item = rec.item
      BY <2>0, <2>7, Zenon DEF EvictCommit, Evicts, Records
    <3>2. (HiddenGet' <=> HiddenGet) /\ (\A h \in Gens : Leased(h)' <=> Leased(h))
      BY <2>1, Zenon DEF HiddenGet, Leased, ownerGets
    <3>3. nextGen \in Nat /\ nextGen' \in Nat /\ nextGen <= nextGen'
      BY <2>1, SlotGens DEF ownerGets
    <3>4. QED
      BY <2>1, <3>1, <3>2, <3>3, SlotFrame, Zenon DEF ownerGets
  <2>8. CASE EvictFinalize
    <3>1. /\ evict.pc = "finalize" /\ evict' = NoEvict /\ UNCHANGED <<slot, idx, sel>> /\ rec' = NoRec
      BY <2>8, Zenon DEF EvictFinalize
    <3>2. rec.src = "none"
      <4>1. rec.st = "Committed"
        BY <3>1, Zenon DEF Order, Knows, ProtocolInv, LocalReclaim
      <4>2. QED
        BY <2>0, <4>1, Zenon DEF Order, LocalInv, RecShape, Records
    <3>3. (HiddenGet' <=> HiddenGet) /\ (\A h \in Gens : Leased(h)' <=> Leased(h))
      BY <2>1, Zenon DEF HiddenGet, Leased, ownerGets
    <3>4. nextGen \in Nat /\ nextGen' \in Nat /\ nextGen <= nextGen'
      BY <2>1, SlotGens DEF ownerGets
    <3>5. evict'.pc \notin {"commit", "release"}
      BY <2>0, <3>1, Zenon
    <3>6. QED
      BY <2>0, <2>1, <3>1, <3>2, <3>3, <3>4, <3>5, SlotFrame, Zenon DEF ownerGets
  <2>9. QED
    BY <2>2, <2>3, <2>4, <2>5, <2>6, <2>7, <2>8, EvictReleases, Zenon DEF Evict
<1>1. ASSUME Order, SlotInv, UNCHANGED vars PROVE SlotInv'
  <2>1. UNCHANGED ownerGets /\ UNCHANGED <<slot, idx, sel, rec, evict>>
    BY <1>1, Zenon DEF vars, masterVars, localVars, evictVars, ownerGets
  <2>2. DemotionHolds'
    BY <1>1, <2>1, Zenon DEF SlotInv, DemotionHolds
  <2>3. QED
    BY <1>1, <2>1, <2>2, SameSlots, ArcsStay, Zenon
<1>2. QED
  BY <1>1, <1>PutSlots, <1>BroadcastSlots, <1>ReadSlots, <1>RemoteGetSlots, <1>OwnerGetSlots, <1>MasterSlots, <1>PhaseSlots, <1>WorkerSlots, Zenon
  DEF Next

-----------------------------------------------------------------------------
(* How a slot loses its route reference.                                   *)

\* Why a step takes the route reference of g's slot away: a publication or an own
\* get replaces it in the index, a delete broadcast reaches it, or a reclaim or an
\* eviction releases it.
Loses(g) ==
  \/ g = idx /\ ~Fenced /\ lput.pc = "routed"
  \/ /\ g = idx /\ ~Fenced /\ lget.pc = "accepted" /\ pend = lget.gen
     /\ idx > pend => idx \in regressed'
  \/ ~Fenced /\ \E b \in bcast : g <= b
  \/ /\ g = rec.item.gen /\ rec.st = "Releasing" /\ rec.item.why = "master"
     /\ rec'.st = "Committed" /\ rec'.item = rec.item
  \/ g = evict.gen /\ evict.pc = "release" /\ RecArc(g) /\ evict.out = "Completed"

\* One slot, and an operation that leaves it readable.
LEMMA OneOperation ==
  ASSUME SlotInv, NEW g \in Gens, NEW x, NEW v, slot' = [slot EXCEPT ![x] = v],
         x \in Gens /\ slot[x] \in Slot /\ SourceReadable(slot[x]) => SourceReadable(v)
  PROVE  Kept(g)
<1>1. slot \in [Gens -> Slot]
  BY Zenon DEF SlotInv, SlotsHeld
<1>2. CASE g = x
  BY <1>1, <1>2, Zenon DEF Kept
<1>3. CASE g # x
  BY <1>1, <1>3, Zenon DEF Kept
<1>4. QED
  BY <1>2, <1>3, Zenon

LEMMA DropKeeps ==
  ASSUME SlotInv, NEW g \in Gens, NEW x, slot' = DropArc(slot, x)
  PROVE  Kept(g)
<1>1. CASE slot' = slot
  BY <1>1, Zenon DEF Kept
<1>2. CASE slot' = [slot EXCEPT ![x] = ReleaseHolder(slot[x])]
  BY <1>2, OneOperation, OperationKeeps, Zenon
<1>3. QED
  BY <1>1, <1>2, Zenon DEF DropArc

\* Publication: only the replaced generation loses its route.
LEMMA ReplaceKeeps ==
  ASSUME Order, SlotInv, NEW g \in Gens, g # idx, NEW x, x # idx, NEW v \in Slot,
         slot' = ReplaceIndexed([slot EXCEPT ![x] = v]),
         x \in Gens /\ slot[x] \in Slot /\ SourceReadable(slot[x]) => SourceReadable(v)
  PROVE  Kept(g)
<1>1. slot \in [Gens -> Slot] /\ (idx # 0 => idx \in Gens)
  BY SlotGens, Zenon DEF SlotInv, SlotsHeld, Known
<1> DEFINE s == [slot EXCEPT ![x] = v]
<1>2. s \in [Gens -> Slot] /\ (\A h \in Gens : h # x => s[h] = slot[h]) /\ (x \in Gens => s[x] = v)
  BY <1>1, Zenon
<1>3. idx # 0 => s[idx] = slot[idx]
  BY <1>1, <1>2, Zenon
<1> HIDE DEF s
<1>4. slot'[g] = s[g]
  <2>1. \A h \in Gens : h # idx => ReplaceIndexed(s)[h] = s[h]
    BY <1>2, <1>3, IndexReplaced, Zenon
  <2>2. slot' = ReplaceIndexed(s)
    BY Zenon DEF s
  <2>3. QED
    BY <2>1, <2>2, Zenon
<1>5. QED
  BY <1>1, <1>2, <1>4, Zenon DEF Kept

\* A slot that is readable stays so, or the step had one of those reasons.
LEMMA RouteLost ==
  ASSUME Order, SlotInv, SlotSource, [Next]_vars
  PROVE  \A g \in Gens : Kept(g) \/ Loses(g)
\* Puts and the delete broadcast.
<1>PutLoses. ASSUME Order, SlotInv, Put \/ MasterDelete \/ Broadcast, NEW g \in Gens
             PROVE  Kept(g) \/ Loses(g)
  <2> USE <1>PutLoses
  <2>1. CASE OwnerPutCommit \/ OtherPut \/ MasterDelete
    BY <2>1, Zenon DEF OwnerPutCommit, OtherPut, MasterDelete, Kept
  <2>2. CASE OwnerPutStart
    <3>1. slot' = [slot EXCEPT ![nextGen + 1] = RetainHolder(MarkPendingVisible(PreparedSlot))]
      BY <2>2, Zenon DEF OwnerPutStart
    <3>2. nextGen + 1 \in Gens => ~SourceReadable(slot[nextGen + 1])
      <4>1. nextGen + 1 > nextGen
        BY SlotGens
      <4>2. nextGen + 1 \in Gens => slot[nextGen + 1].st = "free"
        BY <4>1, Zenon DEF SlotInv, SlotsHeld
      <4>3. QED
        BY <4>2, Zenon DEF SourceReadable
    <3>3. QED
      BY <3>1, <3>2, OneOperation, Zenon
  <2>3. CASE OwnerPutFail
    BY <2>3, DropKeeps, Zenon DEF OwnerPutFail
  <2>4. CASE OwnerPutPublish
    <3>1. lput.pc = "routed" /\ slot' = ReplaceIndexed([slot EXCEPT ![lput.gen] = PromotePending(slot[lput.gen])])
      BY <2>4, Zenon DEF OwnerPutPublish
    <3>2. lput # NoPut /\ ~Fenced
      BY <3>1 DEF NoPut, Order, LocalInv, LocalFence
    <3>3. lput.gen # 0 /\ lput.gen \in Gens /\ lput.gen # idx
      <4>1. Older(lput.gen)
        BY <3>2, NamedGens, Zenon DEF Order
      <4>2. lput.gen # 0
        BY <4>1 DEF Older, Written
      <4>3. QED
        BY <4>2, SlotGens, Zenon DEF SlotInv, ArcsApart, Known
    <3>4. slot[lput.gen] \in Slot
      BY <3>3, Zenon DEF SlotInv, SlotsHeld
    <3>5. PromotePending(slot[lput.gen]) \in Slot
      BY <3>4, Zenon DEF PromotePending, Slot, SlotStates, Scopes
    <3>6. CASE g = idx
      BY <3>1, <3>2, <3>6, Zenon DEF Loses
    <3>7. CASE g # idx
      BY <3>1, <3>3, <3>4, <3>5, <3>7, ReplaceKeeps, OperationKeeps, Zenon
    <3>8. QED
      BY <3>6, <3>7, Zenon
  <2>5. CASE Broadcast
    <3>1. PICK b \in Gens : BroadcastSkipped(b) \/ BroadcastLost(b) \/ BroadcastApply(b)
      BY <2>5, Zenon DEF Broadcast
    <3>2. CASE BroadcastSkipped(b) \/ BroadcastLost(b)
      BY <3>2, Zenon DEF BroadcastSkipped, BroadcastLost, Kept
    <3>3. CASE BroadcastApply(b)
      <4> DEFINE dropIdx == idx # 0 /\ idx <= b
                 global  == slot[b].scope = "GlobalShared" /\ slot[b].route
                 w == IF global /\ idx # b THEN [slot EXCEPT ![b] = ReleaseRoute(slot[b])] ELSE slot
      <4>1. /\ slot' = IF dropIdx THEN ReplaceIndexed(w) ELSE w
            /\ w \in [Gens -> Slot] /\ (idx # 0 => w[idx] = slot[idx])
        BY <3>3, BroadcastMoves, Zenon
      <4>2. ~Fenced /\ b \in bcast /\ b <= b
        BY <3>3, BoundAssumption DEF BroadcastApply, Gens
      <4>3. CASE g <= b
        BY <4>2, <4>3, Zenon DEF Loses
      <4>4. CASE ~(g <= b)
        <5>1. g # b /\ (dropIdx => g # idx)
          BY <4>2, <4>4, Zenon
        <5>2. w[g] = slot[g]
          BY <5>1, Zenon DEF SlotInv, SlotsHeld
        <5> HIDE DEF w
        <5>3. slot'[g] = w[g]
          BY <4>1, <5>1, IndexReplaced, Zenon
        <5>4. QED
          BY <5>2, <5>3, Zenon DEF Kept
      <4>5. QED
        BY <4>3, <4>4, Zenon
    <3>4. QED
      BY <3>1, <3>2, <3>3, Zenon
  <2>6. QED
    BY <2>1, <2>2, <2>3, <2>4, <2>5, Zenon DEF Put
\* Readers and gets.
<1>GetLoses. ASSUME Order, SlotInv, Read \/ RemoteGet \/ OwnerGet, NEW g \in Gens
             PROVE  Kept(g) \/ Loses(g)
  <2> USE <1>GetLoses
  <2>1. CASE Read
    <3>1. CASE ReadStart
      BY <3>1, Zenon DEF ReadStart, Kept
    <3>2. ASSUME NEW r \in Gens, ReadEnd(r) PROVE Kept(g)
      <4>1. slot' = slot \/ slot' = [slot EXCEPT ![r] = ReleaseHolder(slot[r])]
        BY <3>2, Zenon DEF ReadEnd
      <4>2. QED
        BY <4>1, OneOperation, OperationKeeps, Zenon DEF Kept
    <3>3. QED
      BY <2>1, <3>1, <3>2, Zenon DEF Read
  <2>2. CASE RemoteGet
    <3>1. \/ slot' = slot
          \/ slot' = [slot EXCEPT ![rget.gen] = AcquireSource(slot[rget.gen])]
          \/ slot' = [slot EXCEPT ![rget.gen] = ReleaseSource(slot[rget.gen])]
      BY <2>2, Zenon DEF RemoteGet, RemoteGetPlan, RemoteGetAcquire, RemoteGetDone, RemoteGetExpire
    <3>2. QED
      BY <3>1, OneOperation, OperationKeeps, Zenon DEF Kept
  <2>3. CASE (\E ext \in BOOLEAN : OwnerGetPlan(ext)) \/ OwnerGetExpire \/ OwnerGetInstall \/ OwnerGetDone
    <3>1. slot' = slot \/ slot' = [slot EXCEPT ![lget.gen] = RetainHolder(slot[lget.gen])]
      BY <2>3, Zenon DEF OwnerGetPlan, OwnerGetExpire, OwnerGetInstall, OwnerGetDone
    <3>2. QED
      BY <3>1, OneOperation, OperationKeeps, Zenon DEF Kept
  <2>4. CASE OwnerGetAbort
    BY <2>4, DropKeeps, Zenon DEF OwnerGetAbort
  <2>5. CASE OwnerGetPromote
    <3>1. CASE pend # lget.gen
      BY <2>5, <3>1, DropKeeps, Zenon DEF OwnerGetPromote
    <3>2. CASE pend = lget.gen
      <4>1. /\ lget.pc = "accepted" /\ ~Fenced
            /\ slot' = ReplaceIndexed([slot EXCEPT ![pend] = [slot[pend] EXCEPT !.scope = "LocalExclusive"]])
            /\ regressed' = IF idx > pend THEN regressed \cup {idx} ELSE regressed
        BY <2>5, <3>2, Zenon DEF OwnerGetPromote
      <4>2. pend # 0 /\ pend \in Gens /\ pend # idx
        <5>1. lget.pc # "idle" /\ HiddenGet
          BY <4>1, Zenon DEF HiddenGet
        <5>2. QED
          BY <3>2, <5>1, SlotGens, Zenon DEF Known, SlotInv, ArcsApart
      <4>3. CASE g = idx
        BY <3>2, <4>1, <4>3, Zenon DEF Loses
      <4>4. CASE g # idx
        <5>1. slot[pend] \in Slot
          BY <4>2, Zenon DEF SlotInv, SlotsHeld
        <5>2. [slot[pend] EXCEPT !.scope = "LocalExclusive"] \in Slot
          BY <5>1, Zenon DEF Slot, Scopes
        <5>3. QED
          BY <4>1, <4>2, <4>4, <5>1, <5>2, ReplaceKeeps, OperationKeeps, Zenon
      <4>5. QED
        BY <4>3, <4>4, Zenon
    <3>3. QED
      BY <3>1, <3>2, Zenon
  <2>6. QED
    BY <2>1, <2>2, <2>3, <2>4, <2>5, Zenon DEF OwnerGet
\* Reclaim and eviction.
<1>ReclaimLoses. ASSUME Order, SlotInv, SlotSource, Job \/ OwnerPhase \/ Evict \/ EvictHandler, NEW g \in Gens
                 PROVE  Kept(g) \/ Loses(g)
  <2> USE <1>ReclaimLoses
  <2>1. CASE Job
    BY <2>1, Zenon DEF Job, JobPlan, JobFence, JobTimeout, JobValidate, JobAbort, JobFinish, JobFinalizeRetry, JobClear, Kept
  <2>2. CASE EvictHandler
    BY <2>2, Zenon DEF EvictHandler, EvictFence, EvictReplan, EvictApply, Kept
  <2>3. CASE CommitEnd
    <3>1. /\ rec.st = "Releasing" /\ rec.item.why = "master"
          /\ rec' = [rec EXCEPT !.st = "Committed", !.src = "none"]
      BY <2>3, Zenon DEF CommitEnd
    <3>2. rec'.st = "Committed" /\ rec'.item = rec.item
      BY <3>1, Zenon DEF Order, Knows, Types, OwnerTypes, Records
    <3>3. CASE g = rec.item.gen
      BY <3>1, <3>2, <3>3, Zenon DEF Loses
    <3>4. CASE g # rec.item.gen
      BY <2>3, <3>4, CommitReleases, Zenon DEF Kept
    <3>5. QED
      BY <3>3, <3>4, Zenon
  <2>4. CASE OwnerPhase /\ ~CommitEnd
    BY <2>4, Zenon DEF OwnerPhase, HandlePrepare, CommitBegin, CommitRefused, HandleAbort, HandleFinalize, ProbeSlot,
       ProbeInstall, Kept
  <2>5. CASE EvictRelease
    <3>1. evict.pc = "release"
      BY <2>5, Zenon DEF EvictRelease
    <3>2. evict.out \in {"Completed", "DemotedGlobal"}
      BY <3>1, Zenon DEF Order, GoneBefore
    <3>3. /\ rec.item.gen = evict.gen /\ rec.src = "index"
          /\ \A h \in Gens : h # rec.item.gen => slot'[h] = slot[h]
          /\ evict.out = "DemotedGlobal" => SourceReadable(slot'[rec.item.gen])
      BY <2>5, EvictReleases, Zenon
    <3>4. QED
      BY <3>1, <3>2, <3>3, Zenon DEF Kept, Loses, RecArc
  <2>6. CASE EvictLost \/ EvictAnswered
    <3>1. slot' = slot \/ slot' = [slot EXCEPT ![evict.gen] = DropReservation(slot[evict.gen])]
      BY <2>6, Zenon DEF EvictLost, EvictAnswered, FinishSelection
    <3>2. QED
      BY <3>1, OneOperation, OperationKeeps, Zenon DEF Kept
  <2>7. ASSUME NEW r \in BOOLEAN, EvictSend(r) PROVE Kept(g)
    <3>1. slot' = slot \/ slot' = [slot EXCEPT ![evict.gen] = ReserveDemotion(slot[evict.gen])]
      BY <2>7, Zenon DEF EvictSend
    <3>2. QED
      BY <3>1, OneOperation, OperationKeeps, Zenon DEF Kept
  <2>8. CASE EvictSelect \/ EvictTimeout \/ EvictCommit \/ EvictFinalize
    BY <2>8, Zenon DEF EvictSelect, EvictTimeout, EvictCommit, EvictFinalize, Kept
  <2>9. QED
    BY <2>1, <2>2, <2>3, <2>4, <2>5, <2>6, <2>7, <2>8, Zenon DEF Evict
<1>1. CASE UNCHANGED vars
  BY <1>1, Zenon DEF vars, Kept
<1>2. QED
  BY <1>1, <1>PutLoses, <1>GetLoses, <1>ReclaimLoses, Zenon DEF Next

-----------------------------------------------------------------------------
(* A routed slot.                                                          *)

\* A routed slot stays readable through every step.
LEMMA StepReadable ==
  ASSUME Order, SlotInv, SlotSource, RouteReadable, [Next]_vars, SlotInv'
  PROVE  RouteReadable'
\* A put that the master has accepted ends by entering the index.
<1>PutEnds. ASSUME Knows, [Next]_vars, lput.pc = "routed", lput' # lput
            PROVE  lput' = NoPut /\ idx' = lput.gen
  <2> USE <1>PutEnds
  <2>0. lput # NoPut
    BY DEF NoPut
  <2>1. CASE UNCHANGED vars
    BY <2>1, Zenon DEF vars, localVars
  <2>2. CASE Put \/ MasterDelete
    BY <2>0, <2>2, Zenon DEF Put, OwnerPutStart, OwnerPutCommit, OwnerPutFail, OwnerPutPublish, OtherPut, MasterDelete, localVars
  <2>3. CASE Broadcast \/ Read \/ RemoteGet
    BY <2>3, Zenon DEF Broadcast, BroadcastSkipped, BroadcastLost, BroadcastApply, Read, ReadStart, ReadEnd, RemoteGet,
       RemoteGetPlan, RemoteGetAcquire, RemoteGetDone, RemoteGetExpire, localVars
  <2>4. CASE OwnerGet
    BY <2>4, Zenon DEF OwnerGet, OwnerGetPlan, OwnerGetExpire, OwnerGetInstall, OwnerGetDone, OwnerGetPromote, OwnerGetAbort,
       localVars
  <2>5. CASE Job
    BY <2>5, Zenon DEF Job, JobPlan, JobFence, JobTimeout, JobValidate, JobAbort, JobFinish, JobFinalizeRetry, JobClear, localVars
  <2>6. CASE OwnerPhase
    BY <2>6, Zenon DEF OwnerPhase, HandlePrepare, CommitBegin, CommitRefused, HandleAbort, HandleFinalize, ProbeSlot,
       ProbeInstall, CommitEnd, localVars
  <2>7. CASE Evict
    BY <2>7, Zenon DEF Evict, EvictSelect, EvictSend, EvictTimeout, EvictLost, EvictAnswered, EvictCommit, EvictRelease,
       EvictFinalize, localVars
  <2>8. CASE EvictHandler
    BY <2>8, Zenon DEF EvictHandler, EvictFence, EvictReplan, EvictApply, localVars
  <2>9. QED
    BY <2>1, <2>2, <2>3, <2>4, <2>5, <2>6, <2>7, <2>8, Zenon DEF Next
\* A committed record goes with a Finalize of its item, or with its eviction.
<1>CommittedStays. ASSUME Order, [Next]_vars, rec.st = "Committed", rec' # rec
                   PROVE  rec.item.why = "owner" \/ \E m \in net : m.ph = "finalize" /\ m.item = rec.item
  <2> USE <1>CommittedStays
  <2>0. rec # NoRec
    BY DEF NoRec
  <2>1. CASE UNCHANGED vars
    BY <2>1, Zenon DEF vars, localVars
  <2>2. CASE Put \/ MasterDelete \/ Broadcast \/ Read \/ RemoteGet \/ OwnerGet
    BY <2>2, DataProtocol, Zenon DEF protocolVars
  <2>3. CASE Job \/ EvictHandler
    BY <2>3, Zenon DEF Job, JobPlan, JobFence, JobTimeout, JobValidate, JobAbort, JobFinish, JobFinalizeRetry, JobClear,
       EvictHandler, EvictFence, EvictReplan, EvictApply, localVars
  <2>4. CASE OwnerPhase
    <3>1. ASSUME NEW m \in net, HandlePrepare(m) PROVE FALSE
      <4>1. PrepareEffect(m.item, PrepareStep(m.item)) /\ m.item.gen # 0
        <5>1. Older(m.item.gen)
          BY NamedGens, Zenon DEF Order
        <5>2. m.item.gen # 0
          BY <5>1 DEF Older, Written
        <5>3. QED
          BY <3>1, <5>2, Zenon DEF HandlePrepare
      <4>2. QED
        BY <2>0, <4>1, PrepareLocal, Zenon DEF Order
    <3>2. QED
      BY <2>4, <3>1, Unfenced, Zenon DEF OwnerPhase, CommitBegin, CommitRefused, HandleAbort, HandleFinalize, ProbeSlot,
         ProbeInstall, CommitEnd, localVars
  <2>5. CASE Evict
    <3>1. evict.pc \in {"commit", "release", "finalize"} => rec.item.why = "owner"
      BY Zenon DEF Order, Knows, ProtocolInv, LocalReclaim
    <3>2. CASE EvictAnswered
      <4>1. evict.gen # 0
        BY <3>2, SlotGens, Zenon DEF EvictAnswered, Known
      <4>2. EvictItem(evict.gen, op).gen # 0
        BY <4>1, Zenon DEF EvictItem
      <4>3. rec' = rec \/ PrepareEffect(EvictItem(evict.gen, op), PrepareStep(EvictItem(evict.gen, op)))
        BY <3>2, Zenon DEF EvictAnswered, FinishSelection
      <4>4. QED
        BY <2>0, <4>2, <4>3, PrepareLocal, Zenon DEF Order
    <3>3. QED
      BY <2>5, <3>1, <3>2, Zenon DEF Evict, EvictSelect, EvictSend, EvictTimeout, EvictLost, FinishSelection, EvictCommit,
         EvictRelease, EvictFinalize, localVars
  <2>6. QED
    BY <2>1, <2>2, <2>3, <2>4, <2>5, Zenon DEF Next
\* The regressed generations only grow.
<1>RegressedStays. ASSUME Order, [Next]_vars PROVE regressed \subseteq regressed'
  <2> USE <1>RegressedStays
  <2>1. CASE UNCHANGED vars
    BY <2>1, Zenon DEF vars, ghostVars
  <2>2. CASE Put \/ MasterDelete \/ Broadcast \/ Read \/ RemoteGet
    BY <2>2, Zenon DEF Put, OwnerPutStart, OwnerPutCommit, OwnerPutFail, OwnerPutPublish, OtherPut, MasterDelete,
       Broadcast, BroadcastSkipped, BroadcastLost, BroadcastApply, Read, ReadStart, ReadEnd, RemoteGet,
       RemoteGetPlan, RemoteGetAcquire, RemoteGetDone, RemoteGetExpire, ghostVars
  <2>3. CASE OwnerGet
    BY <2>3, Zenon DEF OwnerGet, OwnerGetPlan, OwnerGetExpire, OwnerGetInstall, OwnerGetDone, OwnerGetPromote, OwnerGetAbort,
       ghostVars
  <2>4. CASE Job \/ EvictHandler
    BY <2>4, Zenon DEF Job, JobPlan, JobFence, JobTimeout, JobValidate, JobAbort, JobFinish, JobFinalizeRetry, JobClear,
       EvictHandler, EvictFence, EvictReplan, EvictApply, ghostVars
  <2>5. CASE OwnerPhase
    BY <2>5, Zenon DEF OwnerPhase, HandlePrepare, CommitBegin, CommitRefused, HandleAbort, HandleFinalize, ProbeSlot,
       ProbeInstall, CommitEnd, ghostVars
  <2>6. CASE Evict
    BY <2>6, Zenon DEF Evict, EvictSelect, EvictSend, EvictTimeout, EvictLost, EvictAnswered, EvictCommit, EvictRelease,
       EvictFinalize, ghostVars
  <2>7. QED
    BY <2>1, <2>2, <2>3, <2>4, <2>5, <2>6, Zenon DEF Next
\* The routed slot does not lose its route, but for a committed reclaim or a
\* get that puts an older generation into the index.
<1>RoutedLost. ASSUME Order, SlotInv, route.own, Loses(route.gen)
               PROVE  \/ route.gen \in regressed'
                      \/ rec'.st = "Committed" /\ rec'.item.why = "master" /\ rec'.item.gen = route.gen
  <2> USE <1>RoutedLost
  <2>1. CASE route.gen = idx /\ ~Fenced /\ lput.pc = "routed"
    <3>1. route.gen = lput.gen /\ route.gen # 0
      BY <2>1, SlotGens, Zenon DEF Order, RouteOrder, Known
    <3>2. QED
      BY <2>1, <3>1, Zenon DEF SlotInv, ArcsApart
  <2>2. CASE /\ route.gen = idx /\ ~Fenced /\ lget.pc = "accepted" /\ pend = lget.gen
             /\ idx > pend => idx \in regressed'
    <3>1. lget.pc # "idle" /\ HiddenGet
      BY <2>2, Zenon DEF HiddenGet
    <3>2. lget.gen # idx /\ lget.gen <= route.gen
      BY <3>1, Zenon DEF SlotInv, ArcsApart, Order, RouteOrder
    <3>3. lget.gen \in Nat /\ route.gen \in Nat
      BY Zenon DEF Order, Knows, Types, MasterTypes, OwnerTypes, Gets
    <3>4. QED
      BY <2>2, <3>2, <3>3
  <2>3. CASE \E b \in bcast : route.gen <= b
    <3>1. PICK b \in bcast : route.gen <= b
      BY <2>3, Zenon
    <3>2. b < route.gen /\ Known(b) /\ Known(route.gen)
      BY <3>1, SlotGens, Zenon DEF Order, RouteOrder
    <3>3. QED
      BY <3>1, <3>2, BoundAssumption DEF Known, Gens
  <2>4. CASE rec.item.why = "master" /\ route.gen = rec.item.gen /\ rec'.st = "Committed" /\ rec'.item = rec.item
    BY <2>4, Zenon
  <2>5. CASE route.gen = evict.gen /\ evict.pc = "release" /\ evict.out = "Completed"
    BY <2>5, Zenon DEF Order, GoneBefore, Gone
  <2>6. QED
    BY <2>1, <2>2, <2>3, <2>4, <2>5, Zenon DEF Loses
<1> SUFFICES ASSUME route'.own, lput'.gen # route'.gen, route'.gen \notin regressed'
             PROVE  \/ SourceReadable(slot'[route'.gen])
                    \/ rec'.st = "Committed" /\ rec'.item.why = "master" /\ rec'.item.gen = route'.gen
  BY Zenon DEF RouteReadable
<1>1. ~OwnerPutCommit
  <2>1. SUFFICES ASSUME OwnerPutCommit PROVE FALSE
    BY Zenon
  <2>2. route'.gen = lput.gen /\ lput'.gen = lput.gen
    BY <2>1, Zenon DEF OwnerPutCommit, Order, Knows, Types, OwnerTypes, Puts
  <2>3. QED
    BY <2>2, Zenon
<1>2. route.own /\ route'.gen = route.gen /\ (OwnerPutStart \/ lput' \in {lput, NoPut})
  <2>1. CASE OwnerPutStart
    BY <2>1, Zenon DEF OwnerPutStart
  <2>2. CASE ~OwnerPutStart
    BY <1>1, <2>2, RouteMoves, Zenon DEF Order, Naming
  <2>3. QED
    BY <2>1, <2>2, Zenon
<1>3. route.gen \in Gens /\ route.gen # 0
  BY <1>2, SlotGens, Zenon DEF Known
<1>4. CASE lput.gen = route.gen
  <2>1. lput' = NoPut /\ lput' # lput
    <3>1. lput # NoPut
      BY <1>3, <1>4 DEF NoPut
    <3>2. ~OwnerPutStart
      BY <3>1, Zenon DEF OwnerPutStart
    <3>3. QED
      BY <1>2, <1>4, <3>2, Zenon
  <2>2. lput.pc = "routed"
    <3>1. lput.pc # "precommit"
      BY <1>2, <1>4 DEF Order, RouteOrder, Knows, Types, OwnerTypes, Puts
    <3>2. lput.pc # "idle"
      BY <2>1, NamedGens, Zenon DEF Order
    <3>3. QED
      BY <3>1, <3>2, Zenon DEF Order, Knows, Types, OwnerTypes, Puts
  <2>3. idx' = lput.gen
    BY <2>1, <2>2, <1>PutEnds, Zenon DEF Order
  <2>4. QED
    BY <1>2, <1>3, <1>4, <2>3, Zenon DEF SlotInv, RoutedArcs
<1>5. CASE lput.gen # route.gen
  <2>1. route.gen \notin regressed
    BY <1>2, <1>RegressedStays, Zenon
  <2>2. CASE SourceReadable(slot[route.gen])
    <3>1. Kept(route.gen) \/ Loses(route.gen)
      BY <1>3, RouteLost, Zenon
    <3>2. QED
      BY <1>2, <2>2, <3>1, <1>RoutedLost, Zenon DEF Kept
  <2>3. CASE rec.st = "Committed" /\ rec.item.why = "master" /\ rec.item.gen = route.gen
    <3>1. rec' = rec
      <4>1. SUFFICES ASSUME rec' # rec PROVE FALSE
        BY Zenon
      <4>2. PICK m \in net : m.ph = "finalize" /\ m.item = rec.item
        BY <2>3, <4>1, <1>CommittedStays, Zenon
      <4>3. QED
        BY <1>2, <2>3, <4>2, Zenon DEF Order, GoneBefore, Gone
    <3>2. QED
      BY <1>2, <2>3, <3>1, Zenon
  <2>4. QED
    BY <1>2, <1>5, <2>1, <2>2, <2>3, Zenon DEF RouteReadable
<1>6. QED
  BY <1>4, <1>5, Zenon

-----------------------------------------------------------------------------
(* The slot behind a probe, and behind the record made from it.            *)

\* An item of an earlier job than the planned one is not fenced anew.
LEMMA SameFence ==
  ASSUME Order, [Next]_vars, NEW i, i.why = "master", job.pc = "planned" => i.epoch < epoch, i = fence'
  PROVE  i = fence
\* Only a planned job installs a fence of the master's.
<1>FenceMoves. ASSUME Order, [Next]_vars, fence'.why = "master"
               PROVE  fence' = fence \/ (job.pc = "planned" /\ fence' = job.item)
  <2> USE <1>FenceMoves
  <2>0. NoItem.why = "none" /\ \A g, o : EvictItem(g, o).why = "owner"
    BY OwnerItem, NoItemWhy, Zenon
  <2>1. CASE UNCHANGED vars
    BY <2>1, Zenon DEF vars, masterVars
  <2>2. CASE Put \/ MasterDelete \/ Broadcast \/ Read \/ RemoteGet \/ OwnerGet
    BY <2>2, DataProtocol, Zenon DEF protocolVars
  <2>3. CASE Job
    BY <2>0, <2>3, Zenon DEF Job, JobPlan, JobFence, JobTimeout, JobValidate, JobAbort, JobFinish, JobFinalizeRetry, JobClear
  <2>4. CASE OwnerPhase
    BY <2>4, Zenon DEF OwnerPhase, HandlePrepare, CommitBegin, CommitRefused, HandleAbort, HandleFinalize, ProbeSlot,
       ProbeInstall, CommitEnd, masterVars
  <2>5. CASE Evict
    BY <2>5, Zenon DEF Evict, EvictSelect, EvictSend, EvictTimeout, EvictLost, EvictAnswered, EvictCommit, EvictRelease,
       EvictFinalize, masterVars
  <2>6. CASE EvictHandler
    BY <2>0, <2>6 DEF EvictHandler, EvictFence, EvictReplan, EvictApply
  <2>7. QED
    BY <2>1, <2>2, <2>3, <2>4, <2>5, <2>6, Zenon DEF Next
<1>1. CASE fence' = fence
  BY <1>1, Zenon
<1>2. CASE job.pc = "planned" /\ fence' = job.item
  <2>1. i.epoch < epoch /\ i.epoch = epoch /\ epoch \in Nat
    BY <1>2, Zenon DEF Order, Knows, ProtocolInv, FenceOwner, Types, MasterTypes
  <2>2. QED
    BY <2>1
<1>3. QED
  BY <1>1, <1>2, <1>FenceMoves, Zenon

\* Behind a fence the route is not made to name anything.
LEMMA SameRoute ==
  ASSUME Order, [Next]_vars, NEW i, RouteValid(i)', fence # NoItem
  PROVE  RouteValid(i)
<1>1. ~OwnerPutCommit
  BY Zenon DEF OwnerPutCommit
<1>2. CASE OwnerPutStart
  BY <1>2, Zenon DEF OwnerPutStart, RouteValid
<1>3. CASE ~OwnerPutStart
  BY <1>1, <1>3, RouteMoves, Zenon DEF Naming, RouteValid, Order
<1>4. QED
  BY <1>2, <1>3, Zenon

\* The slot of a record that may be committed keeps its route until then.
LEMMA StepSlotSource ==
  ASSUME Order, SlotInv, ProbeSource, SlotSource, [Next]_vars, Order'
  PROVE  SlotSource'
\* A Commit is sent for an item the route still names.
<1>CommitSent. ASSUME Order, [Next]_vars, NEW m \in net', m.ph = "commit", m \notin net
               PROVE  RouteValid(m.item)
  <2> USE <1>CommitSent
  <2>1. CASE UNCHANGED vars
    BY <2>1, Zenon DEF vars, netVars
  <2>2. CASE Put \/ MasterDelete \/ Broadcast \/ Read \/ RemoteGet \/ OwnerGet
    BY <2>2, DataProtocol, Zenon DEF protocolVars
  <2>3. CASE Job
    <3>0. \A ph, t : Request(ph, job.item, t).ph = ph /\ Request(ph, job.item, t).item = job.item
      BY Zenon DEF Request
    <3>1. CASE JobValidate
      <4>1. net' = net \/ (RouteValid(job.item) /\ net' = net \cup {Request("commit", job.item, 0)})
        BY <3>1, Zenon DEF JobValidate, Send
      <4>2. RouteValid(job.item) /\ m = Request("commit", job.item, 0)
        BY <4>1, Zenon
      <4>3. QED
        BY <3>0, <4>2, Zenon
    <3>2. CASE JobFence \/ JobAbort \/ JobFinish \/ JobFinalizeRetry
      <4>1. PICK ph, t : net' \subseteq net \cup {Request(ph, job.item, t)} /\ ph # "commit"
        BY <3>2 DEF JobFence, JobAbort, JobFinish, JobFinalizeRetry, Send
      <4>2. QED
        BY <3>0, <4>1, Zenon
    <3>3. CASE JobPlan \/ JobTimeout \/ JobClear
      BY <3>3, Zenon DEF JobPlan, JobTimeout, JobClear, netVars
    <3>4. QED
      BY <2>3, <3>1, <3>2, <3>3, Zenon DEF Job
  <2>4. CASE OwnerPhase
    BY <2>4, Zenon DEF OwnerPhase, HandlePrepare, CommitBegin, CommitRefused, HandleAbort, HandleFinalize, ProbeSlot,
       ProbeInstall, CommitEnd, netVars
  <2>5. CASE Evict \/ EvictHandler
    BY <2>5, Zenon DEF Evict, EvictSelect, EvictSend, EvictTimeout, EvictLost, EvictAnswered, EvictCommit, EvictRelease,
       EvictFinalize, EvictHandler, EvictFence, EvictReplan, EvictApply, netVars
  <2>6. QED
    BY <2>1, <2>2, <2>3, <2>4, <2>5, Zenon DEF Next
\* A record of a slot comes from a probe, and moves on by a Commit.
<1>RecFromSlot. ASSUME Order, [Next]_vars, rec'.src = "slot"
                PROVE  \/ /\ rec.src = "slot" /\ rec'.item = rec.item
                          /\ rec'.st = rec.st \/ \E m \in net : m.ph = "commit" /\ m.item = rec.item
                       \/ \E p \in probes : /\ p.seen = "routeOnly" /\ rec' = Prepared(p.req.item, "slot")
                                            /\ UNCHANGED <<slot, route, fence, net>>
  <2> USE <1>RecFromSlot
  <2>0. /\ NoRec.src = "none" /\ rec \in Records /\ \A i : Prepared(i, "index").src = "index"
    BY Zenon DEF NoRec, Prepared, Order, Knows, Types, OwnerTypes
  <2>1. ASSUME NEW i, i.gen # 0, PrepareEffect(i, PrepareStep(i)) PROVE rec' = rec
    BY <2>0, <2>1, PrepareLocal, Zenon DEF Order
  <2>2. CASE UNCHANGED vars
    BY <2>2, Zenon DEF vars, localVars
  <2>3. CASE Put \/ MasterDelete \/ Broadcast \/ Read \/ RemoteGet \/ OwnerGet
    BY <2>3, DataProtocol, Zenon DEF protocolVars
  <2>4. CASE Job \/ EvictHandler
    BY <2>4, Zenon DEF Job, JobPlan, JobFence, JobTimeout, JobValidate, JobAbort, JobFinish, JobFinalizeRetry, JobClear,
       EvictHandler, EvictFence, EvictReplan, EvictApply, localVars
  <2>5. CASE OwnerPhase
    <3>1. ASSUME NEW m \in net, HandlePrepare(m) PROVE rec' = rec
      <4>1. Older(m.item.gen)
        BY NamedGens, Zenon DEF Order
      <4>2. m.item.gen # 0
        BY <4>1 DEF Older, Written
      <4>3. QED
        BY <2>1, <3>1, <4>2, Zenon DEF HandlePrepare
    <3>2. ASSUME NEW m \in net, CommitBegin(m)
          PROVE  rec.src = "slot" /\ rec'.item = rec.item /\ m.ph = "commit" /\ m.item = rec.item
      BY <2>0, <3>2, Zenon DEF CommitBegin, Records
    <3>3. ASSUME NEW m \in net, CommitRefused(m) \/ HandleAbort(m) \/ HandleFinalize(m) PROVE rec' = rec
      BY <2>0, <3>3, Zenon DEF CommitRefused, HandleAbort, HandleFinalize, localVars
    <3>4. ASSUME NEW p \in probes, ProbeSlot(p) PROVE rec' = rec
      BY <3>4, Zenon DEF ProbeSlot
    <3>5. ASSUME NEW p \in probes, ProbeInstall(p)
          PROVE  \/ rec' = rec
                 \/ /\ p.seen = "routeOnly" /\ rec' = Prepared(p.req.item, "slot")
                    /\ UNCHANGED <<slot, route, fence, net>>
      BY <3>5, Zenon DEF ProbeInstall, netVars
    <3>6. ~CommitEnd
      <4>1. SUFFICES ASSUME CommitEnd PROVE FALSE
        BY Zenon
      <4>2. rec'.src = "none"
        BY <2>0, <4>1, Zenon DEF CommitEnd, Records
      <4>3. QED
        BY <4>2, Zenon
    <3>7. QED
      BY <2>5, <3>1, <3>2, <3>3, <3>4, <3>5, <3>6, Zenon DEF OwnerPhase
  <2>6. CASE Evict
    <3>1. CASE EvictAnswered
      <4>1. evict.gen # 0
        BY <3>1, SlotGens, Zenon DEF EvictAnswered, Known
      <4>2. EvictItem(evict.gen, op).gen # 0
        BY <4>1, Zenon DEF EvictItem
      <4>3. rec' = rec \/ PrepareEffect(EvictItem(evict.gen, op), PrepareStep(EvictItem(evict.gen, op)))
        BY <3>1, Zenon DEF EvictAnswered, FinishSelection
      <4>4. QED
        BY <2>1, <4>2, <4>3, Zenon
    <3>2. CASE EvictCommit \/ EvictRelease \/ EvictFinalize
      <4>1. evict.pc \in {"commit", "release", "finalize"}
        BY <3>2, Zenon DEF EvictCommit, EvictRelease, EvictFinalize
      <4>2. rec.item.why = "owner"
        BY <4>1, Zenon DEF Order, Knows, ProtocolInv, LocalReclaim
      <4>3. rec.src # "slot"
        BY <4>2, Zenon DEF Order, LocalInv, RecShape
      <4>4. rec'.src \in {rec.src, "none"}
        BY <2>0, <3>2, Zenon DEF EvictCommit, EvictRelease, EvictFinalize, Records
      <4>5. QED
        BY <4>3, <4>4, Zenon
    <3>3. QED
      BY <2>6, <3>1, <3>2, Zenon DEF Evict, EvictSelect, EvictSend, EvictTimeout, EvictLost, FinishSelection, localVars
  <2>7. QED
    BY <2>2, <2>3, <2>4, <2>5, <2>6, Zenon DEF Next
<1> SUFFICES ASSUME rec'.src = "slot", rec'.item = fence', Committing(rec.item)'
             PROVE  SourceReadable(slot'[rec'.item.gen])
  BY Zenon DEF SlotSource
<1>0. NoItem.why = "none"
  BY NoItemWhy, Zenon
<1>1. rec'.st \in {"Prepared", "Releasing"}
  BY Zenon DEF Order, LocalInv, RecShape
<1>2. PICK i : i = rec'.item
  BY Zenon
<1>3. rec'.st = "Releasing" \/ RouteValid(i)' \/ \E m \in net' : m.ph = "commit" /\ m.item = i
  BY <1>2, Zenon DEF Committing, RouteValid
<1>4. CASE /\ rec.src = "slot" /\ rec'.item = rec.item
           /\ rec'.st = rec.st \/ \E m \in net : m.ph = "commit" /\ m.item = rec.item
  <2>1. i = rec.item /\ i.why = "master" /\ i = fence' /\ rec # NoRec
    BY <1>2, <1>4, SlotGens, Zenon DEF Order, LocalInv, RecShape
  <2>2. job.pc = "planned" => i.epoch < epoch
    BY <2>1, Zenon DEF Order, Knows, ProtocolInv, NetItems
  <2>3. i = fence /\ fence # NoItem
    <3>1. i = fence
      BY <2>1, <2>2, SameFence, Zenon
    <3>2. QED
      BY <1>0, <2>1, <3>1, Zenon
  <2>4. Committing(i)
    <3>1. CASE rec'.st = "Releasing"
      BY <1>4, <2>1, <3>1, Zenon DEF Committing
    <3>2. CASE RouteValid(i)'
      BY <2>3, <3>2, SameRoute, Zenon DEF Committing
    <3>3. ASSUME NEW m \in net', m.ph = "commit", m.item = i PROVE Committing(i)
      BY <3>3, <1>CommitSent, Zenon DEF Committing
    <3>4. QED
      BY <1>3, <3>1, <3>2, <3>3, Zenon
  <2>5. SourceReadable(slot[i.gen]) /\ i.gen \in Gens
    BY <1>4, <2>1, <2>3, <2>4, SlotGens, Zenon DEF SlotSource, Known
  <2>6. ~Loses(i.gen)
    <3>1. Fenced
      BY <2>1, Zenon DEF Fenced
    <3>2. ~RecArc(i.gen)
      BY <1>4, Zenon DEF RecArc
    <3>3. rec'.st # "Committed"
      BY <1>1, Zenon
    <3>4. QED
      BY <3>1, <3>2, <3>3, Zenon DEF Loses
  <2>7. QED
    BY <1>2, <2>5, <2>6, RouteLost, Zenon DEF Kept
<1>5. ASSUME NEW p \in probes, p.seen = "routeOnly", rec' = Prepared(p.req.item, "slot"),
             UNCHANGED <<slot, route, fence, net>>
      PROVE  SourceReadable(slot'[rec'.item.gen])
  <2>1. rec'.item = p.req.item /\ rec'.st = "Prepared"
    BY <1>5, Zenon DEF Prepared
  <2>2. \A m \in net : m.ph = "commit" => m.item # p.req.item
    <3>1. p.req \in Preparing
      BY Zenon DEF Preparing
    <3>2. QED
      BY <3>1, Zenon DEF Order, Knows, ProtocolInv, PrepareFirst
  <2>3. RouteValid(i)'
    BY <1>2, <1>3, <1>5, <2>1, <2>2, Zenon
  <2>4. RouteValid(p.req.item)
    BY <1>2, <1>5, <2>1, <2>3, Zenon DEF RouteValid
  <2>5. p.req.item = fence
    BY <1>5, <2>1, Zenon
  <2>6. QED
    BY <1>5, <2>1, <2>4, <2>5, Zenon DEF ProbeSource
<1>6. QED
  BY <1>4, <1>5, <1>RecFromSlot, Zenon

\* A probed slot stays as the probe saw it.
LEMMA StepProbeSource ==
  ASSUME Order, SlotInv, ProbeSource, SlotSource, [Next]_vars
  PROVE  ProbeSource'
\* A probe comes from an earlier one by a look at its slot.
<1>ProbesMove. ASSUME Order, [Next]_vars, NEW p \in probes', p.seen = "routeOnly", p \notin probes
               PROVE  /\ \E q \in probes : p.req = q.req
                      /\ RouteOnly(slot[p.req.item.gen])
                      /\ UNCHANGED <<slot, idx, sel, rec, lput, lget, fence, route>>
  <2> USE <1>ProbesMove
  <2>1. CASE UNCHANGED vars
    BY <2>1, Zenon DEF vars, localVars
  <2>2. CASE Put \/ MasterDelete \/ Broadcast \/ Read \/ RemoteGet \/ OwnerGet
    BY <2>2, DataProtocol, Zenon DEF protocolVars
  <2>3. CASE Job \/ EvictHandler
    BY <2>3, Zenon DEF Job, JobPlan, JobFence, JobTimeout, JobValidate, JobAbort, JobFinish, JobFinalizeRetry, JobClear,
       EvictHandler, EvictFence, EvictReplan, EvictApply, localVars
  <2>4. CASE Evict
    BY <2>4, Zenon DEF Evict, EvictSelect, EvictSend, EvictTimeout, EvictLost, EvictAnswered, EvictCommit, EvictRelease,
       EvictFinalize, localVars
  <2>5. CASE OwnerPhase
    <3>1. ASSUME NEW m \in net, HandlePrepare(m) PROVE FALSE
      <4>1. probes' \subseteq probes \cup {[req |-> m, seen |-> "no"]}
        BY <3>1, Zenon DEF HandlePrepare
      <4>2. QED
        BY <4>1
    <3>2. ASSUME NEW q \in probes, ProbeSlot(q)
          PROVE  p.req = q.req /\ RouteOnly(slot[p.req.item.gen]) /\ UNCHANGED <<slot, idx, sel, rec, lput, lget, fence, route>>
      <4>1. q \in Probes
        BY Zenon DEF Order, Knows, Types, OwnerTypes
      <4>2. p = [q EXCEPT !.seen = IF RouteOnly(slot[q.req.item.gen]) THEN "routeOnly" ELSE "changed"]
        BY <3>2, Zenon DEF ProbeSlot
      <4>3. p.req = q.req /\ p.seen = IF RouteOnly(slot[q.req.item.gen]) THEN "routeOnly" ELSE "changed"
        BY <4>1, <4>2, Zenon DEF Probes
      <4>4. RouteOnly(slot[p.req.item.gen])
        BY <4>3, Zenon
      <4>5. QED
        BY <3>2, <4>3, <4>4, Zenon DEF ProbeSlot, masterVars
    <3>3. QED
      BY <2>5, <3>1, <3>2, Zenon DEF OwnerPhase, CommitBegin, CommitRefused, HandleAbort, HandleFinalize, ProbeInstall,
         CommitEnd, localVars
  <2>6. QED
    BY <2>1, <2>2, <2>3, <2>4, <2>5, Zenon DEF Next
\* While no get holds the key's activity, nothing off the index comes near it.
<1>OffIndexStays. ASSUME Order, [Next]_vars, NEW g \in Gens, g <= nextGen, OffIndex(g), gets = 0
                  PROVE  OffIndex(g)'
  <2> USE <1>OffIndexStays
  \* How a generation enters the index, a selection, a put, a record or an own get.
  <2>IndexMoves. ASSUME Order, [Next]_vars
                 PROVE  /\ \/ idx' \in {idx, 0, sel, lput.gen} \/ RecArc(idx')
                           \/ lget.pc = "accepted" /\ idx' = lget.gen
                        /\ sel' \in {sel, 0, idx}
                        /\ lput'.gen \in {lput.gen, 0, nextGen + 1}
                        /\ rec'.src = "index" => RecArc(rec'.item.gen) \/ rec'.item.gen \in {idx, sel}
                        /\ lget'.pc = "accepted" => lget.act \/ (lget.pc = "accepted" /\ lget'.gen = lget.gen)
    <3> USE <2>IndexMoves
    <3>0. /\ lput \in Puts /\ lget \in Gets /\ rec \in Records /\ NoPut.gen = 0 /\ NoRec.src = "none" /\ NoLGet.pc = "idle"
      BY Zenon DEF NoPut, NoRec, NoLGet, Order, Knows, Types, OwnerTypes
    <3>1. rec' = rec => (rec'.src = "index" => RecArc(rec'.item.gen) \/ rec'.item.gen \in {idx, sel})
      BY Zenon DEF RecArc
    <3>2. ASSUME NEW i, i.gen # 0, PrepareEffect(i, PrepareStep(i))
          PROVE  /\ idx' \in {idx, 0} /\ sel' \in {sel, 0}
                 /\ rec'.src = "index" => RecArc(rec'.item.gen) \/ rec'.item.gen \in {idx, sel}
      <4>1. Prepared(i, "index").item = i
        BY Zenon DEF Prepared
      <4>2. QED
        BY <3>1, <3>2, <4>1, PrepareLocal, Zenon DEF Order
    <3>3. CASE UNCHANGED vars
      BY <3>1, <3>3, Zenon DEF vars, localVars
    <3>4. CASE Put \/ MasterDelete
      <4>1. UNCHANGED <<sel, rec, lget>> /\ idx' \in {idx, lput.gen}
        BY <3>4, Zenon DEF Put, OwnerPutStart, OwnerPutCommit, OwnerPutFail, OwnerPutPublish, OtherPut, MasterDelete, localVars
      <4>2. lput'.gen \in {lput.gen, 0, nextGen + 1}
        <5>1. \/ lput' = lput \/ lput' = NoPut \/ lput' = [lput EXCEPT !.pc = "routed"]
              \/ lput' = [pc |-> "precommit", gen |-> nextGen + 1]
          BY <3>4, Zenon DEF Put, OwnerPutStart, OwnerPutCommit, OwnerPutFail, OwnerPutPublish, OtherPut, MasterDelete, localVars
        <5>2. QED
          BY <3>0, <5>1 DEF Puts
      <4>3. QED
        BY <3>1, <4>1, <4>2, Zenon
    <3>5. CASE Broadcast \/ Read \/ RemoteGet
      <4>1. UNCHANGED <<sel, rec, lget, lput>> /\ idx' \in {idx, 0}
        BY <3>5, Zenon DEF Broadcast, BroadcastSkipped, BroadcastLost, BroadcastApply, Read, ReadStart, ReadEnd, RemoteGet,
           RemoteGetPlan, RemoteGetAcquire, RemoteGetDone, RemoteGetExpire, localVars
      <4>2. QED
        BY <3>1, <4>1, Zenon
    <3>6. CASE OwnerGet
      <4>1. UNCHANGED <<sel, rec, lput>> /\ (idx' = idx \/ (lget.pc = "accepted" /\ idx' = lget.gen))
        BY <3>6, Zenon DEF OwnerGet, OwnerGetPlan, OwnerGetExpire, OwnerGetInstall, OwnerGetDone, OwnerGetPromote,
           OwnerGetAbort, localVars
      <4>2. lget'.pc = "accepted" => lget.act \/ (lget.pc = "accepted" /\ lget'.gen = lget.gen)
        <5>1. CASE OwnerGetDone
          BY <3>0, <5>1, Zenon DEF OwnerGetDone, Gets
        <5>2. CASE OwnerGetInstall \/ OwnerGetExpire
          BY <3>0, <5>2, Zenon DEF OwnerGetInstall, OwnerGetExpire, Gets
        <5>3. CASE (\E ext \in BOOLEAN : OwnerGetPlan(ext)) \/ OwnerGetPromote \/ OwnerGetAbort
          BY <3>0, <5>3 DEF OwnerGetPlan, OwnerGetPromote, OwnerGetAbort
        <5>4. QED
          BY <3>6, <5>1, <5>2, <5>3, Zenon DEF OwnerGet
      <4>3. QED
        BY <3>1, <4>1, <4>2, Zenon
    <3>7. CASE Job \/ EvictHandler
      <4>1. UNCHANGED <<idx, sel, rec, lput, lget>>
        BY <3>7, Zenon DEF Job, JobPlan, JobFence, JobTimeout, JobValidate, JobAbort, JobFinish, JobFinalizeRetry, JobClear,
           EvictHandler, EvictFence, EvictReplan, EvictApply, localVars
      <4>2. QED
        BY <3>1, <4>1, Zenon
    <3>8. CASE OwnerPhase
      <4>0. UNCHANGED <<lput, lget>>
        BY <3>8, Zenon DEF OwnerPhase, HandlePrepare, CommitBegin, CommitRefused, HandleAbort, HandleFinalize, ProbeSlot,
           ProbeInstall, CommitEnd, localVars
      <4>1. ASSUME NEW m \in net, HandlePrepare(m)
            PROVE  PrepareEffect(m.item, PrepareStep(m.item)) /\ m.item.gen # 0
        <5>1. Older(m.item.gen)
          BY NamedGens, Zenon DEF Order
        <5>2. m.item.gen # 0
          BY <5>1 DEF Older, Written
        <5>3. QED
          BY <4>1, <5>2, Zenon DEF HandlePrepare
      <4>2. ASSUME NEW m \in net, CommitBegin(m) \/ CommitRefused(m) \/ HandleFinalize(m)
            PROVE  UNCHANGED <<idx, sel>> /\ (rec' = rec \/ rec' = NoRec \/ (rec'.src = rec.src /\ rec'.item = rec.item))
        BY <3>0, <4>2, Zenon DEF CommitBegin, CommitRefused, HandleFinalize, Records, localVars
      <4>3. ASSUME NEW m \in net, HandleAbort(m)
            PROVE  sel' = sel /\ (rec' = rec \/ rec' = NoRec) /\ (idx' = idx \/ RecArc(idx'))
        BY <4>3, Zenon DEF HandleAbort, RecArc
      <4>4. ASSUME NEW p \in probes, ProbeSlot(p) \/ ProbeInstall(p)
            PROVE  UNCHANGED <<idx, sel>> /\ (rec' = rec \/ rec'.src = "slot")
        <5>1. \A i : Prepared(i, "slot").src = "slot"
          BY Zenon DEF Prepared
        <5>2. QED
          BY <4>4, <5>1, Zenon DEF ProbeSlot, ProbeInstall
      <4>5. CommitEnd => UNCHANGED <<idx, sel>> /\ rec'.src = "none"
        BY <3>0, Zenon DEF CommitEnd, Records
      <4>6. (rec'.src = rec.src /\ rec'.item = rec.item) => (rec'.src = "index" => RecArc(rec'.item.gen))
        BY Zenon DEF RecArc
      <4>7. "slot" # "index" /\ "none" # "index"
        BY Zenon
      <4>8. QED
        BY <3>0, <3>1, <3>2, <3>8, <4>0, <4>1, <4>2, <4>3, <4>4, <4>5, <4>6, <4>7, Zenon DEF OwnerPhase
    <3>9. CASE Evict
      <4>0. UNCHANGED <<lput, lget>>
        BY <3>9, Zenon DEF Evict, EvictSelect, EvictSend, EvictTimeout, EvictLost, EvictAnswered, EvictCommit, EvictRelease,
           EvictFinalize, localVars
      <4>1. CASE EvictAnswered
        <5>1. evict.gen # 0
          BY <4>1, SlotGens, Zenon DEF EvictAnswered, Known
        <5>2. EvictItem(evict.gen, op).gen # 0
          BY <5>1, Zenon DEF EvictItem
        <5>3. \/ FinishSelection \/ UNCHANGED <<idx, sel, rec>>
              \/ PrepareEffect(EvictItem(evict.gen, op), PrepareStep(EvictItem(evict.gen, op)))
          BY <4>1, Zenon DEF EvictAnswered
        <5>4. QED
          BY <3>1, <3>2, <4>0, <5>2, <5>3, Zenon DEF FinishSelection
      <4>2. CASE EvictLost
        BY <3>1, <4>0, <4>2, Zenon DEF EvictLost, FinishSelection
      <4>3. CASE EvictSelect \/ (\E r \in BOOLEAN : EvictSend(r)) \/ EvictTimeout
        BY <3>1, <4>0, <4>3, Zenon DEF EvictSelect, EvictSend, EvictTimeout, localVars
      <4>4. CASE EvictCommit \/ EvictRelease \/ EvictFinalize
        <5>1. UNCHANGED <<idx, sel>> /\ (rec'.src = "none" \/ (rec'.src = rec.src /\ rec'.item = rec.item))
          BY <3>0, <4>4, Zenon DEF EvictCommit, EvictRelease, EvictFinalize, Records
        <5>2. rec'.src = "index" => RecArc(rec'.item.gen)
          BY <5>1, Zenon DEF RecArc
        <5>3. QED
          BY <4>0, <5>1, <5>2, Zenon
      <4>5. QED
        BY <3>9, <4>1, <4>2, <4>3, <4>4, Zenon DEF Evict
    <3>10. QED
      BY <3>3, <3>4, <3>5, <3>6, <3>7, <3>8, <3>9, Zenon DEF Next
  <2>1. ~lget.act
    <3>1. SUFFICES ASSUME lget.act PROVE FALSE
      BY Zenon
    <3>2. Acts(lget) = 1 /\ Acts(rget) \in {0, 1} /\ gets = Acts(rget) + Acts(lget)
      BY <3>1, Zenon DEF Acts, Order, GetCount
    <3>3. QED
      BY <3>2
  <2>2. g # 0 /\ g # nextGen + 1
    BY BoundAssumption, SlotGens DEF Gens
  <2>3. g # idx'
    BY <2>2, <2>IndexMoves, Zenon DEF OffIndex
  <2>4. g # sel' /\ g # lput'.gen
    BY <2>2, <2>IndexMoves, Zenon DEF OffIndex
  <2>5. rec'.src = "index" => rec'.item.gen # g
    BY <2>IndexMoves, Zenon DEF OffIndex
  <2>6. lget'.pc = "accepted" => lget'.gen # g
    BY <2>1, <2>IndexMoves, Zenon DEF OffIndex
  <2>7. QED
    BY <2>3, <2>4, <2>5, <2>6, Zenon DEF OffIndex, RecArc
<1> SUFFICES ASSUME NEW p \in probes', p.seen = "routeOnly", p.req.item = fence'
             PROVE  /\ OffIndex(p.req.item.gen)'
                    /\ RouteValid(p.req.item)' => SourceReadable(slot'[p.req.item.gen])
  BY Zenon DEF ProbeSource
<1>1. \A q \in probes : /\ q.req.item.why = "master" /\ (job.pc = "planned" => q.req.item.epoch < epoch)
                        /\ Older(q.req.item.gen) /\ q.req.item.gen \in Gens /\ q.req.item.gen <= nextGen
  <2>1. \A q \in probes : q.req.item.why = "master" /\ (job.pc = "planned" => q.req.item.epoch < epoch)
    BY Zenon DEF Order, Knows, ProtocolInv, NetItems
  <2>2. \A q \in probes : Older(q.req.item.gen)
    BY NamedGens, Zenon DEF Order
  <2>3. \A q \in probes : q.req.item.gen \in Gens
    BY <2>2, OlderGens, Zenon DEF Order
  <2>4. QED
    BY <2>1, <2>2, <2>3, Zenon DEF Older, Written
<1>2. CASE p \in probes
  <2>1. p.req.item = fence /\ fence # NoItem
    <3>1. p.req.item = fence
      BY <1>1, <1>2, SameFence, Zenon
    <3>2. QED
      BY <1>1, <1>2, <3>1, NoItemWhy, Zenon
  <2>2. OffIndex(p.req.item.gen) /\ (RouteValid(p.req.item) => SourceReadable(slot[p.req.item.gen]))
    BY <1>2, <2>1, Zenon DEF ProbeSource
  <2>3. gets = 0
    BY <2>1, Zenon DEF Order, GetCount
  <2>4. OffIndex(p.req.item.gen)'
    BY <1>1, <1>2, <2>2, <2>3, <1>OffIndexStays, Zenon
  <2>5. ASSUME RouteValid(p.req.item)' PROVE SourceReadable(slot'[p.req.item.gen])
    <3>1. RouteValid(p.req.item)
      BY <2>1, <2>5, SameRoute, Zenon
    <3>2. ~Loses(p.req.item.gen)
      <4>1. p.req.item.gen # idx /\ ~RecArc(p.req.item.gen)
        BY <2>2, Zenon DEF OffIndex
      <4>2. \A b \in bcast : ~(p.req.item.gen <= b)
        <5>1. SUFFICES ASSUME NEW b \in bcast, p.req.item.gen <= b PROVE FALSE
          BY Zenon
        <5>2. b < p.req.item.gen /\ Known(b)
          BY <3>1, SlotGens, Zenon DEF Order, RouteOrder, RouteValid
        <5>3. QED
          BY <1>1, <1>2, <5>1, <5>2, BoundAssumption DEF Known, Gens
      <4>3. ~(rec.st = "Releasing" /\ rec.item.why = "master")
        <5>1. SUFFICES ASSUME rec.st = "Releasing", rec.item.why = "master" PROVE FALSE
          BY Zenon
        <5>2. rec.item = fence
          BY <5>1, Zenon DEF Order, Knows, ProtocolInv, ReleaseHeld
        <5>3. p.req \in Preparing
          BY <1>2, Zenon DEF Preparing
        <5>4. QED
          BY <2>1, <5>2, <5>3, Zenon DEF Order, Knows, ProtocolInv, PrepareFirst
      <4>4. ~(rec.item.why = "master" /\ rec.st = "Releasing" /\ p.req.item.gen = rec.item.gen)
        BY <4>3, Zenon
      <4>5. QED
        BY <4>1, <4>2, <4>4, Zenon DEF Loses
    <3>3. QED
      BY <1>1, <1>2, <2>2, <3>1, <3>2, RouteLost, Zenon DEF Kept
  <2>6. QED
    BY <2>4, <2>5, Zenon
<1>3. CASE p \notin probes
  <2>1. /\ \E q \in probes : p.req = q.req
        /\ RouteOnly(slot[p.req.item.gen]) /\ UNCHANGED <<slot, idx, sel, rec, lput, lget, fence, route>>
    BY <1>3, <1>ProbesMove, Zenon
  <2>2. p.req.item.gen \in Gens
    BY <1>1, <2>1, Zenon
  <2>3. ~Arc(p.req.item.gen) /\ SourceReadable(slot[p.req.item.gen])
    <3>1. /\ Held(slot[p.req.item.gen], HolderCount(p.req.item.gen), LeaseCount(p.req.item.gen))
          /\ HolderCount(p.req.item.gen) = 1 <=> Arc(p.req.item.gen) \/ readers[p.req.item.gen] # 0
      BY <2>2, AtSlot, SlotGens, Zenon DEF SlotInv
    <3>2. HolderCount(p.req.item.gen) = 0
      BY <2>1, <3>1, Zenon DEF Held, RouteOnly
    <3>3. ~Arc(p.req.item.gen)
      BY <3>1, <3>2
    <3>4. QED
      BY <2>1, <3>3, Zenon DEF RouteOnly, SourceReadable
  <2>4. OffIndex(p.req.item.gen)
    <3>1. lget.pc = "accepted" => HiddenGet
      BY Zenon DEF HiddenGet
    <3>2. QED
      BY <2>3, <3>1, Zenon DEF Arc, OffIndex
  <2>5. OffIndex(p.req.item.gen)'
    BY <2>1, <2>4, Zenon DEF OffIndex, RecArc
  <2>6. QED
    BY <2>1, <2>3, <2>5, Zenon
<1>4. QED
  BY <1>2, <1>3, Zenon
=============================================================================
