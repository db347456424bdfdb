----------------------------- MODULE OwnerSlots -----------------------------
(***************************************************************************)
(* The life of one slot of an owner's segment, as the owner's allocator    *)
(* keeps it (fluxon_kv/src/client_kv_api/mod.rs, OwnerAllocationState).    *)
(*                                                                         *)
(* A slot is claimed for a put (Prepared), becomes visible to local        *)
(* readers (PendingLocalVisible), and is committed once the master has     *)
(* accepted the route.  Three kinds of reference keep a committed slot     *)
(* allocated: the route reference (the master may name the slot), the      *)
(* holders (one per live MemoryInfo) and the source read leases (one per   *)
(* remote transfer that reads it).  The last one to go frees the slot.     *)
(*                                                                         *)
(* The operators are total: what an operation expects of a slot (its       *)
(* assert!, expect or unreachable!) is a predicate of its own, so that a   *)
(* specification can ask whether the expectation is ever disappointed.     *)
(***************************************************************************)
EXTENDS Naturals

SlotStates == {"free", "prepared", "pending", "committed"}
Scopes     == {"none", "LocalExclusive", "GlobalShared"}

\* resv: the slot's entry in global_demotion_reservations.
Slot == [st : SlotStates, route : BOOLEAN, holders : Nat, leases : Nat,
         scope : Scopes, resv : BOOLEAN]

\* free_allocation drops the manifest entry and the reservation with the slot.
FreeSlot == [st |-> "free", route |-> FALSE, holders |-> 0, leases |-> 0,
             scope |-> "none", resv |-> FALSE]

PreparedSlot == [FreeSlot EXCEPT !.st = "prepared"]

MarkPendingVisible(s) == [s EXCEPT !.st = "pending", !.holders = 0]

RetainHolder(s) == [s EXCEPT !.holders = @ + 1]

\* Promotion to Committed and the manifest entry installed with it.
PromotePending(s) == [s EXCEPT !.st = "committed", !.route = TRUE, !.scope = "LocalExclusive"]

\* Mutant of Unreferenced: a remote transfer's lease does not keep the slot.
UnreferencedByRoutes(s) == ~s.route /\ s.holders = 0

Unreferenced(s) == ~s.route /\ s.holders = 0 /\ s.leases = 0

FreeIfUnreferenced(s) == IF Unreferenced(s) THEN FreeSlot ELSE s

HolderReleasable(s) == s.st \in {"pending", "committed"} /\ s.holders > 0
ReleaseHolder(s)    == FreeIfUnreferenced([s EXCEPT !.holders = @ - 1])

RouteReleasable(s) == s.st = "committed" /\ s.route
ReleaseRoute(s)    == FreeIfUnreferenced([s EXCEPT !.route = FALSE])

ResidentReleasable(s) == s.st = "committed" /\ s.route /\ s.holders > 0
ReleaseResident(s)    == FreeIfUnreferenced([s EXCEPT !.route = FALSE, !.holders = @ - 1])

\* committed_route_only_matches: a committed slot that only its route keeps.
RouteOnly(s) == s.st = "committed" /\ s.route /\ s.holders = 0

\* acquire_source: the manifest is Committed exactly while the route is live
\* (release_committed_slot_route moves it to Reclaiming).
SourceReadable(s) == s.st = "committed" /\ s.route
AcquireSource(s)  == [s EXCEPT !.leases = @ + 1]
ReleaseSource(s)  == FreeIfUnreferenced([s EXCEPT !.leases = @ - 1])

\* try_reserve_global_demotion on an exact committed slot; the budget itself
\* is the caller's choice.
ReserveDemotion(s) == [s EXCEPT !.resv = TRUE]
DropReservation(s) == [s EXCEPT !.resv = FALSE]

\* validate_global_demotion_reservation and commit_reserved_global_demotion.
DemotionValid(s)  == s.st = "committed" /\ s.route /\ (s.scope = "GlobalShared" \/ s.resv)
CommitDemotion(s) == [s EXCEPT !.scope = "GlobalShared", !.resv = FALSE]
=============================================================================
