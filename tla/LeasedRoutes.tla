----------------------------- MODULE LeasedRoutes -----------------------------
(***************************************************************************)
(* Leases and routes together.  A put with a lease attaches its key to the *)
(* lease, then publishes its route, and detaches the key if the            *)
(* publication fails; the cleanup of an expired lease takes the lease out  *)
(* of the table and deletes the keys attached to it, one by one.  When a   *)
(* lease expires is the matter of MasterLeaseManager; which node stores a  *)
(* route, and so when a publication fails, is the matter of MasterRoutes:  *)
(* here both happen at any time.                                           *)
(***************************************************************************)
EXTENDS Naturals, FiniteSets

CONSTANTS Key, NoKey,
          Put, NoPut,
          Lease, NoLease

ASSUME LeasedAssumption == NoKey \notin Key /\ NoPut \notin Put /\ NoLease \notin Lease

VARIABLES leases,     \* leases in the table
          keys,       \* lease -> key -> attached version, or NoPut
          kv_routes,  \* key -> version, or NoPut
          put_state, put_key, put_lease,
          late,       \* versions whose lease had left when they were published
          cleaning,   \* lease being cleaned up, or NoLease
          pending,    \* its keys not yet visited
          condemned   \* key found to be deleted, or NoKey

putVars == <<put_state, put_key, put_lease, late>>
cleanupVars == <<cleaning, pending, condemned>>
vars == <<leases, keys, kv_routes, putVars, cleanupVars>>

Init ==
  /\ leases = Lease
  /\ keys = [l \in Lease |-> [k \in Key |-> NoPut]]
  /\ kv_routes = [k \in Key |-> NoPut]
  /\ put_state = [p \in Put |-> "inflight"]
  /\ put_key \in [Put -> Key]
  /\ put_lease \in [Put -> Lease \cup {NoLease}]
  /\ late = {}
  /\ cleaning = NoLease
  /\ pending = {}
  /\ condemned = NoKey

SetPutState(p, s) ==
  /\ put_state' = [put_state EXCEPT ![p] = s]
  /\ UNCHANGED <<leases, put_key, put_lease, cleanupVars>>

\* prepare_route_state attaches the key, last version wins; it fails when the
\* lease has left the table.
AttachKey(p) ==
  LET l == put_lease[p]
  IN  /\ put_state[p] = "inflight"
      /\ SetPutState(p, IF l \in leases \cup {NoLease} THEN "attached" ELSE "failed")
      /\ keys' = IF l \in leases THEN [keys EXCEPT ![l][put_key[p]] = p] ELSE keys
      /\ UNCHANGED <<kv_routes, late>>

\* publish_completed_put_route replaces the key's route ...
Publish(p) ==
  /\ put_state[p] = "attached"
  /\ kv_routes' = [kv_routes EXCEPT ![put_key[p]] = p]
  /\ late' = IF put_lease[p] \in leases \cup {NoLease} THEN late ELSE late \cup {p}
  /\ SetPutState(p, "acked")
  /\ UNCHANGED keys

\* Mutant of PublishFails: the new route is left in the map.
PublishFailsInstalled(p) ==
  /\ put_state[p] = "attached"
  /\ kv_routes' = [kv_routes EXCEPT ![put_key[p]] = p]
  /\ SetPutState(p, "rollback")
  /\ UNCHANGED <<keys, late>>

\* ... or finds that the target has departed and leaves the route as it was ...
PublishFails(p) ==
  /\ put_state[p] = "attached"
  /\ SetPutState(p, "rollback")
  /\ UNCHANGED <<keys, kv_routes, late>>

\* ... and then detach_key_if_version takes back its own attachment.
DetachKey(p) ==
  LET l == put_lease[p]
  IN  /\ put_state[p] = "rollback"
      /\ keys' = IF l \in leases
                 THEN [keys EXCEPT ![l][put_key[p]] = IF @ = p THEN NoPut ELSE @]
                 ELSE keys
      /\ SetPutState(p, "failed")
      /\ UNCHANGED <<kv_routes, late>>

\* A client's delete.
Delete(k) ==
  /\ kv_routes[k] # NoPut
  /\ kv_routes' = [kv_routes EXCEPT ![k] = NoPut]
  /\ UNCHANGED <<leases, keys, putVars, cleanupVars>>

-----------------------------------------------------------------------------
(* cleanup_single_lease_static; the cleanup task runs one at a time. *)

\* Mutant of RemoveLease: the lease stays in the table during its cleanup.
RemoveLeaseLater(l) ==
  /\ cleaning = NoLease
  /\ l \in leases
  /\ cleaning' = l
  /\ pending' = {k \in Key : keys[l][k] # NoPut}
  /\ UNCHANGED <<leases, keys, kv_routes, putVars, condemned>>

\* The lease leaves the table first: no key can be attached to it any more.
RemoveLease(l) ==
  /\ cleaning = NoLease
  /\ l \in leases
  /\ leases' = leases \ {l}
  /\ cleaning' = l
  /\ pending' = {k \in Key : keys[l][k] # NoPut}
  /\ UNCHANGED <<keys, kv_routes, putVars, condemned>>

\* Mutant of CheckKey: a key is kept when its route is the attached version.
CheckKeyInverted(k) ==
  /\ condemned = NoKey
  /\ k \in pending
  /\ pending' = pending \ {k}
  /\ condemned' = IF kv_routes[k] # keys[cleaning][k] THEN k ELSE NoKey
  /\ UNCHANGED <<leases, keys, kv_routes, putVars, cleaning>>

\* The key's route is compared with the attached version ...
CheckKey(k) ==
  /\ condemned = NoKey
  /\ k \in pending
  /\ pending' = pending \ {k}
  /\ condemned' = IF kv_routes[k] \in {keys[cleaning][k], NoPut} THEN k ELSE NoKey
  /\ UNCHANGED <<leases, keys, kv_routes, putVars, cleaning>>

\* Mutant of DeleteKey: the loop goes round without having deleted the key.
ForgetKey ==
  /\ condemned # NoKey
  /\ condemned' = NoKey
  /\ UNCHANGED <<leases, keys, kv_routes, putVars, cleaning, pending>>

\* ... the guard is released, and do_delete_one_kv_all_replicas goes by key.
DeleteKey ==
  /\ condemned # NoKey
  /\ kv_routes' = [kv_routes EXCEPT ![condemned] = NoPut]
  /\ condemned' = NoKey
  /\ UNCHANGED <<leases, keys, putVars, cleaning, pending>>

CleanupEnds ==
  /\ cleaning # NoLease
  /\ pending = {} /\ condemned = NoKey
  /\ cleaning' = NoLease
  /\ UNCHANGED <<leases, keys, kv_routes, putVars, pending, condemned>>

CleanupStep == (\E k \in Key : CheckKey(k)) \/ DeleteKey \/ CleanupEnds

Next ==
  \/ \E p \in Put : AttachKey(p) \/ Publish(p) \/ PublishFails(p) \/ DetachKey(p)
  \/ \E k \in Key : Delete(k)
  \/ \E l \in Lease : RemoveLease(l)
  \/ CleanupStep

Spec == Init /\ [][Next]_vars

\* A cleanup that has begun goes on.
FairSpec == Spec /\ WF_vars(CleanupStep)

-----------------------------------------------------------------------------
(* Properties. *)

PutType ==
  /\ put_state \in [Put -> {"inflight", "attached", "acked", "rollback", "failed"}]
  /\ put_key \in [Put -> Key]
  /\ put_lease \in [Put -> Lease \cup {NoLease}]
  /\ late \subseteq Put

CleanupType ==
  /\ cleaning \in Lease \cup {NoLease}
  /\ pending \subseteq Key
  /\ condemned \in Key \cup {NoKey}
  /\ cleaning = NoLease => pending = {} /\ condemned = NoKey
  /\ cleaning \in Lease => cleaning \notin leases

\* The type invariant; the lease under cleanup is never in the table.
TypeOK ==
  /\ leases \subseteq Lease
  /\ keys \in [Lease -> [Key -> Put \cup {NoPut}]]
  /\ kv_routes \in [Key -> Put \cup {NoPut}]
  /\ PutType
  /\ CleanupType

\* Another put of the same key under the same lease has got at least as far as
\* attaching the key.
Contended(p) ==
  \E q \in Put \ {p} :
    put_lease[q] = put_lease[p] /\ put_key[q] = put_key[p] /\ put_state[q] # "inflight"

\* The cleanup of the put's lease has yet to deal with its key.
CleanupAhead(p) ==
  cleaning = put_lease[p] /\ (put_key[p] \in pending \/ condemned = put_key[p])

Routed(p) == put_lease[p] # NoLease /\ kv_routes[put_key[p]] = p

\* A leased version outlives its lease in two ways only: it was published when
\* the lease had already left the table, or another put of the key under the
\* same lease interfered with the attachment.  Any other routed version of a
\* lease that is gone is still ahead of the cleanup loop.
OutlivesLeaseOnlyIfRaced ==
  \A p \in Put :
    Routed(p) /\ put_lease[p] \notin leases => CleanupAhead(p) \/ p \in late \/ Contended(p)

\* A leased version published in time, and without such interference, is gone
\* some time after its lease.
LeasedRouteGoes ==
  \A p \in Put :
    (Routed(p) /\ put_lease[p] \notin leases /\ p \notin late /\ ~Contended(p))
      ~> (~Routed(p) \/ Contended(p))

\* What a client can know of a put.
Outcome(state) == IF state \in {"acked", "failed"} THEN state ELSE "open"

\* What RouteTable sees of the puts.
Table == INSTANCE RouteTable WITH outcome <- [p \in Put |-> Outcome(put_state[p])]

\* Leases beside the routes keep the promise of RouteTable: the attachment of a
\* key, its rollback and the cleanup of a lease never bring a version back, and
\* a put whose attachment or publication fails takes no route away.
ImplementsRouteTable == Table!Spec

\* Every leased route disappears after its lease: "If a lease expires, the
\* cleanup task deletes keys via master delete."
NoLeasedRouteOutlives ==
  \A p \in Put : (Routed(p) /\ put_lease[p] \notin leases) ~> ~Routed(p)

\* The cleanup of a lease deletes no version but the attached one, never one
\* that was put again under a new lease.
OnlyAttachedDeleted ==
  [][\A k \in Key :
       condemned = k /\ condemned' # k /\ kv_routes[k] # NoPut => kv_routes[k] = keys[cleaning][k]]_vars
=============================================================================
