-------------------------- MODULE LeasedRoutesProofs --------------------------
(***************************************************************************)
(* Proofs about LeasedRoutes, for any sets of keys, puts and leases: the   *)
(* types, that a leased route outlives its lease only through one of the   *)
(* two races, and that the routes keep the promise of RouteTable.          *)
(***************************************************************************)
EXTENDS LeasedRoutes, TLAPS

\* A route is a version of its own key whose publication was acknowledged.
RouteIsAcked ==
  \A k \in Key, p \in Put : kv_routes[k] = p => put_key[p] = k /\ put_state[p] = "acked"

\* Without interference the attachment is the put's own: from the attachment to
\* the publication as long as the lease is in the table, and for good once the
\* route was published in time.
AttachmentIsOwn ==
  \A p \in Put :
    /\ put_lease[p] # NoLease /\ ~Contended(p)
    /\ \/ put_state[p] = "attached" /\ put_lease[p] \in leases
       \/ put_state[p] = "acked" /\ p \notin late
    => keys[put_lease[p]][put_key[p]] = p

LeaseInv == TypeOK /\ RouteIsAcked /\ AttachmentIsOwn /\ OutlivesLeaseOnlyIfRaced

-----------------------------------------------------------------------------
\* The first state satisfies the invariant.
LEMMA InitInv == Init => LeaseInv
<1> SUFFICES ASSUME Init PROVE LeaseInv
  OBVIOUS
<1>1. TypeOK
  BY LeasedAssumption DEF Init, TypeOK, PutType, CleanupType
<1>2. RouteIsAcked /\ OutlivesLeaseOnlyIfRaced
  BY LeasedAssumption DEF Init, RouteIsAcked, OutlivesLeaseOnlyIfRaced, Routed
<1>3. AttachmentIsOwn
  BY DEF Init, AttachmentIsOwn
<1>4. QED
  BY <1>1, <1>2, <1>3 DEF LeaseInv

\* What SetPutState leaves alone and what it changes.
LEMMA SetPutStateMoves ==
  ASSUME TypeOK, NEW p \in Put, NEW s \in {"attached", "acked", "rollback", "failed"},
         SetPutState(p, s)
  PROVE  /\ put_state' \in [Put -> {"inflight", "attached", "acked", "rollback", "failed"}]
         /\ put_state'[p] = s /\ \A q \in Put \ {p} : put_state'[q] = put_state[q]
         /\ UNCHANGED <<leases, put_key, put_lease, cleanupVars>>
BY DEF SetPutState, TypeOK, PutType

\* The steps of a put keep the types.
LEMMA PutTypes ==
  ASSUME TypeOK, NEW p \in Put, AttachKey(p) \/ Publish(p) \/ PublishFails(p) \/ DetachKey(p)
  PROVE  TypeOK'
<1>1. PICK s \in {"attached", "acked", "rollback", "failed"} : SetPutState(p, s)
  BY DEF AttachKey, Publish, PublishFails, DetachKey
<1>2. /\ put_state' \in [Put -> {"inflight", "attached", "acked", "rollback", "failed"}]
      /\ UNCHANGED <<leases, put_key, put_lease, cleanupVars>>
  BY <1>1, SetPutStateMoves
<1>3. late' \subseteq Put
  BY DEF AttachKey, Publish, PublishFails, DetachKey, TypeOK, PutType
<1>4. kv_routes' \in [Key -> Put \cup {NoPut}]
  BY DEF AttachKey, Publish, PublishFails, DetachKey, TypeOK, PutType
<1>5. keys' \in [Lease -> [Key -> Put \cup {NoPut}]]
  <2>1. put_key[p] \in Key /\ leases \subseteq Lease /\ keys \in [Lease -> [Key -> Put \cup {NoPut}]]
    BY DEF TypeOK, PutType
  <2>2. CASE AttachKey(p)
    BY <2>1, <2>2 DEF AttachKey
  <2>3. CASE DetachKey(p)
    BY <2>1, <2>3 DEF DetachKey
  <2>4. CASE Publish(p) \/ PublishFails(p)
    BY <2>1, <2>4 DEF Publish, PublishFails
  <2>5. QED
    BY <2>2, <2>3, <2>4
<1>6. QED
  BY <1>2, <1>3, <1>4, <1>5 DEF TypeOK, PutType, CleanupType, cleanupVars

\* So do the client's delete and the cleanup task.
LEMMA CleanupTypes ==
  ASSUME TypeOK,
         (\E k \in Key : Delete(k)) \/ (\E l \in Lease : RemoveLease(l)) \/ CleanupStep
  PROVE  TypeOK'
<1>1. ASSUME NEW k \in Key, Delete(k) PROVE TypeOK'
  BY <1>1 DEF Delete, TypeOK, PutType, CleanupType, putVars, cleanupVars
<1>2. ASSUME NEW l \in Lease, RemoveLease(l) PROVE TypeOK'
  BY <1>2, LeasedAssumption DEF RemoveLease, TypeOK, PutType, CleanupType, putVars
<1>3. ASSUME NEW k \in Key, CheckKey(k) PROVE TypeOK'
  BY <1>3 DEF CheckKey, TypeOK, PutType, CleanupType, putVars
<1>4. ASSUME DeleteKey PROVE TypeOK'
  BY <1>4 DEF DeleteKey, TypeOK, PutType, CleanupType, putVars
<1>5. ASSUME CleanupEnds PROVE TypeOK'
  BY <1>5, LeasedAssumption DEF CleanupEnds, TypeOK, PutType, CleanupType, putVars
<1>6. QED
  BY <1>1, <1>2, <1>3, <1>4, <1>5 DEF CleanupStep

\* Interference is for good: a put never goes back to inflight.
LEMMA ContendedStays ==
  ASSUME TypeOK, NEW p \in Put, NEW s \in {"attached", "acked", "rollback", "failed"},
         SetPutState(p, s), NEW q \in Put, Contended(q)
  PROVE  Contended(q)'
BY SetPutStateMoves DEF Contended

\* The steps of a put.
LEMMA PutInv ==
  ASSUME LeaseInv, NEW p \in Put, AttachKey(p) \/ Publish(p) \/ PublishFails(p) \/ DetachKey(p)
  PROVE  LeaseInv'
<1> USE LeasedAssumption
<1>1. TypeOK /\ TypeOK'
  BY PutTypes DEF LeaseInv
<1>2. PICK s \in {"attached", "acked", "rollback", "failed"} : SetPutState(p, s)
  BY DEF AttachKey, Publish, PublishFails, DetachKey
<1>3. /\ put_state'[p] = s /\ \A q \in Put \ {p} : put_state'[q] = put_state[q]
      /\ UNCHANGED <<leases, put_key, put_lease, cleaning, pending, condemned>>
  BY <1>1, <1>2, SetPutStateMoves DEF cleanupVars
<1>4. put_key[p] \in Key /\ put_lease[p] \in Lease \cup {NoLease} /\ put_state[p] # "acked"
  BY <1>1 DEF TypeOK, PutType, AttachKey, Publish, PublishFails, DetachKey
<1>5. \A q \in Put : Contended(q) => Contended(q)'
  BY <1>1, <1>2, ContendedStays
<1>6. late \subseteq late' /\ \A q \in Put \ {p} : q \in late' => q \in late
  BY DEF AttachKey, Publish, PublishFails, DetachKey
<1>7. RouteIsAcked'
  <2>1. CASE Publish(p)
    <3>1. put_state'[p] = "acked" /\ kv_routes' = [kv_routes EXCEPT ![put_key[p]] = p]
      BY <1>1, <2>1, SetPutStateMoves DEF Publish
    <3>2. QED
      BY <1>1, <1>3, <1>4, <3>1 DEF LeaseInv, RouteIsAcked, TypeOK
  <2>2. CASE AttachKey(p) \/ PublishFails(p) \/ DetachKey(p)
    <3>1. kv_routes' = kv_routes
      BY <2>2 DEF AttachKey, PublishFails, DetachKey
    <3>2. QED
      BY <1>3, <1>4, <3>1 DEF LeaseInv, RouteIsAcked
  <2>3. QED
    BY <2>1, <2>2
<1>8. AttachmentIsOwn'
  <2> SUFFICES ASSUME NEW q \in Put, put_lease[q] # NoLease, ~Contended(q)',
                      \/ put_state'[q] = "attached" /\ put_lease[q] \in leases
                      \/ put_state'[q] = "acked" /\ q \notin late'
               PROVE  keys'[put_lease[q]][put_key[q]] = q
    BY <1>3 DEF AttachmentIsOwn
  <2>0. put_key[q] \in Key /\ put_lease[q] \in Lease /\ keys \in [Lease -> [Key -> Put \cup {NoPut}]]
    BY <1>1 DEF TypeOK, PutType
  <2>1. CASE q # p
    <3>1. put_state'[q] = put_state[q] /\ q \notin late' => q \notin late
      BY <1>3, <1>6, <2>1
    <3>2. keys[put_lease[q]][put_key[q]] = q
      BY <1>5, <1>3, <1>6, <2>1, <3>1 DEF LeaseInv, AttachmentIsOwn
    <3>3. CASE AttachKey(p)
      <4>1. put_state'[p] # "inflight" /\ p \in Put \ {q}
        BY <1>3, <2>1
      <4>2. ~(put_lease[p] = put_lease[q] /\ put_key[p] = put_key[q])
        BY <1>3, <4>1 DEF Contended
      <4>3. QED
        BY <1>4, <2>0, <3>2, <3>3, <4>2 DEF AttachKey
    <3>4. CASE DetachKey(p)
      BY <1>4, <2>0, <2>1, <3>2, <3>4 DEF DetachKey
    <3>5. CASE Publish(p) \/ PublishFails(p)
      BY <3>2, <3>5 DEF Publish, PublishFails
    <3>6. QED
      BY <3>3, <3>4, <3>5
  <2>2. CASE q = p
    <3>1. CASE AttachKey(p)
      <4>1. s = "attached" \/ s = "failed"
        <5>1. PICK t \in {"attached", "failed"} : SetPutState(p, t)
          BY <3>1 DEF AttachKey
        <5>2. put_state'[p] = t
          BY <1>1, <5>1, SetPutStateMoves
        <5>3. QED
          BY <1>3, <5>2
      <4>2. put_lease[p] \in leases
        BY <1>3, <2>2, <4>1
      <4>3. QED
        BY <1>4, <2>0, <2>2, <3>1, <4>2 DEF AttachKey
    <3>2. CASE Publish(p)
      <4>1. put_state[p] = "attached" /\ keys' = keys /\ put_lease[p] \in leases
        <5>1. put_state'[p] = "acked"
          BY <1>1, <3>2, SetPutStateMoves DEF Publish
        <5>2. QED
          BY <2>2, <3>2, <5>1 DEF Publish
      <4>2. QED
        BY <1>5, <2>2, <4>1 DEF LeaseInv, AttachmentIsOwn
    <3>3. CASE PublishFails(p) \/ DetachKey(p)
      <4>1. put_state'[p] \in {"rollback", "failed"}
        BY <1>1, <3>3, SetPutStateMoves DEF PublishFails, DetachKey
      <4>2. QED
        BY <2>2, <4>1
    <3>4. QED
      BY <3>1, <3>2, <3>3
  <2>3. QED
    BY <2>1, <2>2
<1>9. OutlivesLeaseOnlyIfRaced'
  <2> SUFFICES ASSUME NEW q \in Put, Routed(q)', put_lease[q] \notin leases
               PROVE  CleanupAhead(q) \/ q \in late' \/ Contended(q)'
    BY <1>3 DEF OutlivesLeaseOnlyIfRaced, CleanupAhead
  <2>0. put_key[q] \in Key /\ kv_routes'[put_key[q]] = q /\ put_lease[q] # NoLease
    BY <1>1, <1>3 DEF TypeOK, PutType, Routed
  <2>1. CASE Routed(q)
    BY <1>5, <1>6, <2>1 DEF LeaseInv, OutlivesLeaseOnlyIfRaced
  <2>2. CASE ~Routed(q)
    <3>1. Publish(p) /\ p = q
      BY <1>1, <1>4, <2>0, <2>2 DEF Routed, AttachKey, Publish, PublishFails, DetachKey, TypeOK
    <3>2. QED
      BY <2>0, <3>1 DEF Publish
  <2>3. QED
    BY <2>1, <2>2
<1>10. QED
  BY <1>1, <1>7, <1>8, <1>9 DEF LeaseInv

\* A client's delete only takes routes away.
LEMMA DeleteInv == ASSUME LeaseInv, NEW k \in Key, Delete(k) PROVE LeaseInv'
<1>1. TypeOK /\ TypeOK'
  BY CleanupTypes DEF LeaseInv
<1>2. UNCHANGED <<leases, keys, put_state, put_key, put_lease, late, cleaning, pending, condemned>>
  BY DEF Delete, putVars, cleanupVars
<1>3. \A j \in Key : kv_routes'[j] \in {kv_routes[j], NoPut}
  BY <1>1 DEF Delete, TypeOK
<1>4. RouteIsAcked'
  BY <1>2, <1>3, LeasedAssumption DEF LeaseInv, RouteIsAcked
<1>5. AttachmentIsOwn'
  BY <1>2 DEF LeaseInv, AttachmentIsOwn, Contended
<1>6. OutlivesLeaseOnlyIfRaced'
  <2>1. \A p \in Put : Routed(p)' => Routed(p)
    BY <1>1, <1>2, <1>3, LeasedAssumption DEF Routed, TypeOK, PutType
  <2>2. QED
    BY <1>2, <2>1 DEF LeaseInv, OutlivesLeaseOnlyIfRaced, Contended, CleanupAhead
<1>7. QED
  BY <1>1, <1>4, <1>5, <1>6 DEF LeaseInv

\* cleanup_single_lease_static takes the lease out of the table: every key
\* attached to it is ahead of the loop.
LEMMA RemoveInv == ASSUME LeaseInv, NEW l \in Lease, RemoveLease(l) PROVE LeaseInv'
<1>1. TypeOK /\ TypeOK'
  BY CleanupTypes DEF LeaseInv
<1>2. /\ UNCHANGED <<keys, kv_routes, put_state, put_key, put_lease, late, condemned>>
      /\ cleaning = NoLease /\ leases' = leases \ {l} /\ cleaning' = l
      /\ pending' = {k \in Key : keys[l][k] # NoPut}
  BY DEF RemoveLease, putVars
<1>3. RouteIsAcked'
  BY <1>2 DEF LeaseInv, RouteIsAcked
<1>4. AttachmentIsOwn'
  BY <1>2 DEF LeaseInv, AttachmentIsOwn, Contended
<1>5. OutlivesLeaseOnlyIfRaced'
  <2> SUFFICES ASSUME NEW p \in Put, Routed(p), put_lease[p] \notin leases',
                      p \notin late, ~Contended(p)
               PROVE  CleanupAhead(p)'
    BY <1>2 DEF OutlivesLeaseOnlyIfRaced, Routed, Contended
  <2>1. put_key[p] \in Key /\ put_lease[p] # NoLease /\ kv_routes[put_key[p]] = p
    BY <1>1 DEF TypeOK, PutType, Routed
  <2>2. keys[put_lease[p]][put_key[p]] = p
    BY <2>1 DEF LeaseInv, RouteIsAcked, AttachmentIsOwn
  <2>3. put_lease[p] = l
    BY <1>2, <2>1 DEF LeaseInv, OutlivesLeaseOnlyIfRaced, CleanupAhead
  <2>4. QED
    BY <1>2, <2>1, <2>2, <2>3, LeasedAssumption DEF CleanupAhead
<1>6. QED
  BY <1>1, <1>3, <1>4, <1>5 DEF LeaseInv

\* The steps of the cleanup loop: a key whose route is the attached version is
\* condemned, and a condemned key loses its route.
LEMMA LoopInv == LeaseInv /\ CleanupStep => LeaseInv'
<1> SUFFICES ASSUME LeaseInv, CleanupStep PROVE LeaseInv'
  OBVIOUS
<1>1. TypeOK /\ TypeOK'
  BY CleanupTypes DEF LeaseInv
<1>2. UNCHANGED <<leases, keys, put_state, put_key, put_lease, late>>
  BY DEF CleanupStep, CheckKey, DeleteKey, CleanupEnds, putVars
<1>3. \A j \in Key : kv_routes'[j] \in {kv_routes[j], NoPut}
  BY <1>1 DEF CleanupStep, CheckKey, DeleteKey, CleanupEnds, TypeOK
<1>4. RouteIsAcked'
  BY <1>2, <1>3, LeasedAssumption DEF LeaseInv, RouteIsAcked
<1>5. AttachmentIsOwn'
  BY <1>2 DEF LeaseInv, AttachmentIsOwn, Contended
<1>6. OutlivesLeaseOnlyIfRaced'
  <2> SUFFICES ASSUME NEW p \in Put, Routed(p)', put_lease[p] \notin leases,
                      p \notin late, ~Contended(p)
               PROVE  CleanupAhead(p)'
    BY <1>2 DEF OutlivesLeaseOnlyIfRaced, Contended
  <2>1. /\ put_key[p] \in Key /\ put_lease[p] # NoLease /\ kv_routes[put_key[p]] = p
        /\ kv_routes'[put_key[p]] = p
    BY <1>1, <1>2, <1>3, LeasedAssumption DEF Routed, TypeOK, PutType
  <2>2. keys[put_lease[p]][put_key[p]] = p
    BY <2>1 DEF LeaseInv, RouteIsAcked, AttachmentIsOwn
  <2>3. CleanupAhead(p)
    BY <2>1 DEF LeaseInv, OutlivesLeaseOnlyIfRaced, Routed
  <2>4. ASSUME NEW k \in Key, CheckKey(k) PROVE CleanupAhead(p)'
    BY <1>2, <2>1, <2>2, <2>3, <2>4, LeasedAssumption DEF CheckKey, CleanupAhead
  <2>5. ASSUME DeleteKey PROVE CleanupAhead(p)'
    <3>1. condemned # put_key[p]
      BY <1>1, <2>1, <2>5, LeasedAssumption DEF DeleteKey, TypeOK
    <3>2. QED
      BY <1>2, <2>3, <2>5, <3>1 DEF DeleteKey, CleanupAhead
  <2>6. ASSUME CleanupEnds PROVE FALSE
    BY <2>1, <2>3, <2>6, LeasedAssumption DEF CleanupEnds, CleanupAhead
  <2>7. QED
    BY <2>4, <2>5, <2>6 DEF CleanupStep
<1>7. QED
  BY <1>1, <1>4, <1>5, <1>6 DEF LeaseInv

\* Every step preserves the invariant.
LEMMA StepInv == LeaseInv /\ [Next]_vars => LeaseInv'
<1>1. LeaseInv /\ UNCHANGED vars => LeaseInv'
  BY DEF vars, putVars, cleanupVars, LeaseInv, TypeOK, PutType, CleanupType, RouteIsAcked,
     AttachmentIsOwn, OutlivesLeaseOnlyIfRaced, Routed, Contended, CleanupAhead
<1>2. QED
  BY <1>1, PutInv, DeleteInv, RemoveInv, LoopInv DEF Next

-----------------------------------------------------------------------------
\* A lease under cleanup is out of the table (cleanup_single_lease_static
\* removes it before it looks at its keys), and every variable has its type.
THEOREM TypeCorrect == Spec => []TypeOK
<1>1. LeaseInv => TypeOK
  BY DEF LeaseInv
<1>2. QED
  BY <1>1, InitInv, StepInv, PTL DEF Spec

\* A leased route outlives its lease only if it was published after the lease
\* had left the table or another put of the key under the same lease got to the
\* attachment (prepare_route_state and detach_key_if_version): any other one is
\* still ahead of the cleanup loop of cleanup_single_lease_static.
THEOREM OutlivesOnlyThroughRace == Spec => []OutlivesLeaseOnlyIfRaced
<1>1. LeaseInv => OutlivesLeaseOnlyIfRaced
  BY DEF LeaseInv
<1>2. QED
  BY <1>1, InitInv, StepInv, PTL DEF Spec

-----------------------------------------------------------------------------
\* The refinement of RouteTable.  A put that changes its state changes its
\* outcome and no other.
LEMMA OutcomeMoves ==
  ASSUME TypeOK, NEW p \in Put, NEW s, put_state' = [put_state EXCEPT ![p] = s]
  PROVE  [q \in Put |-> Outcome(put_state'[q])]
           = [[q \in Put |-> Outcome(put_state[q])] EXCEPT ![p] = Outcome(s)]
BY DEF TypeOK, PutType

\* Every step is a step of RouteTable or changes nothing that RouteTable can see.
LEMMA TableStep == LeaseInv /\ [Next]_vars => [Table!Next]_(Table!vars)
<1> SUFFICES ASSUME LeaseInv, [Next]_vars PROVE Table!Next \/ UNCHANGED Table!vars
  OBVIOUS
<1> DEFINE o == [q \in Put |-> Outcome(put_state[q])]
           Hidden == UNCHANGED <<kv_routes, put_key, put_state>>
<1>0. TypeOK /\ RouteIsAcked
  BY DEF LeaseInv
<1>1. Hidden => UNCHANGED Table!vars
  BY DEF Table!vars
<1>2. ASSUME NEW p \in Put, NEW s, SetPutState(p, s) PROVE o' = [o EXCEPT ![p] = Outcome(s)]
  BY <1>0, <1>2, OutcomeMoves DEF SetPutState
\* A put that moves on before its answer.
<1>3. ASSUME NEW p \in Put, NEW s \in {"attached", "rollback"}, SetPutState(p, s),
             put_state[p] \in {"inflight", "attached"}, UNCHANGED kv_routes
      PROVE  UNCHANGED Table!vars
  <2>1. o' = [o EXCEPT ![p] = "open"]
    BY <1>2, <1>3 DEF Outcome
  <2>2. Outcome(put_state[p]) = "open"
    BY <1>3 DEF Outcome
  <2>3. o' = o
    BY <2>1, <2>2
  <2>4. QED
    BY <1>3, <2>3 DEF SetPutState, Table!vars
\* A put that fails has no route.
<1>4. ASSUME NEW p \in Put, SetPutState(p, "failed"), put_state[p] \in {"inflight", "rollback"},
             UNCHANGED kv_routes
      PROVE  Table!Next
  <2>1. kv_routes[put_key[p]] # p
    BY <1>0, <1>4 DEF RouteIsAcked, TypeOK, PutType
  <2>2. kv_routes' = [kv_routes EXCEPT ![put_key[p]] = IF @ = p THEN NoPut ELSE @]
    BY <1>0, <1>4, <2>1 DEF TypeOK
  <2>3. o' = [o EXCEPT ![p] = "failed"] /\ Outcome(put_state[p]) = "open"
    BY <1>2, <1>4 DEF Outcome
  <2>4. Table!Fail(p)
    BY <1>4, <2>2, <2>3 DEF SetPutState, Table!Fail
  <2>5. QED
    BY <2>4 DEF Table!Next
<1>5. ASSUME NEW p \in Put, AttachKey(p) PROVE Table!Next \/ UNCHANGED Table!vars
  BY <1>3, <1>4, <1>5 DEF AttachKey
<1>6. ASSUME NEW p \in Put, Publish(p) PROVE Table!Next
  <2>1. o' = [o EXCEPT ![p] = "acked"] /\ Outcome(put_state[p]) = "open"
    BY <1>2, <1>6 DEF Publish, Outcome
  <2>2. Table!Publish(p)
    BY <1>6, <2>1 DEF Publish, SetPutState, Table!Publish
  <2>3. QED
    BY <2>2 DEF Table!Next
<1>7. ASSUME NEW p \in Put, PublishFails(p) PROVE UNCHANGED Table!vars
  BY <1>3, <1>7 DEF PublishFails
<1>8. ASSUME NEW p \in Put, DetachKey(p) PROVE Table!Next
  BY <1>4, <1>8 DEF DetachKey
<1>9. ASSUME NEW k \in Key, kv_routes' = [kv_routes EXCEPT ![k] = NoPut], UNCHANGED <<put_key, put_state>>
      PROVE  Table!Next \/ Hidden
  <2>1. CASE kv_routes[k] # NoPut
    BY <1>9, <2>1, Zenon DEF Table!Remove, Table!Next
  <2>2. CASE kv_routes[k] = NoPut
    BY <1>0, <1>9, <2>2 DEF TypeOK
  <2>3. QED
    BY <2>1, <2>2
<1>10. ASSUME NEW k \in Key, Delete(k) PROVE Table!Next \/ Hidden
  BY <1>9, <1>10, Zenon DEF Delete, putVars
<1>11. CASE DeleteKey
  <2>1. condemned \in Key
    BY <1>0, <1>11 DEF DeleteKey, TypeOK, CleanupType
  <2>2. QED
    BY <1>1, <1>9, <1>11, <2>1, Zenon DEF DeleteKey, putVars
<1>12. ASSUME (\E l \in Lease : RemoveLease(l)) \/ (\E k \in Key : CheckKey(k)) \/ CleanupEnds \/ UNCHANGED vars
       PROVE  Hidden
  BY <1>12, Zenon DEF RemoveLease, CheckKey, CleanupEnds, vars, putVars
<1> HIDE DEF Hidden
<1>13. QED
  BY <1>1, <1>5, <1>6, <1>7, <1>8, <1>10, <1>11, <1>12, Zenon DEF Next, CleanupStep

\* Leases beside the routes keep the promise of RouteTable: prepare_route_state,
\* detach_key_if_version and cleanup_single_lease_static never bring a version
\* back, and a put they fail takes no route away.
THEOREM RouteRefinement == Spec => ImplementsRouteTable
<1>1. Init => Table!Init
  BY DEF Init, Table!Init, Outcome
<1>2. QED
  BY <1>1, InitInv, StepInv, TableStep, PTL DEF Spec, ImplementsRouteTable, Table!Spec
=============================================================================
