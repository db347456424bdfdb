------------------------------ MODULE RouteTable ------------------------------
(***************************************************************************)
(* What the master's route table promises to its clients, without nodes,   *)
(* replicas, sweeps, leases and the order of the handlers' steps.          *)
(*                                                                         *)
(* A key routes to one version at a time, one of its own.  A put is        *)
(* acknowledged in the very step that makes its version the key's route.   *)
(* A put that fails leaves the routes of other versions alone: at most its *)
(* version shows for a moment on a key that had no route, and goes with    *)
(* the failure.  A version that has left its key, for whatever reason,     *)
(* never comes back.                                                       *)
(***************************************************************************)
CONSTANTS Key,
          Put,    \* put ids, which are also the versions
          NoPut

VARIABLES kv_routes,  \* key -> its version, or NoPut
          put_key,    \* put -> its key
          outcome     \* put -> "open", "shown", "acked" or "failed"

vars == <<kv_routes, put_key, outcome>>

Init ==
  /\ kv_routes = [k \in Key |-> NoPut]
  /\ put_key \in [Put -> Key]
  /\ outcome = [p \in Put |-> "open"]

Publish(p) ==
  /\ outcome[p] = "open"
  /\ kv_routes' = [kv_routes EXCEPT ![put_key[p]] = p]
  /\ outcome' = [outcome EXCEPT ![p] = "acked"]
  /\ UNCHANGED put_key

Show(p) ==
  /\ outcome[p] = "open"
  /\ kv_routes[put_key[p]] = NoPut
  /\ kv_routes' = [kv_routes EXCEPT ![put_key[p]] = p]
  /\ outcome' = [outcome EXCEPT ![p] = "shown"]
  /\ UNCHANGED put_key

Fail(p) ==
  /\ outcome[p] \in {"open", "shown"}
  /\ kv_routes' = [kv_routes EXCEPT ![put_key[p]] = IF @ = p THEN NoPut ELSE @]
  /\ outcome' = [outcome EXCEPT ![p] = "failed"]
  /\ UNCHANGED put_key

\* A delete, a sweep, a clean-up or the end of a lease.
Remove(k) ==
  /\ kv_routes[k] # NoPut
  /\ kv_routes' = [kv_routes EXCEPT ![k] = NoPut]
  /\ UNCHANGED <<put_key, outcome>>

Next ==
  \/ \E p \in Put : Publish(p) \/ Show(p) \/ Fail(p)
  \/ \E k \in Key : Remove(k)

Spec == Init /\ [][Next]_vars
=============================================================================
