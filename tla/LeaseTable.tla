------------------------------ MODULE LeaseTable ------------------------------
(***************************************************************************)
(* What the master's lease manager promises to the rest of the master,     *)
(* without its heap, its notifications and its sleeping task.              *)
(*                                                                         *)
(* A lease is known from the moment it is granted.  It leaves the table    *)
(* only in two steps: it is condemned at a moment at which it has lapsed,  *)
(* and it is withdrawn some time later.  A renewal between the two steps   *)
(* is accepted and does not save the lease: that is what the code does     *)
(* (see RenewalHonoured in MasterLeaseManager).  Identifiers are never     *)
(* issued twice.                                                           *)
(***************************************************************************)
EXTENDS Naturals

CONSTANTS LeaseId,   \* the identifiers the master can issue
          Time,      \* clock values, a set of naturals
          MinTTL     \* MIN_CLIENT_TTL_SECONDS

VARIABLES now,         \* the master's clock
          issued,      \* identifiers granted so far
          leases,      \* identifiers in the lease table
          expiration,  \* expiration time of every lease in the table
          condemned    \* leases found lapsed and about to be withdrawn

vars == <<now, issued, leases, expiration, condemned>>

Init ==
  /\ now \in Time
  /\ issued = {}
  /\ leases = {}
  /\ expiration \in [LeaseId -> Time]
  /\ condemned = {}

TimePasses ==
  /\ now' \in Time /\ now' > now
  /\ UNCHANGED <<issued, leases, expiration, condemned>>

Grant(l) ==
  /\ l \notin issued
  /\ issued' = issued \cup {l}
  /\ leases' = leases \cup {l}
  /\ \E t \in Time : t >= now + MinTTL /\ expiration' = [expiration EXCEPT ![l] = t]
  /\ UNCHANGED <<now, condemned>>

Renew(l) ==
  /\ l \in leases
  /\ \E t \in Time : expiration' = [expiration EXCEPT ![l] = t]
  /\ UNCHANGED <<now, issued, leases, condemned>>

Condemn(l) ==
  /\ l \in leases
  /\ expiration[l] <= now
  /\ condemned' = condemned \cup {l}
  /\ UNCHANGED <<now, issued, leases, expiration>>

Withdraw(l) ==
  /\ l \in condemned
  /\ leases' = leases \ {l}
  /\ condemned' = condemned \ {l}
  /\ UNCHANGED <<now, issued, expiration>>

Next ==
  \/ TimePasses
  \/ \E l \in LeaseId : Grant(l) \/ Renew(l) \/ Condemn(l) \/ Withdraw(l)

Spec == Init /\ [][Next]_vars
=============================================================================
