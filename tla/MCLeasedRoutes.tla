---------------------------- MODULE MCLeasedRoutes ----------------------------
(* Small instances of LeasedRoutes for TLC. *)
EXTENDS LeasedRoutes
=============================================================================
