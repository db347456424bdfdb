--------------------------- MODULE MCOwnerReclaim ---------------------------
(***************************************************************************)
(* Small instances of OwnerReclaim.  Two generations, two reclaim jobs,    *)
(* two eviction requests and a retry are each possible, but together they  *)
(* share a budget.                                                         *)
(***************************************************************************)
EXTENDS OwnerReclaim

Budget == 4

WithinBudget == nextGen + epoch + op + job.try <= Budget
=============================================================================
