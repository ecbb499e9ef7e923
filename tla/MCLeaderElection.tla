-------------------------- MODULE MCLeaderElection --------------------------
(***************************************************************************)
(* Model-checking instance of LeaderElection: two or three processes; the  *)
(* 15s / 2s LeaseDuration / RetryPeriod of cmd/controller-manager scaled   *)
(* down to 3 / 1 ticks, which keeps LeaseDuration > RetryPeriod and lets a *)
(* holder renew more than once within one lease.                           *)
(***************************************************************************)
EXTENDS LeaderElection

CONSTANTS p1, p2, p3
=============================================================================
