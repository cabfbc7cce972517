---------------------------- MODULE MCCachedJobs ----------------------------
(* A small instance of CachedJobs for TLC. *)
EXTENDS CachedJobs

CONSTANTS r1, r2, j1, f1

=============================================================================
