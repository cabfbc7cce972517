---------------------------- MODULE MCApiServer ----------------------------
(* Small instances of ApiServer for TLC. *)
EXTENDS ApiServer, TLC

CONSTANTS r1, r2

=============================================================================
