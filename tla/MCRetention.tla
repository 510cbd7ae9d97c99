----------------------------- MODULE MCRetention -----------------------------
(* Instances of Retention for TLC. *)
EXTENDS Retention, TLC

CONSTANTS stmts, inst, snap, host
=============================================================================
