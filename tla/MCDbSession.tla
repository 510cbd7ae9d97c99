---------------------------- MODULE MCDbSession ----------------------------
(* Instances of DbSession for TLC. *)
EXTENDS DbSession

TwoStatements == << "select", "insert" >>
=============================================================================
