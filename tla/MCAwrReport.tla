----------------------------- MODULE MCAwrReport -----------------------------
(* Instances of AwrReport for TLC. *)
EXTENDS AwrReport, TLC

CONSTANTS w, r1, q1, q2

OneReader == {r1}
TwoQueries == {q1, q2}
QuerySymmetry == Permutations(TwoQueries)
=============================================================================
