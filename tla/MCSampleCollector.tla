-------------------------- MODULE MCSampleCollector --------------------------
(* Instances of SampleCollector for TLC. *)
EXTENDS SampleCollector, TLC

CONSTANTS e1, e2, w, r1, r2

Events == Permutations({e1, e2})
=============================================================================
