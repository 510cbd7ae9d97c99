--------------------------- MODULE MCSnapCollector ---------------------------
(***************************************************************************)
(* Small instances of SnapCollector.  The scripts keep the order of the    *)
(* tables in the .sql files and leave out tables that behave as one that   *)
(* is kept: what matters is which insert has a key and which comes first.  *)
(***************************************************************************)
EXTENDS SnapCollector, TLC

CONSTANTS e1, e2, e3, w, r1, r2

ShortSnap == << "snap", "instance_hist", "pg_stat_activity_hist" >>
ShortRo   == << "instance_hist", "pg_stat_activity_hist" >>
ShortHost == << "host_stat_hist" >>

\* For the runs with overlap.
TinySnap == << "snap", "instance_hist" >>
TinyRo   == << "instance_hist" >>
TinyHost == << >>

Events == Permutations(Runs)

\* Bound of the run without overlap: three deliveries in all, so that a retried
\* event meets another one before, between or after its two.
ThreeDeliveries ==
    ~ \A r \in Runs : attempt[r] = MaxAttempts
=============================================================================
