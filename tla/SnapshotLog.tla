----------------------------- MODULE SnapshotLog -----------------------------
(***************************************************************************)
(* What the repository of statistics promises to its reports: a log of     *)
(* snapshots, numbered 1, 2, ... in the order of their times.  A snapshot  *)
(* appears together with all the statistics of the instance that is the    *)
(* writer; those of a reader are added to the newest snapshot only, all of *)
(* them at once and at most once; host metrics are added at any time.      *)
(***************************************************************************)
EXTENDS Naturals, Sequences

CONSTANTS Instances, WriterTables, ReaderTables, HostTables

VARIABLES
    log,   \* the times of the snapshots, in the order of their numbers
    saved  \* << number, instance, table >>: statistics that are there

InFull(n, i, tables) == {<< n, i, t >> : t \in tables}

Init == log = << >> /\ saved = {}

Record(i) ==
    /\ log' \in Seq(Nat) /\ Len(log') = Len(log) + 1
    /\ \A n \in 1..Len(log) : log'[n] = log[n] /\ log[n] < log'[Len(log) + 1]
    /\ saved' = saved \cup InFull(Len(log) + 1, i, WriterTables)

SaveReader(i) ==
    /\ log # << >>
    /\ InFull(Len(log), i, ReaderTables) \cap saved = {}
    /\ saved' = saved \cup InFull(Len(log), i, ReaderTables)
    /\ UNCHANGED log

SaveHost(i) ==
    /\ log # << >>
    /\ saved' = saved \cup InFull(Len(log), i, HostTables)
    /\ UNCHANGED log

Next == \E i \in Instances : Record(i) \/ SaveReader(i) \/ SaveHost(i)

Spec == Init /\ [][Next]_<< log, saved >>
=============================================================================
