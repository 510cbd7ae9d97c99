------------------------------ MODULE Retention ------------------------------
(***************************************************************************)
(* Expiry of the perfstat schema.  Each of its tables is partitioned by    *)
(* day on its own and has a retention of its own in partman.part_config;   *)
(* create_perfstat_snap.sql calls partman.run_maintenance for one table    *)
(* after the other before it inserts into it, all in one transaction.      *)
(* Nothing but these calls keeps a snapshot and its statistics together.   *)
(* The reader scripts add rows to tables that have the writer's already.   *)
(***************************************************************************)
EXTENDS Integers, FiniteSets

CONSTANTS
    Tables,            \* the *_hist tables create_perfstat_snap.sql writes
    Snap,              \* perfstat.snap
    Host,              \* perfstat.host_stat_hist, written by the host scripts
    DefaultRetention,  \* days, create_perfstat_schema.sql
    Retentions,        \* days an operator may choose, change_awr_retention.sql
    MaxDay, MaxSnaps   \* bounds: days that pass, the largest snap_id

ASSUME RetentionAssumption ==
    /\ Snap \notin Tables /\ Host \notin Tables /\ Snap # Host
    /\ DefaultRetention \in Nat /\ Retentions \subseteq Nat
    /\ MaxDay \in Nat /\ MaxSnaps \in Nat

Parents == Tables \cup {Snap, Host}

VARIABLES
    today,
    parts,     \* the days each table has a partition for
    retention, \* partman.part_config
    snaps,     \* rows of perfstat.snap
    hist       \* batches of rows of the other tables, each under a snapshot

retentionVars == << today, parts, retention, snaps, hist >>

SnapRow == [id : Nat \ {0}, day : Nat]
HistRow == [table : Tables \cup {Host}, snap : SnapRow]

-----------------------------------------------------------------------------

\* create_parent with p_interval 'daily' and p_premake 1; retention '90 days'.
RetentionInit ==
    /\ today = 0
    /\ parts = [t \in Parents |-> {0, 1}]
    /\ retention = [t \in Parents |-> DefaultRetention]
    /\ snaps = {} /\ hist = {}

NextDay ==
    /\ today < MaxDay
    /\ today' = today + 1
    /\ UNCHANGED << parts, retention, snaps, hist >>

\* A partition goes when its last moment is older than the retention.
Keeps(t, d) == d >= today - retention[t]

\* The partitions of t after partman.run_maintenance, which makes the missing
\* ones up to tomorrow (infinite_time_partitions).
Days(t) ==
    {d \in parts[t] \cup {x \in 0..(today + 1) : \E y \in parts[t] : y =< x} : Keeps(t, d)}

\* coalesce(max(snap_id), 0)+1
NewId(S) == IF S = {} THEN {1} ELSE {s.id + 1 : s \in {u \in S : \A v \in S : v.id =< u.id}}

\* Mutants: the script without its last call, for host_stat_hist; without its
\* first, for snap.
MaintainedNoHost == Tables \cup {Snap}
MaintainedNoSnap == Tables \cup {Host}

\* The tables create_perfstat_snap.sql calls run_maintenance for.
Maintained == Parents

DaysAfter(t) == IF t \in Maintained THEN Days(t) ELSE parts[t]

\* create_perfstat_snap.sql, committed: maintenance of perfstat.snap, the new
\* snapshot, then maintenance of each table and the rows of the snapshot.
TakeSnap ==
    LET kept == {s \in snaps : s.day \in DaysAfter(Snap)} IN
    /\ parts' = [t \in Parents |-> DaysAfter(t)]
    /\ \E n \in NewId(kept) :
          LET s == [id |-> n, day |-> today] IN
          /\ n =< MaxSnaps
          /\ snaps' = kept \cup {s}
          /\ hist' = {b \in hist : b.snap.day \in parts'[b.table]}
                        \cup {[table |-> t, snap |-> s] : t \in Tables}
    /\ UNCHANGED << today, retention >>

\* A host script files its metrics under the newest snapshot, however old.
SaveHost ==
    /\ \E s \in snaps :
          /\ \A u \in snaps : u.id =< s.id
          /\ hist' = hist \cup {[table |-> Host, snap |-> s]}
    /\ UNCHANGED << today, parts, retention, snaps >>

\* Mutant: ... where parent_table = 'perfstat.snap'
ChangeRetentionOfSnap(n) ==
    /\ retention' = [retention EXCEPT ![Snap] = n]
    /\ UNCHANGED << today, parts, snaps, hist >>

\* change_awr_retention.sql: ... where parent_table like 'perfstat.%'
ChangeRetention(n) ==
    /\ retention' = [t \in Parents |-> n]
    /\ UNCHANGED << today, parts, snaps, hist >>

RetentionNext ==
    \/ NextDay \/ TakeSnap \/ SaveHost
    \/ \E n \in Retentions : ChangeRetention(n)

RetentionSpec == RetentionInit /\ [][RetentionNext]_retentionVars

-----------------------------------------------------------------------------

\* The values each variable ranges over.
RetentionTypeOK ==
    /\ today \in Nat
    /\ parts \in [Parents -> SUBSET Nat]
    /\ retention \in [Parents -> Nat]
    /\ snaps \in SUBSET SnapRow
    /\ hist \in SUBSET HistRow

\* No row is in a default partition, which retention never drops and which
\* stops partman from making the day's partition: its day has a partition, and
\* so has the day of the next snapshot in the table the writer's script fills.
RowsPlaced ==
    /\ \A s \in snaps : s.day \in parts[Snap]
    /\ \A b \in hist : b.snap.day \in parts[b.table]

\* Statistics never outlive their snapshot, and a snapshot never outlives its
\* statistics, whatever the retention was and is.
ExpireTogether ==
    /\ \A b \in hist : b.snap \in snaps
    /\ \A s \in snaps, t \in Tables : [table |-> t, snap |-> s] \in hist

\* The snapshots that are left are numbered without a gap, each number once.
IdsContiguous ==
    /\ \A s, u \in snaps : s.id = u.id => s = u
    /\ \A s, u \in snaps : s.id < u.id => \E v \in snaps : v.id = u.id - 1

\* README.md:121 "keeps statistics for 90 days": a step drops no snapshot that is
\* within the retention, and one that takes a snapshot leaves none that is not.
KeepsWhatItShould ==
    [][ /\ \A s \in snaps \ snaps' : s.day < today - retention[Snap]
        /\ snaps' \ snaps # {} => \A s \in snaps' : s.day >= today - retention[Snap] ]_retentionVars

-----------------------------------------------------------------------------

\* All tables agree on their partitions and their retention, and the snapshots
\* are in the order of their days: the inductive invariant, with the above.
RetentionInv ==
    /\ \A t \in Parents : parts[t] = parts[Snap] /\ retention[t] = retention[Snap]
    /\ \A s \in snaps : s.day =< today
    /\ \A s, u \in snaps : s.id < u.id => s.day =< u.day
    /\ \E d \in parts[Snap] : d =< today
    /\ RowsPlaced /\ ExpireTogether /\ IdsContiguous

=============================================================================
