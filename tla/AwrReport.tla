------------------------------ MODULE AwrReport ------------------------------
(***************************************************************************)
(* What awrrpt.sql says of the time between two snapshots, against what    *)
(* the instances really did.  The server side is reduced to what a report  *)
(* can be wrong about: each instance counts the time of its queries in     *)
(* pg_stat_statements from its last start on; the writer's counters and    *)
(* start time are saved with the snapshot, those of a reader a while later *)
(* and not always (SnapCollector is about how they get there).  Roles do   *)
(* not change, and pg_stat_statements is neither reset nor full.           *)
(***************************************************************************)
EXTENDS Integers, Sequences, FiniteSets, FiniteSetsExt

CONSTANTS
    Readers, Writer, \* the instances
    Queries,
    MaxSnaps,        \* bound: snapshots taken
    MaxWork,         \* bound: time spent by all instances on all queries
    MaxRestarts      \* bound: restarts of instances

ASSUME ReportAssumption ==
    /\ Writer \notin Readers
    /\ IsFiniteSet(Queries)
    /\ MaxSnaps \in Nat /\ MaxWork \in Nat /\ MaxRestarts \in Nat

Instances == Readers \cup {Writer}

VARIABLES
    clock,    \* time of the last event that has one: a restart, a snapshot
    start,    \* pg_postmaster_start_time() of each instance
    counter,  \* total_exec_time + total_plan_time of each instance and query
    snapTime, \* perfstat.snap: snapTime[n] is the time of snapshot n
    instHist, \* perfstat.instance_hist
    stmtHist, \* perfstat.pg_stat_statements_hist
    spent     \* history: the time each instance ever spent on each query

vars == << clock, start, counter, snapTime, instHist, stmtHist, spent >>

-----------------------------------------------------------------------------

Init ==
    /\ clock = 0
    /\ start    = [i \in Instances |-> 0]
    /\ counter  = [i \in Instances |-> [q \in Queries |-> 0]]
    /\ snapTime = << >>
    /\ instHist = {} /\ stmtHist = {}
    /\ spent    = [i \in Instances |-> [q \in Queries |-> 0]]

TotalWork == MapThenSumSet(LAMBDA x : spent[x[1]][x[2]], Instances \X Queries)
Restarts  == clock - Len(snapTime)

\* An instance spends a unit of time on a query.
Work(i, q) ==
    /\ TotalWork < MaxWork
    /\ counter' = [counter EXCEPT ![i][q] = @ + 1]
    /\ spent'   = [spent   EXCEPT ![i][q] = @ + 1]
    /\ UNCHANGED << clock, start, snapTime, instHist, stmtHist >>

\* An instance restarts and counts from zero.
Restart(i) ==
    /\ Restarts < MaxRestarts
    /\ clock' = clock + 1
    /\ start'   = [start   EXCEPT ![i] = clock + 1]
    /\ counter' = [counter EXCEPT ![i] = [q \in Queries |-> 0]]
    /\ UNCHANGED << snapTime, instHist, stmtHist, spent >>

\* Mutant: a row for every query ever seen.
StmtRowsAll(n, i) ==
    {[snap |-> n, instance |-> i, query |-> q, time |-> counter[i][q]] : q \in Queries}

\* The view has a row for each query counted since the last start.
StmtRows(n, i) ==
    {[snap |-> n, instance |-> i, query |-> q, time |-> counter[i][q]]
        : q \in {p \in Queries : counter[i][p] > 0}}

\* "spent" is the history at the moment the row was taken.
InstRow(n, i, t) ==
    [snap |-> n, time |-> t, instance |-> i, start |-> start[i], spent |-> spent[i]]

InstRows(n, i)   == {r \in instHist : r.snap = n /\ r.instance = i}
StmtRow(n, i, q) == {r \in stmtHist : r.snap = n /\ r.instance = i /\ r.query = q}

\* create_perfstat_snap.sql: a snapshot with the statistics of the writer.
TakeSnap ==
    LET n == Len(snapTime) + 1 IN
    /\ n =< MaxSnaps
    /\ clock'    = clock + 1
    /\ snapTime' = Append(snapTime, clock + 1)
    /\ instHist' = instHist \cup {InstRow(n, Writer, clock + 1)}
    /\ stmtHist' = stmtHist \cup StmtRows(n, Writer)
    /\ UNCHANGED << start, counter, spent >>

\* create_perfstat_snap_for_ro.sql: the statistics of a reader are added to the
\* newest snapshot, under that snapshot's time, unless it has them.
SaveReader(i) ==
    LET n == Len(snapTime) IN
    /\ n > 0
    /\ InstRows(n, i) = {}
    /\ instHist' = instHist \cup {InstRow(n, i, snapTime[n])}
    /\ stmtHist' = stmtHist \cup StmtRows(n, i)
    /\ UNCHANGED << clock, start, counter, snapTime, spent >>

Next ==
    \/ \E i \in Instances, q \in Queries : Work(i, q)
    \/ \E i \in Instances : Restart(i)
    \/ TakeSnap
    \/ \E i \in Readers : SaveReader(i)

Spec == Init /\ [][Next]_vars

-----------------------------------------------------------------------------

\* Mutants: the report without its check, as awrrpt12.sql still is; the start
\* times compared with instance_start_time of the begin row, not its snap_time.
CheckPassesNone(i, b, e) == TRUE
CheckPassesStart(i, b, e) ==
    \A x \in InstRows(b, i), y \in InstRows(e, i) :
        ~ \E r \in instHist : x.start =< r.start /\ r.start =< y.time

\* "no instance restarted": no row of instance_hist, of whatever instance and
\* snapshot, has a start time between the times of the two rows of the selected
\* instance.  A row that is missing makes a bound null and the count zero.
CheckPasses(i, b, e) ==
    \A x \in InstRows(b, i), y \in InstRows(e, i) :
        ~ \E r \in instHist : x.time =< r.start /\ r.start =< y.time

\* coalesce(a.total_exec_time + a.total_plan_time, 0), a right joined at bsnap
BeginTime(i, b, q) ==
    IF StmtRow(b, i, q) = {} THEN 0 ELSE (CHOOSE r \in StmtRow(b, i, q) : TRUE).time

\* What a query adds to the sums of the report, "db time" and :total_exec_time.
TimeOf(i, b, e, q) ==
    IF StmtRow(e, i, q) = {} THEN 0
    ELSE (CHOOSE r \in StmtRow(e, i, q) : TRUE).time - BeginTime(i, b, q)

\* Section "SQL ordered by Total Time": total time is
\* b.total_exec_time + b.total_plan_time - coalesce(a..., 2), and is positive.
TotalTime(i, b, e) ==
    LET shown(r) == IF StmtRow(b, i, r.query) = {} THEN r.time - 2
                    ELSE r.time - BeginTime(i, b, r.query)
    IN  {[query |-> r.query, time |-> shown(r)]
            : r \in {x \in stmtHist : x.snap = e /\ x.instance = i /\ shown(x) > 0}}

\* awrrpt12.sql: its right join is undone by "where a.instance_name = ...", so
\* only queries with a row in both snapshots count.  It has no restart check.
\* Mutant: without "a.snap_id = :bsnap".
DbTime12Any(i, b, e) ==
    MapThenSumSet(LAMBDA p : p[2].time - p[1].time,
        {p \in stmtHist \X stmtHist :
            /\ p[1].snap =< b /\ p[2].snap = e /\ p[1].instance = i
            /\ p[1].instance = p[2].instance /\ p[1].query = p[2].query})
DbTime12(i, b, e) ==
    MapThenSumSet(LAMBDA p : p[2].time - p[1].time,
        {p \in stmtHist \X stmtHist :
            /\ p[1].snap = b /\ p[2].snap = e /\ p[1].instance = i
            /\ p[1].instance = p[2].instance /\ p[1].query = p[2].query})

\* awrrpt_batch_by_time.sql: the snapshots that bound a period, given as times.
\* Without one the psql variable stays unset, and there is no report.
\* Mutant: "snap_time > :'btime'".
FromAfter(btime) == {n \in DOMAIN snapTime : snapTime[n] > btime}
From(btime) == {n \in DOMAIN snapTime : snapTime[n] >= btime}
UpTo(etime) == {n \in DOMAIN snapTime : snapTime[n] =< etime}
Bounds(btime, etime) ==
    IF From(btime) = {} \/ UpTo(etime) = {} THEN {}
    ELSE {<<Min(From(btime)), Max(UpTo(etime))>>}

-----------------------------------------------------------------------------

InstHistRow == [snap : Nat, time : Nat, instance : Instances,
                start : Nat, spent : [Queries -> Nat]]
StmtHistRow == [snap : Nat, instance : Instances, query : Queries, time : Nat \ {0}]

\* The values each variable ranges over.
TypeOK ==
    /\ clock \in Nat
    /\ start   \in [Instances -> Nat]
    /\ counter \in [Instances -> [Queries -> Nat]]
    /\ spent   \in [Instances -> [Queries -> Nat]]
    /\ snapTime \in Seq(Nat)
    /\ instHist \in SUBSET InstHistRow
    /\ stmtHist \in SUBSET StmtHistRow

\* x and y are the rows of the selected instance in a report that is produced.
Reported(x, y) ==
    /\ x.instance = y.instance /\ x.snap < y.snap
    /\ CheckPasses(x.instance, x.snap, y.snap)

Exact(x, y) ==
    \A q \in Queries : TimeOf(x.instance, x.snap, y.snap, q) = y.spent[q] - x.spent[q]

\* A report that passes the restart check shows, query by query, the time the
\* instance spent between the moments its rows were taken: new queries in full,
\* queries the end snapshot does not have at zero.  For the writer always; for a
\* reader if it did not restart between the end snapshot's time and its own row.
ReportExact ==
    \A x, y \in instHist :
        Reported(x, y) /\ (x.instance = Writer \/ y.start =< y.time) => Exact(x, y)

\* With no reader collected, the check refuses no report on two snapshots
\* between which the writer stayed up.
RefusalJustified ==
    (\A r \in instHist : r.instance = Writer) =>
        \A x, y \in instHist :
            x.snap < y.snap /\ x.start = y.start => CheckPasses(Writer, x.snap, y.snap)

\* If an instance stays up, the db time of awrrpt12.sql is what it spent on the
\* queries the begin snapshot has seen: those that are new are left out in full.
Awr12LeavesNew ==
    \A x, y \in instHist :
        x.instance = y.instance /\ x.snap < y.snap /\ x.start = y.start =>
          DbTime12(x.instance, x.snap, y.snap) =
            MapThenSumSet(LAMBDA q : y.spent[q] - x.spent[q],
                          {q \in Queries : StmtRow(x.snap, x.instance, q) # {}})

\* The batch by times reports on exactly the snapshots in the period; when there
\* is none but some before and after, it reports backwards, on two neighbours,
\* and no restart check stops it.
WindowExact ==
    \A t, u \in 0..(clock + 1) : t =< u =>
        \A w \in Bounds(t, u) :
            /\ w[1]..w[2] = {n \in DOMAIN snapTime : t =< snapTime[n] /\ snapTime[n] =< u}
            /\ w[1] > w[2] => w[1] = w[2] + 1 /\ CheckPasses(Writer, w[1], w[2])

\* awrrpt.sql:39 heads its check "no instance restarted": of a report that is
\* produced, the selected instance did not restart between its two rows.
PassMeansNoRestart ==
    \A x, y \in instHist : Reported(x, y) => x.start = y.start

\* awrrpt.sql:39 refuses a report with "The instance was shutdown between
\* snapshots": the start of the instance the report is about changed.
RefusalMeansRestart ==
    \A x, y \in instHist :
        (/\ x.instance = y.instance /\ x.snap < y.snap
         /\ ~CheckPasses(x.instance, x.snap, y.snap))
        => \/ x.start # y.start
           \/ x.start >= x.time

\* awrrpt.sql:378 lists SQL by "total time": the time shown for a query is its
\* part of the report's db time.
TotalTimeIsDbTime ==
    \A x, y \in instHist :
        x.instance = y.instance /\ x.snap < y.snap
        => \A row \in TotalTime(x.instance, x.snap, y.snap) :
              row.time = TimeOf(x.instance, x.snap, y.snap, row.query)

-----------------------------------------------------------------------------

\* The pieces of the inductive invariant.

\* One row per key, the one a primary key keeps; a row of statements comes with
\* the row of its instance, which is not ahead of the snapshots.
RowsShape ==
    /\ \A x \in instHist : x.snap =< Len(snapTime) /\ x.time =< clock
    /\ \A x, y \in instHist : x.snap = y.snap /\ x.instance = y.instance => x = y
    /\ \A r \in stmtHist : \E x \in instHist : x.snap = r.snap /\ x.instance = r.instance
    /\ \A r, u \in stmtHist :
          r.snap = u.snap /\ r.instance = u.instance /\ r.query = u.query => r = u
    /\ \A n \in 1..Len(snapTime) : snapTime[n] =< clock

\* Rows of an instance follow its restarts: a later snapshot has no earlier
\* start, and a start up to the time of a row's snapshot is not after the row's.
StartsInOrder ==
    /\ \A i \in Instances : start[i] =< clock
    /\ \A x \in instHist :
          /\ x.start =< start[x.instance]
          /\ start[x.instance] =< x.time => x.start = start[x.instance]
    /\ \A x, y \in instHist : x.instance = y.instance =>
          /\ x.snap < y.snap => x.start =< y.start
          /\ y.start =< x.time => y.start =< x.start
    /\ \A x \in instHist : x.instance = Writer => x.start < x.time

\* Between restarts the counters and the time spent differ by a constant.
CountersExact ==
    /\ \A x \in instHist, q \in Queries :
          x.start = start[x.instance] =>
             counter[x.instance][q] - BeginTime(x.instance, x.snap, q)
                = spent[x.instance][q] - x.spent[q]
    /\ \A x, y \in instHist, q \in Queries :
          x.instance = y.instance /\ x.start = y.start =>
             BeginTime(y.instance, y.snap, q) - BeginTime(x.instance, x.snap, q)
                = y.spent[q] - x.spent[q]
    /\ \A x \in instHist, q \in Queries : x.spent[q] =< spent[x.instance][q]
    /\ \A x, y \in instHist, q \in Queries :
          x.instance = y.instance /\ x.snap < y.snap => x.spent[q] =< y.spent[q]

\* The inductive invariant, on top of TypeOK.
ReportInv == RowsShape /\ StartsInOrder /\ CountersExact

=============================================================================
