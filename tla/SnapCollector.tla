---------------------------- MODULE SnapCollector ----------------------------
(***************************************************************************)
(* The Lambda function create_perfstat_snap: every scheduled event starts  *)
(* a run of lambda_handler, which saves the statistics of the writer, then *)
(* of each reader, in a series of transactions on the perfstat schema.     *)
(* Runs may overlap (a retry of a failed run meets the next event) and the *)
(* database isolates them at READ COMMITTED: a statement sees what was     *)
(* committed when it started and what its own transaction wrote.           *)
(*                                                                         *)
(* Data is abstracted to what the properties tell apart.  A statistics     *)
(* statement of a script inserts one batch: [table, snap, instance, by].   *)
(* "by" names the run and the attempt that wrote a row; it is a history    *)
(* field, no guard reads it.  partman.run_maintenance, which only adds     *)
(* future partitions and drops expired ones, is in Retention.              *)
(***************************************************************************)
EXTENDS Naturals, Sequences, FiniteSets

CONSTANTS
    Runs,             \* the events of the schedule
    NoInstance,       \* an unset local variable of the handler
    Instances,        \* the instances of the Aurora cluster
    ForeignInstances, \* those create_perfstat_foreign_table.sql was run for
    SnapScript,       \* tables of create_perfstat_snap.sql, in statement order
    RoScript,         \* tables of create_perfstat_snap_for_ro.sql
    HostScript,       \* inserts of the generated create_host_stat.sql
    MaxAttempts,      \* 1 + the retries Lambda gives an asynchronous event
    MaxRunning,       \* bound: runs in progress at once
    MaxFailovers      \* bound: failovers of the cluster

ASSUME ScriptAssumption ==
    /\ SnapScript \in Seq(STRING) /\ RoScript \in Seq(STRING) /\ HostScript \in Seq(STRING)
    /\ SnapScript # << >> /\ SnapScript[1] = "snap"
    /\ \A k \in 2..Len(SnapScript) : SnapScript[k] # "snap"
    /\ \A k \in 1..Len(RoScript) : RoScript[k] # "snap"
    /\ \A k \in 1..Len(HostScript) : HostScript[k] # "snap"

ASSUME InstanceAssumption ==
    /\ Instances # {} /\ NoInstance \notin Instances
    /\ ForeignInstances \subseteq Instances

ASSUME BoundAssumption ==
    MaxAttempts \in Nat \ {0} /\ MaxRunning \in Nat \ {0} /\ MaxFailovers \in Nat

VARIABLES
    snap,      \* committed rows of perfstat.snap
    hist,      \* committed batches of the perfstat.*_hist tables
    writer,    \* the instance whose session_id is MASTER_SESSION_ID
    failovers, \* failovers so far
    clock,     \* the last now() a snap script got: only those are stored
    phase,     \* where the handler of each run stands
    attempt,   \* deliveries of each event to the function so far
    stmt,      \* next statement of the open transaction; 0 if none is open
    target,    \* the instance being collected: wr_instance_name or inst[0]
    todo,      \* readers the loop over ro_instances has not reached
    txTime,    \* now() of the open snap script
    txSnap,    \* uncommitted row of perfstat.snap
    txHist,    \* uncommitted batches
    waits      \* batch whose insert waits for another transaction's key

db  == << snap, hist >>
env == << writer, failovers >>
ctl == << phase, attempt, stmt, target, todo >>
tx  == << txTime, txSnap, txHist, waits >>
vars == << snap, hist, writer, failovers, clock, phase, attempt, stmt,
           target, todo, txTime, txSnap, txHist, waits >>

-----------------------------------------------------------------------------

Scripted == {"snap", "whost", "ro", "rhost"}
Resting  == {"idle", "retry", "done", "dead"}
Phases   == Scripted \cup Resting \cup {"askWriter", "askReaders", "loop"}

Script == [p \in Scripted |-> IF p = "snap" THEN SnapScript
                             ELSE IF p = "ro" THEN RoScript
                             ELSE HostScript]

\* The step of lambda_handler that follows a script, committed or not.
After == [p \in Scripted |-> IF p = "snap" THEN "askWriter"
                            ELSE IF p = "whost" THEN "askReaders"
                            ELSE IF p = "ro" THEN "rhost"
                            ELSE "loop"]

Tables == {SnapScript[k] : k \in 2..Len(SnapScript)}
            \cup {RoScript[k] : k \in 1..Len(RoScript)}
            \cup {HostScript[k] : k \in 1..Len(HostScript)}
Author   == Runs \X (1..MaxAttempts)
SnapRow  == [id : Nat \ {0}, time : Nat, by : Author]
HistRow  == [table : Tables, snap : SnapRow, instance : Instances, by : Author]

Open(r)    == stmt[r] # 0
Running(r) == phase[r] \notin Resting
Self(r)    == << r, attempt[r] >>

\* Mutant: the newest snapshot without its "order by".
NewestAny(S) == S

\* What a statement of r sees, and what its subselect
\* "select * from perfstat.snap order by snap_id desc limit 1" may return.
Visible(r) == snap \cup txSnap[r]
Newest(S)  == {s \in S : \A u \in S : u.id =< s.id}
Latest(r)  == Newest(Visible(r))

\* coalesce(max(snap_id), 0)
MaxId(S) == IF S = {} THEN {0} ELSE {s.id : s \in Newest(S)}

\* The instance a statement of the current script writes about.
Subject(r) == IF phase[r] = "snap" THEN writer ELSE target[r]

\* Mutant: snap_time from now() instead of a.snap_time.
BatchNow(r, s) == [table    |-> Script[phase[r]][stmt[r]],
                   snap     |-> [s EXCEPT !.time = clock + 1],
                   instance |-> Subject(r),
                   by       |-> Self(r)]

Batch(r, s) == [table    |-> Script[phase[r]][stmt[r]],
                snap     |-> s,
                instance |-> Subject(r),
                by       |-> Self(r)]

\* Mutant: instance_hist without its primary key.
SameKeyNone(b, c) == FALSE

\* The primary key (snap_id, snap_time, instance_name) of instance_hist.  The
\* key of pg_stat_statements_hist goes down to the query: whether two batches
\* of it share one depends on the data, and a clash there is a StatementFails.
SameKey(b, c) == /\ b.table = "instance_hist" /\ c.table = "instance_hist"
                 /\ b.snap = c.snap
                 /\ b.instance = c.instance
Taken(b)      == \E c \in hist : SameKey(b, c)
HeldBy(r, b)  == \E c \in txHist[r] : SameKey(b, c)
HeldByOther(r, b) == \E o \in Runs \ {r} : HeldBy(o, b)

-----------------------------------------------------------------------------

Init ==
    /\ snap = {} /\ hist = {}
    /\ writer \in Instances /\ failovers = 0
    /\ clock = 0
    /\ phase   = [r \in Runs |-> "idle"]
    /\ attempt = [r \in Runs |-> 0]
    /\ stmt    = [r \in Runs |-> 0]
    /\ target  = [r \in Runs |-> NoInstance]
    /\ todo    = [r \in Runs |-> {}]
    /\ txTime  = [r \in Runs |-> 0]
    /\ txSnap  = [r \in Runs |-> {}]
    /\ txHist  = [r \in Runs |-> {}]
    /\ waits   = [r \in Runs |-> {}]

\* Mutants: the connection stays open; the transaction keeps what it locked.
CloseTxNever(r) == UNCHANGED << stmt, tx >>
CloseTxLeak(r) ==
    /\ stmt' = [stmt EXCEPT ![r] = 0]
    /\ txSnap' = [txSnap EXCEPT ![r] = {}]
    /\ UNCHANGED << txTime, txHist, waits >>

\* Whatever way a transaction of r ends, its connection is closed with it.
CloseTx(r) ==
    /\ stmt'   = [stmt   EXCEPT ![r] = 0]
    /\ txTime' = [txTime EXCEPT ![r] = 0]
    /\ txSnap' = [txSnap EXCEPT ![r] = {}]
    /\ txHist' = [txHist EXCEPT ![r] = {}]
    /\ waits'  = [waits  EXCEPT ![r] = {}]

\* Where a failed delivery leaves the event.
Failed(r) == IF attempt[r] < MaxAttempts THEN "retry" ELSE "dead"

\* lambda_handler is over, its local variables with it.
Leave(r, p) ==
    /\ phase'  = [phase  EXCEPT ![r] = p]
    /\ target' = [target EXCEPT ![r] = NoInstance]
    /\ todo'   = [todo   EXCEPT ![r] = {}]

\* EventBridge delivers an event, or Lambda delivers it again after a failure.
Fire(r) ==
    /\ phase[r] \in {"idle", "retry"}
    /\ Cardinality({o \in Runs : Running(o)}) < MaxRunning
    /\ phase'   = [phase   EXCEPT ![r] = "snap"]
    /\ attempt' = [attempt EXCEPT ![r] = @ + 1]
    /\ UNCHANGED << db, env, clock, stmt, target, todo, tx >>

\* Mutant: current_date instead of now().
BeginOfDay(r) ==
    /\ phase[r] \in Scripted /\ ~Open(r)
    /\ stmt' = [stmt EXCEPT ![r] = 1]
    /\ UNCHANGED << db, env, clock, phase, attempt, target, todo, txTime, txSnap, txHist, waits >>

\* run_update: a connection of its own, and the "begin transaction" that
\* pg8000 sends before the script.  For a host script, create_host_stat_sql
\* has found a datapoint of every metric.  Timestamps of transactions differ.
Begin(r) ==
    /\ phase[r] \in Scripted /\ ~Open(r)
    /\ IF phase[r] = "snap"
          THEN clock' = clock + 1 /\ txTime' = [txTime EXCEPT ![r] = clock + 1]
          ELSE UNCHANGED << clock, txTime >>
    /\ stmt'   = [stmt   EXCEPT ![r] = 1]
    /\ UNCHANGED << db, env, phase, attempt, target, todo, txSnap, txHist, waits >>

Executing(r) == phase[r] \in Scripted /\ Open(r) /\ stmt[r] =< Len(Script[phase[r]])
AtSnapInsert(r) == Executing(r) /\ phase[r] = "snap" /\ stmt[r] = 1
AtInsert(r) == Executing(r) /\ ~(phase[r] = "snap" /\ stmt[r] = 1)

Advance(r) == stmt' = [stmt EXCEPT ![r] = @ + 1]

\* insert into perfstat.snap select coalesce(max(snap_id), 0)+1, now()
InsertSnap(r) ==
    /\ AtSnapInsert(r)
    /\ \E m \in MaxId(Visible(r)) :
          txSnap' = [txSnap EXCEPT
                       ![r] = {[id |-> m + 1, time |-> txTime[r], by |-> Self(r)]}]
    /\ Advance(r)
    /\ UNCHANGED << db, env, clock, phase, attempt, target, todo, txTime, txHist, waits >>

\* An insert ... select from the newest snapshot, when no key is in its way.
InsertBatch(r) ==
    /\ AtInsert(r) /\ waits[r] = {}
    /\ \E s \in Latest(r) :
          LET b == Batch(r, s) IN
          /\ ~Taken(b) /\ ~HeldBy(r, b) /\ ~HeldByOther(r, b)
          /\ txHist' = [txHist EXCEPT ![r] = @ \cup {b}]
    /\ Advance(r)
    /\ UNCHANGED << db, env, clock, phase, attempt, target, todo, txTime, txSnap, waits >>

\* Before the first snapshot the subselect is empty and nothing is inserted.
InsertNothing(r) ==
    /\ AtInsert(r)
    /\ Visible(r) = {}
    /\ Advance(r)
    /\ UNCHANGED << db, env, clock, phase, attempt, target, todo, txTime, txSnap, txHist, waits >>

\* A row with the key is in another open transaction: the insert, its snapshot
\* already chosen, waits for that transaction to end.
Wait(r) ==
    /\ AtInsert(r) /\ waits[r] = {}
    /\ \E s \in Latest(r) :
          LET b == Batch(r, s) IN
          /\ ~Taken(b) /\ ~HeldBy(r, b) /\ HeldByOther(r, b)
          /\ waits' = [waits EXCEPT ![r] = {b}]
    /\ UNCHANGED << db, env, clock, ctl, txTime, txSnap, txHist >>

\* The transaction waited for rolled back.
WaitOver(r) ==
    /\ AtInsert(r)
    /\ \E b \in waits[r] :
          /\ ~Taken(b) /\ ~HeldByOther(r, b)
          /\ txHist' = [txHist EXCEPT ![r] = @ \cup {b}]
    /\ waits' = [waits EXCEPT ![r] = {}]
    /\ Advance(r)
    /\ UNCHANGED << db, env, clock, phase, attempt, target, todo, txTime, txSnap >>

\* Mutant: with autocommit on, what the statements before the error did stays.
RolledBackAutocommit(r) ==
    /\ phase' = [phase EXCEPT ![r] = After[@]]
    /\ snap' = snap \cup txSnap[r] /\ hist' = hist \cup txHist[r]
    /\ CloseTx(r)
    /\ UNCHANGED << env, clock, attempt, target, todo >>

\* execute_update after an exception: rollback, close, (False, message); the
\* handler prints the message and goes on.
RolledBack(r) ==
    /\ phase' = [phase EXCEPT ![r] = After[@]]
    /\ CloseTx(r)
    /\ UNCHANGED << db, env, clock, attempt, target, todo >>

\* unique_violation: the key is committed, or the transaction has it itself.
KeyViolation(r) ==
    /\ AtInsert(r)
    /\ \E b \in IF waits[r] = {} THEN {Batch(r, s) : s \in Latest(r)} ELSE waits[r] :
          Taken(b) \/ HeldBy(r, b)
    /\ RolledBack(r)

\* Any other error of a statement, or of the commit before it took effect.
StatementFails(r) ==
    /\ Open(r)
    /\ RolledBack(r)

Committed(r) ==
    /\ phase[r] \in Scripted /\ Open(r)
    /\ stmt[r] = Len(Script[phase[r]]) + 1
    /\ snap' = snap \cup txSnap[r]
    /\ hist' = hist \cup txHist[r]
    /\ CloseTx(r)

\* con.commit(), con.close(), (True, None)
Commit(r) ==
    /\ Committed(r)
    /\ phase' = [phase EXCEPT ![r] = After[@]]
    /\ UNCHANGED << env, clock, attempt, target, todo >>

\* The commit took effect and the connection broke before its reply: commit()
\* raises, then the rollback() of the except clause, out of lambda_handler.
ReplyLost(r) ==
    /\ Committed(r)
    /\ Leave(r, Failed(r))
    /\ UNCHANGED << env, clock, attempt >>

\* lambda_handler raises or reaches its timeout, anywhere: get_conn fails, the
\* query of the writer returned [] and [0][0] raises, a metric has no datapoint,
\* rollback() raises on a broken connection.  An open transaction is undone.
Raise(r) ==
    /\ Running(r)
    /\ Leave(r, Failed(r))
    /\ CloseTx(r)
    /\ UNCHANGED << db, env, clock, attempt >>

\* run_query(sql_get_wr_instance)[0][0]
AskWriter(r) ==
    /\ phase[r] = "askWriter"
    /\ target' = [target EXCEPT ![r] = writer]
    /\ phase'  = [phase  EXCEPT ![r] = "whost"]
    /\ UNCHANGED << db, env, clock, attempt, stmt, todo, tx >>

\* run_query(sql_get_ro_instance): the readers that have foreign tables, or []
\* when the query failed.
AskReaders(r) ==
    /\ phase[r] = "askReaders"
    /\ \E readers \in {ForeignInstances \ {writer}, {}} :
          todo' = [todo EXCEPT ![r] = readers]
    /\ phase' = [phase EXCEPT ![r] = "loop"]
    /\ UNCHANGED << db, env, clock, attempt, stmt, target, tx >>

\* for inst in ro_instances; the query states no order.
NextReader(r) ==
    /\ phase[r] = "loop"
    /\ \E i \in todo[r] :
          /\ target' = [target EXCEPT ![r] = i]
          /\ todo'   = [todo   EXCEPT ![r] = @ \ {i}]
    /\ phase' = [phase EXCEPT ![r] = "ro"]
    /\ UNCHANGED << db, env, clock, attempt, stmt, tx >>

Return(r) ==
    /\ phase[r] = "loop" /\ todo[r] = {}
    /\ Leave(r, "done")
    /\ UNCHANGED << db, env, clock, attempt, stmt, tx >>

\* Aurora promotes another instance.  Open sessions are cut: the handlers that
\* had one raise, on the statement and on the rollback.
Failover ==
    /\ failovers < MaxFailovers
    /\ failovers' = failovers + 1
    /\ \E i \in Instances \ {writer} : writer' = i
    /\ phase'  = [r \in Runs |-> IF Open(r) THEN Failed(r) ELSE phase[r]]
    /\ target' = [r \in Runs |-> IF Open(r) THEN NoInstance ELSE target[r]]
    /\ todo'   = [r \in Runs |-> IF Open(r) THEN {} ELSE todo[r]]
    /\ stmt'   = [r \in Runs |-> 0]
    /\ txTime' = [r \in Runs |-> 0]
    /\ txSnap' = [r \in Runs |-> {}]
    /\ txHist' = [r \in Runs |-> {}]
    /\ waits'  = [r \in Runs |-> {}]
    /\ UNCHANGED << db, clock, attempt >>

\* Every event was handled or given up.
Finished ==
    /\ \A r \in Runs : phase[r] \in {"done", "dead"}
    /\ UNCHANGED vars

\* The steps of a run nobody has to make fail.
Progress(r) ==
    \/ Begin(r) \/ InsertSnap(r) \/ InsertBatch(r) \/ InsertNothing(r)
    \/ Wait(r) \/ WaitOver(r) \/ KeyViolation(r) \/ Commit(r)
    \/ AskWriter(r) \/ AskReaders(r) \/ NextReader(r) \/ Return(r)

Fault(r) == StatementFails(r) \/ ReplyLost(r) \/ Raise(r)

Next ==
    \/ \E r \in Runs : Fire(r) \/ Progress(r) \/ Fault(r)
    \/ Failover
    \/ Finished

Spec == Init /\ [][Next]_vars

\* The scheduler fires its events and a handler that can take a step takes one.
\* Nothing obliges a fault, so nothing below relies on the 900 s timeout.
Fairness == \A r \in Runs : WF_vars(Fire(r)) /\ WF_vars(Progress(r))

FairSpec == Spec /\ Fairness
-----------------------------------------------------------------------------

\* The values each variable ranges over.  An open transaction belongs to a
\* phase that has a script, and only the snap script can hold a new snapshot.
TypeOK ==
    /\ snap \in SUBSET SnapRow
    /\ hist \in SUBSET HistRow
    /\ writer \in Instances
    /\ failovers \in 0..MaxFailovers
    /\ clock \in Nat
    /\ phase   \in [Runs -> Phases]
    /\ attempt \in [Runs -> 0..MaxAttempts]
    /\ stmt    \in [Runs -> Nat]
    /\ target  \in [Runs -> Instances \cup {NoInstance}]
    /\ todo    \in [Runs -> SUBSET Instances]
    /\ txTime  \in [Runs -> Nat]
    /\ txSnap  \in [Runs -> SUBSET SnapRow]
    /\ txHist  \in [Runs -> SUBSET HistRow]
    /\ waits   \in [Runs -> SUBSET HistRow]
    /\ \A r \in Runs : phase[r] # "idle" => attempt[r] # 0
    /\ \A r \in Runs : phase[r] \in {"idle", "retry"} => attempt[r] < MaxAttempts
    /\ \A r \in Runs : phase[r] \in {"whost", "ro", "rhost"} => target[r] # NoInstance
    /\ \A r \in Runs : Open(r) => /\ phase[r] \in Scripted
                                  /\ stmt[r] =< Len(Script[phase[r]]) + 1

\* The committed snap_ids are 1, 2, ... up to the newest, whatever rolls back or
\* overlaps: max(snap_id)+1 never skips one.  The chk_*_all.sql reports need it,
\* they pair every snapshot a with the b whose b.snap_id = a.snap_id + 1.
GaplessIds ==
    \A s \in snap : s.id > 1 => \E u \in snap : u.id = s.id - 1

\* No batch refers to a snapshot that is not there.  The schema declares no
\* foreign key: it holds because "the newest snapshot" a statement saw was
\* committed, or is committed together with the batch.
HistRefersToSnap ==
    \A b \in hist : b.snap \in snap

\* A run that saved its own snapshot never files rows under an older one, in
\* any of its later transactions, though each looks the newest snapshot up again.
NeverOlder ==
    \A b \in hist, s \in snap : b.by = s.by => b.snap.id >= s.id

\* Without overlap a snap_id names one snapshot, as the reports assume when they
\* select by snap_id alone, and the numbers are in the order of the times, as
\* awrrpt_batch_by_time.sql assumes: it turns times into ids by min and max.
IdsInOrder ==
    \A s, u \in snap : /\ s.id = u.id => s = u
                       /\ s.id < u.id => s.time < u.time

\* Without overlap a snapshot that exists has the writer's statistics in full,
\* all of one instance and all saved by the run that created it.
SnapComplete ==
    \A s \in snap : \E i \in Instances : \A k \in 2..Len(SnapScript) :
        [table |-> SnapScript[k], snap |-> s, instance |-> i, by |-> s.by] \in hist

\* Without overlap the statistics of an instance under a snapshot come from one
\* attempt of one run, host metrics aside (their table has no key).  A run whose
\* snap script failed goes on and meets the snapshot of another run; the key of
\* instance_hist undoes its whole reader script then.
OneSource ==
    \A b, c \in hist :
        (/\ b.snap = c.snap /\ b.instance = c.instance
         /\ {b.table, c.table} \cap {HostScript[k] : k \in 1..Len(HostScript)} = {})
        => b.by = c.by

\* README.md:68 says the function saves the statistics "as one snapshot": every
\* row a run saves belongs to the snapshot that run created.
OneSnapshotPerRun ==
    \A b \in hist : b.snap.by = b.by

\* Every event is handled or given up: no run waits for ever for the key
\* another transaction holds, even if no timeout ever cuts one off.
EveryEventEnds ==
    \A r \in Runs : <>(phase[r] \in {"done", "dead"})

-----------------------------------------------------------------------------

\* What an open transaction may hold, and when: the pieces of the inductive
\* invariant behind the properties that survive overlap.

\* A transaction starts empty, and only the snap script writes a snapshot.
TxShape ==
    \A r \in Runs :
        /\ ~Open(r) \/ AtSnapInsert(r) =>
              txSnap[r] = {} /\ txHist[r] = {} /\ waits[r] = {}
        /\ phase[r] # "snap" => txSnap[r] = {}

\* What an attempt wrote carries its name; one that has not yet committed its
\* snap script has nothing in the database.
Authorship ==
    /\ \A s \in snap : s.by[2] =< attempt[s.by[1]]
    /\ \A b \in hist : b.by[2] =< attempt[b.by[1]]
    /\ \A r \in Runs :
          /\ \A s \in txSnap[r] : s.by = Self(r)
          /\ \A b \in txHist[r] \cup waits[r] : b.by = Self(r)
          /\ phase[r] = "snap" => \A x \in snap \cup hist : x.by # Self(r)

\* The number before that of an uncommitted snapshot is committed.
GaplessTx ==
    \A r \in Runs : \A s \in txSnap[r] : s.id > 1 => \E u \in snap : u.id = s.id - 1

\* An uncommitted batch refers to a snapshot its transaction sees, and no older
\* one than its own run's.
RefersTx ==
    \A r \in Runs : \A b \in txHist[r] \cup waits[r] :
        /\ b.snap \in Visible(r)
        /\ \A s \in Visible(r) : b.by = s.by => b.snap.id >= s.id

\* The inductive invariant, on top of TypeOK.
CollectorInv ==
    /\ TxShape /\ Authorship
    /\ GaplessIds /\ GaplessTx
    /\ HistRefersToSnap /\ NeverOlder /\ RefersTx

-----------------------------------------------------------------------------

TablesOf(script) == {script[k] : k \in 1..Len(script)} \ {"snap"}

\* What the log of snapshots is in this system.
Log == INSTANCE SnapshotLog WITH
          WriterTables <- TablesOf(SnapScript),
          ReaderTables <- TablesOf(RoScript),
          HostTables   <- TablesOf(HostScript),
          log   <- [n \in 1..Cardinality(snap) |-> (CHOOSE s \in snap : s.id = n).time],
          saved <- {<< b.snap.id, b.instance, b.table >> : b \in hist}

\* Without overlap the collector implements the log of snapshots, through
\* failed scripts, failed runs, lost replies, retries and failovers.
ImplementsLog == Log!Spec

=============================================================================
