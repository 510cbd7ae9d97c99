--------------------------- MODULE SampleCollector ---------------------------
(***************************************************************************)
(* The Lambda function create_perfstat_sample: every minute an event       *)
(* starts a run of lambda_handler, which samples the sessions of the       *)
(* writer, then those of the instances its query of readers returns.  A    *)
(* script is one insert in a transaction of its own: it happens or does    *)
(* not.  perfstat.pg_stat_activity_sample has no key, so runs that overlap *)
(* never wait for one another.                                             *)
(***************************************************************************)
EXTENDS Naturals, FiniteSets

CONSTANTS
    Runs,             \* the events of the schedule
    NoInstance,       \* an unset local variable of the handler
    Instances,        \* the instances of the Aurora cluster
    ForeignInstances, \* those create_perfstat_foreign_table.sql was run for
    MaxAttempts,      \* 1 + the retries Lambda gives an asynchronous event
    MaxFailovers      \* bound: failovers of the cluster

ASSUME SampleAssumption ==
    /\ ForeignInstances \subseteq Instances /\ NoInstance \notin Instances
    /\ MaxAttempts \in Nat \ {0} /\ MaxFailovers \in Nat

VARIABLES
    writer,    \* the instance whose session_id is MASTER_SESSION_ID
    failovers, \* failovers so far
    samples,   \* samples of an instance in pg_stat_activity_sample
    phase,     \* where the handler of each run stands
    attempt,   \* deliveries of each event to the function so far
    target,    \* reader_instance_name
    todo,      \* instances the loop over ro_instance has not reached
    faults     \* history: the current delivery met a failed script or query

vars == << writer, failovers, samples, phase, attempt, target, todo, faults >>
env  == << writer, failovers >>

Resting == {"idle", "retry", "done", "dead"}
Phases  == Resting \cup {"sample", "askReaders", "loop", "ro"}
Running(r) == phase[r] \notin Resting

\* sample_time is left out: the samples of a delivery are told apart by number.
SampleRow == [instance : Instances, run : Runs, attempt : 1..MaxAttempts, nth : Nat]
Of(r) == {s \in samples : s.run = r /\ s.attempt = attempt[r]}

-----------------------------------------------------------------------------

\* The readers' foreign tables were created while they were readers.
Init ==
    /\ writer \in Instances \ ForeignInstances /\ failovers = 0
    /\ samples = {}
    /\ phase   = [r \in Runs |-> "idle"]
    /\ attempt = [r \in Runs |-> 0]
    /\ target  = [r \in Runs |-> NoInstance]
    /\ todo    = [r \in Runs |-> {}]
    /\ faults  = [r \in Runs |-> FALSE]

\* EventBridge delivers an event, or Lambda delivers it again after a failure.
Fire(r) ==
    /\ phase[r] \in {"idle", "retry"}
    /\ phase'   = [phase   EXCEPT ![r] = "sample"]
    /\ attempt' = [attempt EXCEPT ![r] = @ + 1]
    /\ faults'  = [faults  EXCEPT ![r] = FALSE]
    /\ UNCHANGED << env, samples, target, todo >>

\* insert into perfstat.pg_stat_activity_sample
Save(r, i) ==
    samples' = samples \cup {[instance |-> i, run |-> r, attempt |-> attempt[r],
                              nth |-> Cardinality(Of(r)) + 1]}

\* create_perfstat_sample.sql names the writer in its own statement,
\* create_perfstat_sample_for_ro.sql the instance of the loop.
Sampled(r) ==
    \/ phase[r] = "sample" /\ Save(r, writer)
    \/ phase[r] = "ro"     /\ Save(r, target[r])

After(r) == IF phase[r] = "sample" THEN "askReaders" ELSE "loop"

RunScript(r) ==
    /\ Sampled(r)
    /\ phase' = [phase EXCEPT ![r] = After(r)]
    /\ UNCHANGED << env, attempt, target, todo, faults >>

\* execute_update rolled back and returned (False, message): the handler
\* prints the message and goes on.
ScriptFails(r) ==
    /\ phase[r] \in {"sample", "ro"}
    /\ phase'  = [phase  EXCEPT ![r] = After(r)]
    /\ faults' = [faults EXCEPT ![r] = TRUE]
    /\ UNCHANGED << env, samples, attempt, target, todo >>

Leave(r, p) ==
    /\ phase'  = [phase  EXCEPT ![r] = p]
    /\ target' = [target EXCEPT ![r] = NoInstance]
    /\ todo'   = [todo   EXCEPT ![r] = {}]

Failed(r) == IF attempt[r] < MaxAttempts THEN "retry" ELSE "dead"

\* The commit took effect and its reply was lost: rollback() raises.
ReplyLost(r) ==
    /\ Sampled(r)
    /\ Leave(r, Failed(r))
    /\ UNCHANGED << env, attempt, faults >>

\* lambda_handler raises or times out, between or within its transactions.
Raise(r) ==
    /\ Running(r)
    /\ Leave(r, Failed(r))
    /\ UNCHANGED << env, samples, attempt, faults >>

\* Mutant: "or", as the reports list the instances to choose from.
RoInstanceOr == ForeignInstances \cup {writer}

\* The instances that have foreign tables and are the writer.
RoInstance == ForeignInstances \cap {writer}

AskReaders(r) ==
    /\ phase[r] = "askReaders"
    /\ phase' = [phase EXCEPT ![r] = "loop"]
    /\ \/ todo' = [todo EXCEPT ![r] = RoInstance] /\ UNCHANGED faults
       \/ todo' = [todo EXCEPT ![r] = {}] /\ faults' = [faults EXCEPT ![r] = TRUE]
    /\ UNCHANGED << env, samples, attempt, target >>

\* Mutant: the loop starts over.
NextReaderAgain(r) ==
    /\ phase[r] = "loop"
    /\ \E i \in todo[r] : target' = [target EXCEPT ![r] = i]
    /\ phase' = [phase EXCEPT ![r] = "ro"]
    /\ UNCHANGED << env, samples, attempt, todo, faults >>

\* for inst in ro_instance
NextReader(r) ==
    /\ phase[r] = "loop"
    /\ \E i \in todo[r] :
          /\ target' = [target EXCEPT ![r] = i]
          /\ todo'   = [todo   EXCEPT ![r] = @ \ {i}]
    /\ phase' = [phase EXCEPT ![r] = "ro"]
    /\ UNCHANGED << env, samples, attempt, faults >>

Return(r) ==
    /\ phase[r] = "loop" /\ todo[r] = {}
    /\ phase'  = [phase  EXCEPT ![r] = "done"]
    /\ target' = [target EXCEPT ![r] = NoInstance]
    /\ UNCHANGED << env, samples, attempt, todo, faults >>

\* Aurora promotes another instance between the steps of the handlers; a session
\* it cuts is a Raise.
Failover ==
    /\ failovers < MaxFailovers
    /\ failovers' = failovers + 1
    /\ \E i \in Instances \ {writer} : writer' = i
    /\ UNCHANGED << samples, phase, attempt, target, todo, faults >>

Finished ==
    /\ \A r \in Runs : phase[r] \in {"done", "dead"}
    /\ UNCHANGED vars

Progress(r) == RunScript(r) \/ AskReaders(r) \/ NextReader(r) \/ Return(r)

Next ==
    \/ \E r \in Runs : Fire(r) \/ Progress(r) \/ ScriptFails(r) \/ ReplyLost(r) \/ Raise(r)
    \/ Failover
    \/ Finished

Spec == Init /\ [][Next]_vars

Fairness == \A r \in Runs : WF_vars(Fire(r)) /\ WF_vars(Progress(r))
FairSpec == Spec /\ Fairness

-----------------------------------------------------------------------------

\* The values each variable ranges over.
TypeOK ==
    /\ writer \in Instances
    /\ failovers \in 0..MaxFailovers
    /\ samples \subseteq SampleRow
    /\ phase   \in [Runs -> Phases]
    /\ attempt \in [Runs -> 0..MaxAttempts]
    /\ target  \in [Runs -> Instances \cup {NoInstance}]
    /\ todo    \in [Runs -> SUBSET Instances]
    /\ faults  \in [Runs -> BOOLEAN]
    /\ \A r \in Runs : phase[r] = "ro" => target[r] # NoInstance

Times(i, r, a) == Cardinality({s \in samples : s.instance = i /\ s.run = r /\ s.attempt = a})

\* A delivery samples an instance at most once, through failed scripts, lost
\* replies and failovers, as README.md:68 says ("as one sample"): the table
\* has no key that would refuse a second one.  The exception is an instance that
\* has foreign tables and was promoted, which RoInstance returns once more.
OncePerDelivery ==
    /\ TypeOK
    /\ \A i \in Instances, r \in Runs, a \in 1..MaxAttempts :
          failovers = 0 \/ i \notin ForeignInstances => Times(i, r, a) =< 1

\* README.md:102 and create_perfstat_sample.py:33 say that readers are sampled: a
\* run that ends without a fault has sampled every reader with foreign tables.
ReadersSampled ==
    failovers = 0 =>
        \A r \in Runs : phase[r] = "done" /\ ~faults[r] =>
            \A i \in ForeignInstances \ {writer} : \E s \in Of(r) : s.instance = i

\* Every event is handled or given up.
EveryEventEnds ==
    \A r \in Runs : <>(phase[r] \in {"done", "dead"})

=============================================================================
