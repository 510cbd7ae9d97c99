--------------------------- MODULE PerfstatProofs ---------------------------
(***************************************************************************)
(* What is in the perfstat tables, for any number of tables, instances,    *)
(* runs and days.  Expiry: snapshots and their statistics go together,     *)
(* whatever the retention is and was.  Samples: a delivery of an event     *)
(* samples an instance at most once; the table has no key, so this rests   *)
(* on the order of the handler: LoopShape says which instances its loop    *)
(* can come to, Deliveries how they are numbered, and Once that the        *)
(* samples of a delivery are its own and one per instance.                 *)
(***************************************************************************)
EXTENDS Retention, SampleCollector, FiniteSetTheorems, TLAPS

-----------------------------------------------------------------------------
(* Expiry of the perfstat tables. *)

USE RetentionAssumption DEF Parents

LEMMA NewIdFacts ==
    ASSUME NEW S \in SUBSET SnapRow, NEW n \in NewId(S)
    PROVE  /\ n \in Nat \ {0}
           /\ \A s \in S : s.id < n
           /\ S # {} => \E s \in S : s.id = n - 1
<1>1. CASE S = {}
  BY <1>1 DEF NewId
<1>2. CASE S # {}
  <2>1. PICK s \in S : n = s.id + 1 /\ \A v \in S : v.id =< s.id
    BY <1>2 DEF NewId
  <2>2. \A v \in S : v.id \in Nat \ {0}
    BY DEF SnapRow
  <2>3. s.id = n - 1 /\ n \in Nat \ {0}
    BY <2>1, <2>2
  <2>4. \A v \in S : v.id < n
    BY <2>1, <2>2
  <2> QED BY <2>3, <2>4
<1> QED BY <1>1, <1>2

LEMMA RetentionTypeInit == RetentionInit => RetentionTypeOK
  BY DEF RetentionInit, RetentionTypeOK

LEMMA DaysType == ASSUME RetentionTypeOK, NEW t \in Parents PROVE Days(t) \in SUBSET Nat
  BY DEF RetentionTypeOK, Days

\* The snap script maintains every table.
LEMMA AllMaintained ==
    /\ \A t \in Parents : DaysAfter(t) = Days(t)
    /\ Snap \in Parents
  BY DEF DaysAfter, Maintained, Parents

LEMMA RetentionTypeStep == RetentionTypeOK /\ [RetentionNext]_retentionVars => RetentionTypeOK'
<1> SUFFICES ASSUME RetentionTypeOK, [RetentionNext]_retentionVars PROVE RetentionTypeOK'
  OBVIOUS
<1>1. CASE NextDay
  BY <1>1 DEF NextDay, RetentionTypeOK
<1>2. CASE TakeSnap
  <2> DEFINE kept == {s \in snaps : s.day \in Days(Snap)}
  <2>1. PICK n \in NewId(kept) :
           /\ snaps' = kept \cup {[id |-> n, day |-> today]}
           /\ hist' = {b \in hist : b.snap.day \in parts'[b.table]}
                        \cup {[table |-> t, snap |-> [id |-> n, day |-> today]] : t \in Tables}
    <3>1. kept = {s \in snaps : s.day \in DaysAfter(Snap)}
      BY AllMaintained
    <3>. HIDE DEF kept
    <3>. QED  BY <1>2, <3>1 DEF TakeSnap
  <2>2. kept \in SUBSET SnapRow
    BY DEF RetentionTypeOK
  <2>3. [id |-> n, day |-> today] \in SnapRow
    BY <2>2, NewIdFacts DEF SnapRow, RetentionTypeOK
  <2>4. snaps' \in SUBSET SnapRow
    BY <2>1, <2>2, <2>3
  <2>5. hist' \in SUBSET HistRow
    BY <2>1, <2>3 DEF HistRow, RetentionTypeOK
  <2>6. parts' \in [Parents -> SUBSET Nat]
    BY <1>2, DaysType, AllMaintained DEF TakeSnap, RetentionTypeOK
  <2> QED BY <1>2, <2>4, <2>5, <2>6 DEF TakeSnap, RetentionTypeOK
<1>3. CASE SaveHost
  <2>1. hist' \in SUBSET HistRow
    BY <1>3 DEF SaveHost, RetentionTypeOK, HistRow
  <2> QED BY <1>3, <2>1 DEF SaveHost, RetentionTypeOK
<1>4. ASSUME NEW n \in Retentions, ChangeRetention(n) PROVE RetentionTypeOK'
  BY <1>4 DEF ChangeRetention, RetentionTypeOK
<1>5. CASE UNCHANGED retentionVars
  BY <1>5 DEF retentionVars, RetentionTypeOK
<1> QED BY <1>1, <1>2, <1>3, <1>4, <1>5 DEF RetentionNext

-----------------------------------------------------------------------------

LEMMA RetentionInvInit == RetentionInit => RetentionInv
  BY DEF RetentionInit, RetentionInv, RowsPlaced, ExpireTogether, IdsContiguous

\* After maintenance a table has a partition for today, and of those it had it
\* keeps the ones within the retention.
LEMMA DaysFacts ==
    ASSUME RetentionTypeOK, RetentionInv, NEW t \in Parents
    PROVE  /\ Days(t) = Days(Snap)
           /\ today \in Days(Snap)
           /\ \A d \in parts[Snap] : d \in Days(Snap) <=> d >= today - retention[Snap]
<1>1. parts[t] = parts[Snap] /\ retention[t] = retention[Snap]
  BY DEF RetentionInv
<1>2. today \in Nat /\ retention[Snap] \in Nat /\ parts[Snap] \subseteq Nat
  BY DEF RetentionTypeOK
<1>3. Days(t) = Days(Snap)
  BY <1>1 DEF Days, Keeps
<1>4. today \in Days(Snap)
  <2>1. PICK d \in parts[Snap] : d =< today
    BY DEF RetentionInv
  <2>2. today \in 0..(today + 1) /\ today >= today - retention[Snap]
    BY <1>2
  <2> QED BY <2>1, <2>2 DEF Days, Keeps
<1>5. \A d \in parts[Snap] : d \in Days(Snap) <=> d >= today - retention[Snap]
  BY DEF Days, Keeps
<1> QED BY <1>3, <1>4, <1>5

LEMMA TakeSnapInv ==
    ASSUME RetentionTypeOK, RetentionInv, TakeSnap
    PROVE  RetentionInv'
<1> DEFINE kept == {s \in snaps : s.day \in Days(Snap)}
<1>0. kept = {s \in snaps : s.day \in DaysAfter(Snap)}
  BY AllMaintained
<1>1. PICK n \in NewId(kept) :
         /\ snaps' = kept \cup {[id |-> n, day |-> today]}
         /\ hist' = {b \in hist : b.snap.day \in parts'[b.table]}
                      \cup {[table |-> t, snap |-> [id |-> n, day |-> today]] : t \in Tables}
  <2> HIDE DEF kept
  <2> QED BY <1>0 DEF TakeSnap
<1> DEFINE new == [id |-> n, day |-> today]
<1>2. \A t \in Parents : parts'[t] = Days(Snap)
  <2>1. \A t \in Parents : parts'[t] = DaysAfter(t)
    BY DEF TakeSnap
  <2>2. \A t \in Parents : Days(t) = Days(Snap)
    BY DaysFacts
  <2> QED BY <2>1, <2>2, AllMaintained
<1>3. retention' = retention /\ today' = today
  BY DEF TakeSnap
<1>4. today \in Days(Snap) /\ today \in Nat /\ retention[Snap] \in Nat
  BY DaysFacts DEF RetentionTypeOK
<1>5. \A s \in snaps : /\ s.id \in Nat /\ s.day \in Nat
                       /\ s \in kept <=> s.day >= today - retention[Snap]
  <2>1. \A s \in snaps : s.day \in parts[Snap] /\ s.id \in Nat /\ s.day \in Nat
    BY DEF RetentionInv, RowsPlaced, RetentionTypeOK, SnapRow
  <2> QED BY <2>1, DaysFacts
<1>6. /\ n \in Nat \ {0}
      /\ \A s \in kept : s.id < n
      /\ kept # {} => \E s \in kept : s.id = n - 1
  <2>1. kept \in SUBSET SnapRow
    BY DEF RetentionTypeOK
  <2> HIDE DEF kept
  <2> QED BY <2>1, NewIdFacts
<1>7. \A b \in hist : b.table \in Parents /\ b.snap \in snaps
  BY DEF RetentionInv, ExpireTogether, RetentionTypeOK, HistRow
<1>8. \A b \in hist' : \/ b \in hist /\ b.snap \in kept
                       \/ b.snap = new /\ b.table \in Tables
  BY <1>1, <1>2, <1>7
<1>9. RowsPlaced'
  <2>1. \A s \in snaps' : s.day \in Days(Snap)
    BY <1>1, <1>4
  <2>2. \A b \in hist' : b.snap.day \in Days(Snap) /\ b.table \in Parents
    BY <1>4, <1>7, <1>8
  <2> QED BY <1>2, <2>1, <2>2 DEF RowsPlaced
<1>10. ExpireTogether'
  <2>1. \A b \in hist' : b.snap \in snaps'
    BY <1>1, <1>8
  <2>2. ASSUME NEW s \in snaps', NEW t \in Tables
        PROVE  [table |-> t, snap |-> s] \in hist'
    <3>1. CASE s = new
      BY <3>1, <1>1
    <3>2. CASE s \in kept
      <4>1. [table |-> t, snap |-> s] \in hist
        BY <3>2 DEF RetentionInv, ExpireTogether
      <4>2. s.day \in parts'[t]
        BY <3>2, <1>2
      <4> QED BY <4>1, <4>2, <1>1
    <3> QED BY <3>1, <3>2, <1>1
  <2> QED BY <2>1, <2>2 DEF ExpireTogether
<1>11. IdsContiguous'
  <2>1. \A s, u \in kept : s.id = u.id => s = u
    BY DEF RetentionInv, IdsContiguous
  <2>2. ASSUME NEW s \in kept, NEW u \in kept, s.id < u.id
        PROVE  \E v \in kept : v.id = u.id - 1
    <3>1. PICK v \in snaps : v.id = u.id - 1
      BY <2>2 DEF RetentionInv, IdsContiguous
    <3>2. s.id < v.id \/ s = v
      BY <2>2, <3>1, <1>5 DEF RetentionInv, IdsContiguous
    <3>3. v \in kept
      BY <3>1, <3>2, <1>4, <1>5 DEF RetentionInv
    <3> QED BY <3>1, <3>3
  <2>3. \A s \in kept : s.id < new.id /\ ~(new.id < s.id) /\ s.id \in Nat
    BY <1>5, <1>6
  <2>4. kept # {} => \E v \in kept : v.id = new.id - 1
    BY <1>6
  <2>5. snaps' = kept \cup {new}
    BY <1>1
  <2>6. new.id \in Nat
    BY <1>6
  <2> HIDE DEF kept, new
  <2> QED BY <2>1, <2>2, <2>3, <2>4, <2>5, <2>6 DEF IdsContiguous
<1>12. /\ \A s \in snaps' : s.day =< today
       /\ \A s, u \in snaps' : s.id < u.id => s.day =< u.day
  BY <1>1, <1>4, <1>5, <1>6 DEF RetentionInv
<1>13. \E d \in parts'[Snap] : d =< today
  BY <1>2, <1>4
<1>14. \A t \in Parents : parts'[t] = parts'[Snap] /\ retention'[t] = retention'[Snap]
  BY <1>2, <1>3 DEF RetentionInv
<1> QED BY <1>3, <1>9, <1>10, <1>11, <1>12, <1>13, <1>14 DEF RetentionInv

LEMMA RetentionInvStep == RetentionTypeOK /\ RetentionInv /\ [RetentionNext]_retentionVars => RetentionInv'
<1> SUFFICES ASSUME RetentionTypeOK, RetentionInv, [RetentionNext]_retentionVars PROVE RetentionInv'
  OBVIOUS
<1>1. CASE NextDay
  <2>1. /\ today \in Nat /\ parts[Snap] \subseteq Nat
        /\ \A s \in snaps : s.day \in Nat
    BY DEF RetentionTypeOK, SnapRow
  <2> QED BY <1>1, <2>1 DEF NextDay, RetentionInv, RowsPlaced, ExpireTogether, IdsContiguous
<1>2. CASE SaveHost
  <2>1. PICK s \in snaps : hist' = hist \cup {[table |-> Host, snap |-> s]}
    BY <1>2 DEF SaveHost
  <2>2. UNCHANGED << today, parts, retention, snaps >>
    BY <1>2 DEF SaveHost
  <2>3. s.day \in parts[Host]
    BY DEF RetentionInv, RowsPlaced
  <2>4. RowsPlaced' /\ ExpireTogether'
    BY <2>1, <2>2, <2>3 DEF RetentionInv, RowsPlaced, ExpireTogether
  <2>5. IdsContiguous'
    BY <2>2 DEF RetentionInv, IdsContiguous
  <2> QED BY <2>2, <2>4, <2>5 DEF RetentionInv
<1>3. ASSUME NEW n \in Retentions, ChangeRetention(n) PROVE RetentionInv'
  BY <1>3 DEF ChangeRetention, RetentionInv, RowsPlaced, ExpireTogether, IdsContiguous
<1>4. CASE UNCHANGED retentionVars
  BY <1>4 DEF retentionVars, RetentionInv, RowsPlaced, ExpireTogether, IdsContiguous
<1> QED BY <1>1, <1>2, <1>3, <1>4, TakeSnapInv DEF RetentionNext

\* All tables agree on their partitions and their retention, and the numbers of
\* snapshots follow their days, whenever the retention is changed.
THEOREM RetentionInvariant == RetentionSpec => [](RetentionTypeOK /\ RetentionInv)
  BY RetentionTypeInit, RetentionTypeStep, RetentionInvInit, RetentionInvStep, PTL DEF RetentionSpec

\* Statistics and snapshots expire together, leave no row in a default
\* partition, and leave snapshots that are numbered without a gap.
THEOREM ExpirySafe == RetentionSpec => [](RowsPlaced /\ ExpireTogether /\ IdsContiguous)
<1>1. RetentionInv => RowsPlaced /\ ExpireTogether /\ IdsContiguous
  BY DEF RetentionInv
<1> QED BY <1>1, RetentionInvariant, PTL

\* A step drops no snapshot within the retention, and the step that takes a
\* snapshot drops every one that is past it.
THEOREM RetentionKept == RetentionSpec => KeepsWhatItShould
<1> DEFINE Kept == /\ \A s \in snaps \ snaps' : s.day < today - retention[Snap]
                   /\ snaps' \ snaps # {} =>
                         \A s \in snaps' : s.day >= today - retention[Snap]
<1>1. RetentionTypeOK /\ RetentionInv /\ [RetentionNext]_retentionVars => [Kept]_retentionVars
  <2> SUFFICES ASSUME RetentionTypeOK, RetentionInv, RetentionNext PROVE Kept
    OBVIOUS
  <2>1. CASE TakeSnap
    <3>1. \A s \in snaps : s.day \in Nat /\ s.day \in parts[Snap]
      BY DEF RetentionInv, RowsPlaced, RetentionTypeOK, SnapRow
    <3>2. today \in Nat /\ retention[Snap] \in Nat
      BY DEF RetentionTypeOK
    <3>3. \A s \in snaps : s.day \in Days(Snap) <=> s.day >= today - retention[Snap]
      BY <3>1, DaysFacts
    <3>4. \A s \in snaps' : s.day = today \/ (s \in snaps /\ s.day \in Days(Snap))
      BY <2>1, AllMaintained DEF TakeSnap
    <3>5. \A s \in snaps : s.day \in Days(Snap) => s \in snaps'
      BY <2>1, AllMaintained DEF TakeSnap
    <3> QED BY <3>1, <3>2, <3>3, <3>4, <3>5
  <2>2. CASE ~TakeSnap
    <3>1. snaps' = snaps
      BY <2>2 DEF RetentionNext, NextDay, SaveHost, ChangeRetention
    <3> QED BY <3>1
  <2> QED BY <2>1, <2>2
<1> QED BY <1>1, RetentionInvariant, PTL DEF RetentionSpec, KeepsWhatItShould

HIDE RetentionAssumption DEF Parents

-----------------------------------------------------------------------------
(* The samples of the sample collector. *)

USE DEF env

\* The instances OncePerDelivery is about.
Single(i) == failovers = 0 \/ i \notin ForeignInstances

\* The loop comes to instances with foreign tables only, and to none before a
\* failover: the instances the query returns have them and are the writer.
LoopShape ==
    /\ failovers = 0 => writer \notin ForeignInstances
    /\ \A r \in Runs :
          /\ todo[r] \subseteq ForeignInstances
          /\ target[r] \in ForeignInstances \cup {NoInstance}
          /\ failovers = 0 => todo[r] = {} /\ target[r] = NoInstance

\* A running handler has a delivery's number, and an event that waits for a
\* delivery has one left.
Deliveries ==
    \A r \in Runs :
        /\ Running(r) => attempt[r] \in 1..MaxAttempts
        /\ phase[r] \in {"idle", "retry"} => attempt[r] < MaxAttempts

\* Samples are finitely many, so that they can be counted.
Counted == IsFiniteSet(samples)

\* No sample is of a later delivery than its run's, none is of a delivery that
\* has yet to take its first, and a delivery has one of each such instance.
Once ==
    /\ \A s \in samples : s.attempt =< attempt[s.run]
    /\ \A s \in samples : phase[s.run] = "sample" => s.attempt # attempt[s.run]
    /\ \A s, t \in samples :
          /\ s.instance = t.instance /\ s.run = t.run /\ s.attempt = t.attempt
          /\ Single(s.instance)
          => s = t

SampleInv == TypeOK /\ LoopShape /\ Deliveries /\ Counted /\ Once

-----------------------------------------------------------------------------

LEMMA Start == Init => SampleInv
<1>. SUFFICES ASSUME Init PROVE SampleInv
  OBVIOUS
<1>1. TypeOK
  BY SampleAssumption DEF Init, TypeOK, Phases, Resting
<1>2. LoopShape
  BY DEF Init, LoopShape
<1>3. Deliveries
  BY SampleAssumption DEF Init, Deliveries, Running, Resting
<1>4. Once
  BY DEF Init, Once
<1>5. Counted
  BY FS_EmptySet DEF Init, Counted
<1>. QED  BY <1>1, <1>2, <1>3, <1>4, <1>5 DEF SampleInv

\* A failed delivery is repeated while the event has deliveries left.
LEMMA FailedType ==
    ASSUME SampleInv, NEW r \in Runs
    PROVE  /\ Failed(r) \in {"retry", "dead"}
           /\ Failed(r) = "retry" => attempt[r] < MaxAttempts
  BY DEF Failed

\* A script that commits adds a sample of this delivery, of the writer by the
\* first script and of an instance with foreign tables, after a failover, by
\* another: never a second one of an instance OncePerDelivery is about.
LEMMA NewSample ==
    ASSUME SampleInv, NEW r \in Runs, Sampled(r), UNCHANGED << env, attempt >>,
           NEW p \in Phases \ {"sample"}, phase' = [phase EXCEPT ![r] = p]
    PROVE  samples' \subseteq SampleRow /\ Counted' /\ Once'
<1>. USE DEF SampleInv
<1>1. PICK i \in Instances :
          /\ Save(r, i)
          /\ phase[r] = "sample" \/ ~Single(i)
  BY DEF Sampled, LoopShape, TypeOK, Single
<1>. DEFINE n   == Cardinality(Of(r)) + 1
            new == [instance |-> i, run |-> r, attempt |-> attempt[r], nth |-> n]
<1>2. samples' = samples \cup {new}
  BY <1>1 DEF Save
<1>3. attempt[r] \in 1..MaxAttempts
  BY DEF Deliveries, Sampled, Running, Resting
<1>4. n \in Nat
  <2>1. IsFiniteSet(Of(r))
    BY FS_Subset DEF Counted, Of
  <2>. QED  BY <2>1, FS_CardinalityType
<1>5. new \in SampleRow
  BY <1>3, <1>4 DEF SampleRow
<1>. HIDE DEF n
<1>6. /\ new.instance = i /\ new.run = r /\ new.attempt = attempt[r]
      /\ \A o : Single(o)' <=> Single(o)
  BY DEF Single
<1>. HIDE DEF new
<1>7. Counted'
  BY <1>2, FS_AddElement DEF Counted
<1>8. (\A s \in samples : s.attempt =< attempt[s.run])'
  BY <1>2, <1>3, <1>6 DEF Once
<1>9. (\A s \in samples : phase[s.run] = "sample" => s.attempt # attempt[s.run])'
  BY <1>2, <1>6 DEF Once, TypeOK, SampleRow
<1>10. ASSUME NEW s \in samples', NEW t \in samples',
              s.instance = t.instance, s.run = t.run, s.attempt = t.attempt,
              Single(s.instance)
       PROVE  s = t
  <2>1. CASE s \in samples /\ t \in samples
    BY <1>10, <2>1 DEF Once
  <2>2. CASE phase[r] = "sample"
    BY <1>2, <1>6, <1>10, <2>1, <2>2 DEF Once
  <2>3. CASE ~Single(i)
    BY <1>2, <1>6, <1>10, <2>1, <2>3
  <2>. QED  BY <1>1, <2>2, <2>3
<1>. QED  BY <1>2, <1>5, <1>6, <1>7, <1>8, <1>9, <1>10 DEF TypeOK, Once

\* A step of one run that takes no sample and does not begin a delivery.
LEMMA QuietStep ==
    ASSUME SampleInv, NEW r \in Runs, UNCHANGED << env, samples, attempt >>,
           NEW p \in Phases \ {"sample"}, phase' = [phase EXCEPT ![r] = p]
    PROVE  samples' \subseteq SampleRow /\ Counted' /\ Once'
  BY DEF SampleInv, TypeOK, SampleRow, Counted, Once, Single

LEMMA Steps == SampleInv /\ [Next]_vars => SampleInv'
<1>. SUFFICES ASSUME SampleInv, [Next]_vars PROVE SampleInv'
  OBVIOUS
<1>. USE DEF SampleInv
<1>0. Phases = {"idle", "retry", "done", "dead", "sample", "askReaders", "loop", "ro"}
  BY DEF Phases, Resting
<1>1. ASSUME NEW r \in Runs, Fire(r) PROVE SampleInv'
  <2>1. TypeOK' /\ LoopShape' /\ Deliveries' /\ Counted'
    BY <1>0, <1>1, SampleAssumption
    DEF Fire, TypeOK, LoopShape, Deliveries, Counted, Running, Resting
  <2>2. Once'
    BY <1>1 DEF Fire, Once, TypeOK, SampleRow, Single
  <2>. QED  BY <2>1, <2>2
<1>2. ASSUME NEW r \in Runs, RunScript(r) PROVE SampleInv'
  <2>1. After(r) \in {"askReaders", "loop"} /\ phase[r] \in {"sample", "ro"}
    BY <1>2 DEF After, RunScript, Sampled
  <2>2. samples' \subseteq SampleRow /\ Counted' /\ Once'
    BY <1>0, <1>2, <2>1, NewSample DEF RunScript
  <2>. QED  BY <1>0, <1>2, <2>1, <2>2
            DEF RunScript, TypeOK, LoopShape, Deliveries, Running, Resting
<1>3. ASSUME NEW r \in Runs, ScriptFails(r) PROVE SampleInv'
  <2>1. After(r) \in {"askReaders", "loop"}
    BY DEF After
  <2>2. samples' \subseteq SampleRow /\ Counted' /\ Once'
    BY <1>0, <1>3, <2>1, QuietStep DEF ScriptFails
  <2>. QED  BY <1>0, <1>3, <2>1, <2>2
            DEF ScriptFails, TypeOK, LoopShape, Deliveries, Running, Resting
<1>4. ASSUME NEW r \in Runs, ReplyLost(r) PROVE SampleInv'
  <2>1. samples' \subseteq SampleRow /\ Counted' /\ Once'
    BY <1>0, <1>4, FailedType, NewSample DEF ReplyLost, Leave
  <2>. QED  BY <1>0, <1>4, <2>1, FailedType
            DEF ReplyLost, Leave, TypeOK, LoopShape, Deliveries, Running, Resting
<1>5. ASSUME NEW r \in Runs, Raise(r) PROVE SampleInv'
  <2>1. samples' \subseteq SampleRow /\ Counted' /\ Once'
    BY <1>0, <1>5, FailedType, QuietStep DEF Raise, Leave
  <2>. QED  BY <1>0, <1>5, <2>1, FailedType
            DEF Raise, Leave, TypeOK, LoopShape, Deliveries, Running, Resting
<1>6. ASSUME NEW r \in Runs, AskReaders(r) PROVE SampleInv'
  <2>1. samples' \subseteq SampleRow /\ Counted' /\ Once'
    BY <1>0, <1>6, QuietStep DEF AskReaders
  <2>2. /\ RoInstance \subseteq ForeignInstances /\ RoInstance \subseteq Instances
        /\ failovers = 0 => RoInstance = {}
    BY SampleAssumption DEF RoInstance, LoopShape
  <2>3. TypeOK'
    BY <1>0, <1>6, <2>1, <2>2 DEF AskReaders, TypeOK
  <2>4. LoopShape'
    BY <1>6, <2>2 DEF AskReaders, LoopShape, TypeOK
  <2>5. Deliveries'
    BY <1>6 DEF AskReaders, Deliveries, Running, Resting, TypeOK
  <2>. QED  BY <2>1, <2>3, <2>4, <2>5
<1>7. ASSUME NEW r \in Runs, NextReader(r) PROVE SampleInv'
  <2>1. samples' \subseteq SampleRow /\ Counted' /\ Once'
    BY <1>0, <1>7, QuietStep DEF NextReader
  <2>2. PICK i \in todo[r] :
            /\ target' = [target EXCEPT ![r] = i]
            /\ todo'   = [todo   EXCEPT ![r] = @ \ {i}]
    BY <1>7 DEF NextReader
  <2>3. TypeOK'
    BY <1>0, <1>7, <2>1, <2>2, SampleAssumption DEF NextReader, TypeOK
  <2>4. LoopShape'
    BY <1>7, <2>2 DEF NextReader, LoopShape, TypeOK
  <2>5. Deliveries'
    BY <1>7 DEF NextReader, Deliveries, Running, Resting, TypeOK
  <2>. QED  BY <2>1, <2>3, <2>4, <2>5
<1>8. ASSUME NEW r \in Runs, Return(r) PROVE SampleInv'
  <2>1. samples' \subseteq SampleRow /\ Counted' /\ Once'
    BY <1>0, <1>8, QuietStep DEF Return
  <2>. QED  BY <1>0, <1>8, <2>1
            DEF Return, TypeOK, LoopShape, Deliveries, Running, Resting
<1>9. ASSUME Failover PROVE SampleInv'
  <2>1. TypeOK' /\ LoopShape' /\ Deliveries' /\ Counted'
    BY <1>9, SampleAssumption
    DEF Failover, TypeOK, LoopShape, Deliveries, Counted, Running
  <2>2. \A i : Single(i)' => Single(i)
    BY <1>9, SampleAssumption DEF Failover, Single, TypeOK
  <2>3. Once'
    BY <1>9, <2>2 DEF Failover, Once
  <2>. QED  BY <2>1, <2>3
<1>10. ASSUME UNCHANGED vars PROVE SampleInv'
  BY <1>10 DEF vars, TypeOK, LoopShape, Deliveries, Counted, Once, Single, Running
<1>. QED  BY <1>1, <1>2, <1>3, <1>4, <1>5, <1>6, <1>7, <1>8, <1>9, <1>10
          DEF Next, Progress, Finished

\* One sample per instance and delivery is what Times counts.
LEMMA Counts == SampleInv => OncePerDelivery
<1>. SUFFICES ASSUME SampleInv, NEW i \in Instances, NEW r \in Runs,
                     NEW a \in 1..MaxAttempts, Single(i)
              PROVE  Times(i, r, a) =< 1
  BY DEF SampleInv, OncePerDelivery, Single
<1>. DEFINE S == {s \in samples : s.instance = i /\ s.run = r /\ s.attempt = a}
<1>1. CASE S = {}
  BY <1>1, FS_EmptySet DEF Times
<1>2. CASE S # {}
  <2>1. PICK s \in S : TRUE
    BY <1>2
  <2>2. S = {s}
    BY <2>1 DEF SampleInv, Once
  <2>3. Cardinality({s}) = 1
    BY FS_Singleton
  <2>. QED  BY <2>2, <2>3 DEF Times
<1>. QED  BY <1>1, <1>2

\* A delivery samples an instance once, whatever fails and whoever overlaps it.
THEOREM SampledOnce == Spec => []OncePerDelivery
<1>1. Init => SampleInv
  BY Start
<1>2. SampleInv /\ [Next]_vars => SampleInv'
  BY Steps
<1>3. SampleInv => OncePerDelivery
  BY Counts
<1>. QED  BY <1>1, <1>2, <1>3, PTL DEF Spec

=============================================================================
