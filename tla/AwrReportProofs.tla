--------------------------- MODULE AwrReportProofs ---------------------------
(***************************************************************************)
(* What a report says is exact, for any number of instances, queries,      *)
(* snapshots and restarts.                                                 *)
(***************************************************************************)
EXTENDS AwrReport, FiniteSetTheorems, FunctionTheorems, WellFoundedInduction, TLAPS

\* A snapshot n gets the rows of instance i under the time t.
Saved(n, i, t) ==
    /\ instHist' = instHist \cup {InstRow(n, i, t)}
    /\ stmtHist' = stmtHist \cup StmtRows(n, i)
    /\ UNCHANGED << start, counter, spent >>

LEMMA BeginTimeType ==
    ASSUME TypeOK, NEW i, NEW n, NEW q
    PROVE  /\ BeginTime(i, n, q) \in Nat
           /\ StmtRow(n, i, q) = {} => BeginTime(i, n, q) = 0
  BY DEF BeginTime, StmtRow, TypeOK, StmtHistRow

\* Rows with another snapshot or instance do not change a query's time.
LEMMA BeginTimeKept ==
    ASSUME NEW n, NEW i, NEW m, NEW j, NEW q, m # n \/ j # i,
           stmtHist' = stmtHist \cup StmtRows(n, i)
    PROVE  BeginTime(j, m, q)' = BeginTime(j, m, q)
<1>1. StmtRow(m, j, q)' = StmtRow(m, j, q)
  BY DEF StmtRow, StmtRows
<1> QED BY <1>1 DEF BeginTime

\* Of the rows just saved, the time is the counter.
LEMMA BeginTimeSaved ==
    ASSUME TypeOK, NEW n, NEW i \in Instances, NEW q \in Queries,
           \A r \in stmtHist : ~(r.snap = n /\ r.instance = i),
           stmtHist' = stmtHist \cup StmtRows(n, i)
    PROVE  BeginTime(i, n, q)' = counter[i][q]
<1> DEFINE row == [snap |-> n, instance |-> i, query |-> q, time |-> counter[i][q]]
<1>1. StmtRow(n, i, q)' = {r \in StmtRows(n, i) : r.query = q}
  BY DEF StmtRow, StmtRows
<1>2. counter[i][q] \in Nat
  BY DEF TypeOK
<1>3. CASE counter[i][q] = 0
  <2>1. StmtRow(n, i, q)' = {}
    BY <1>1, <1>3 DEF StmtRows
  <2> QED BY <2>1, <1>3 DEF BeginTime
<1>4. CASE counter[i][q] > 0
  <2>1. StmtRow(n, i, q)' = {row}
    BY <1>1, <1>4 DEF StmtRows
  <2>2. \A r \in StmtRow(n, i, q)' : r.time = counter[i][q]
    BY <2>1
  <2> QED BY <2>1, <2>2 DEF BeginTime
<1> QED BY <1>2, <1>3, <1>4

LEMMA TypeInit == Init => TypeOK
  BY DEF Init, TypeOK

LEMMA RowsType ==
    ASSUME TypeOK, NEW n \in Nat, NEW i \in Instances, NEW t \in Nat
    PROVE  /\ InstRow(n, i, t) \in InstHistRow
           /\ StmtRows(n, i) \in SUBSET StmtHistRow
  BY DEF InstRow, StmtRows, TypeOK, InstHistRow, StmtHistRow

LEMMA TypeStep == TypeOK /\ [Next]_vars => TypeOK'
<1> SUFFICES ASSUME TypeOK, [Next]_vars PROVE TypeOK'
  OBVIOUS
<1>1. ASSUME NEW i \in Instances, NEW q \in Queries, Work(i, q) PROVE TypeOK'
  BY <1>1 DEF Work, TypeOK
<1>2. ASSUME NEW i \in Instances, Restart(i) PROVE TypeOK'
  BY <1>2 DEF Restart, TypeOK
<1>3. CASE TakeSnap
  <2>1. Len(snapTime) + 1 \in Nat /\ clock + 1 \in Nat /\ Writer \in Instances
    BY DEF TypeOK, Instances
  <2>2. snapTime' \in Seq(Nat)
    BY <1>3, <2>1 DEF TakeSnap, TypeOK
  <2>3. instHist' \in SUBSET InstHistRow /\ stmtHist' \in SUBSET StmtHistRow
    BY <1>3, <2>1, RowsType DEF TakeSnap, TypeOK
  <2> QED BY <1>3, <2>1, <2>2, <2>3 DEF TakeSnap, TypeOK
<1>4. ASSUME NEW i \in Readers, SaveReader(i) PROVE TypeOK'
  <2>1. Len(snapTime) \in Nat /\ snapTime[Len(snapTime)] \in Nat /\ i \in Instances
    BY <1>4 DEF TypeOK, Instances, SaveReader
  <2>2. instHist' \in SUBSET InstHistRow /\ stmtHist' \in SUBSET StmtHistRow
    BY <1>4, <2>1, RowsType DEF SaveReader, TypeOK
  <2> QED BY <1>4, <2>2 DEF SaveReader, TypeOK
<1>5. CASE UNCHANGED vars
  BY <1>5 DEF vars, TypeOK
<1> QED BY <1>1, <1>2, <1>3, <1>4, <1>5 DEF Next

\* Every reachable state is well typed.
THEOREM TypeCorrect == Spec => []TypeOK
  BY TypeInit, TypeStep, PTL DEF Spec

-----------------------------------------------------------------------------

LEMMA ReportInit == Init => ReportInv
  BY DEF Init, ReportInv, RowsShape, StartsInOrder, CountersExact, Instances

\* While no row is saved, the time of a query stays.
LEMMA BeginTimeSame ==
    ASSUME stmtHist' = stmtHist, NEW i, NEW n, NEW q
    PROVE  BeginTime(i, n, q)' = BeginTime(i, n, q)
  BY DEF BeginTime, StmtRow

LEMMA WorkInv ==
    ASSUME TypeOK, ReportInv, NEW i \in Instances, NEW q \in Queries, Work(i, q)
    PROVE  ReportInv'
<1>1. RowsShape'
  BY DEF ReportInv, RowsShape, Work
<1>2. StartsInOrder'
  BY DEF ReportInv, StartsInOrder, Work
<1>3. \A j \in Instances, p \in Queries :
         /\ counter[j][p] \in Nat /\ spent[j][p] \in Nat
         /\ counter'[j][p] - counter[j][p] = spent'[j][p] - spent[j][p]
         /\ counter'[j][p] \in Nat /\ spent'[j][p] \in Nat
         /\ spent[j][p] =< spent'[j][p]
  BY DEF Work, TypeOK
<1>4. \A x \in instHist, p \in Queries :
         /\ x.instance \in Instances /\ x.spent[p] \in Nat
         /\ BeginTime(x.instance, x.snap, p) \in Nat
         /\ BeginTime(x.instance, x.snap, p)' = BeginTime(x.instance, x.snap, p)
  BY BeginTimeType, BeginTimeSame DEF TypeOK, InstHistRow, Work
<1>5. CountersExact'
  BY <1>3, <1>4 DEF ReportInv, CountersExact, Work
<1> QED BY <1>1, <1>2, <1>5 DEF ReportInv

LEMMA RestartInv ==
    ASSUME TypeOK, ReportInv, NEW i \in Instances, Restart(i)
    PROVE  ReportInv'
<1>1. /\ clock \in Nat /\ clock' = clock + 1 /\ start \in [Instances -> Nat]
      /\ \A j \in Instances : start[j] =< clock
      /\ \A j \in Instances : start'[j] = IF j = i THEN clock + 1 ELSE start[j]
  BY DEF ReportInv, StartsInOrder, TypeOK, Restart
<1>2. \A x \in instHist :
         /\ x.instance \in Instances /\ x.time \in Nat /\ x.start \in Nat
         /\ x.time =< clock /\ x.start =< start[x.instance]
  BY DEF ReportInv, RowsShape, StartsInOrder, TypeOK, InstHistRow
<1>3. RowsShape'
  <2>1. \A n \in 1..Len(snapTime) : snapTime[n] \in Nat
    BY DEF TypeOK
  <2> QED BY <1>1, <1>2, <2>1 DEF ReportInv, RowsShape, Restart
<1>4. StartsInOrder'
  BY <1>1, <1>2 DEF ReportInv, StartsInOrder, Restart
<1>5. \A x \in instHist : x.start = start'[x.instance] => x.instance # i
  BY <1>1, <1>2
<1>6. \A j \in Instances : j # i => counter'[j] = counter[j]
  BY DEF Restart, TypeOK
<1>7. \A x \in instHist, q \in Queries :
         BeginTime(x.instance, x.snap, q)' = BeginTime(x.instance, x.snap, q)
  BY BeginTimeSame DEF Restart
<1>8. CountersExact'
  BY <1>1, <1>2, <1>5, <1>6, <1>7 DEF ReportInv, CountersExact, Restart
<1> QED BY <1>3, <1>4, <1>8 DEF ReportInv

\* The rows of an instance are added to the newest snapshot.
LEMMA SavedInv ==
    ASSUME TypeOK, ReportInv,
           NEW n \in Nat, NEW i \in Instances, NEW t \in Nat, Saved(n, i, t),
           InstRows(n, i) = {},
           \A x \in instHist : x.snap =< n,
           i = Writer => start[i] < t
    PROVE  /\ StartsInOrder' <=> \A j \in Instances : start[j] =< clock'
           /\ CountersExact'
           /\ \A x, y \in instHist' : x.snap = y.snap /\ x.instance = y.instance => x = y
           /\ \A r \in stmtHist' : \E x \in instHist' :
                 x.snap = r.snap /\ x.instance = r.instance
           /\ \A r, u \in stmtHist' :
                 r.snap = u.snap /\ r.instance = u.instance /\ r.query = u.query => r = u
<1> DEFINE z == InstRow(n, i, t)
<1>1. /\ z.snap = n /\ z.instance = i /\ z.time = t
      /\ z.start = start[i] /\ z.spent = spent[i]
      /\ instHist' = instHist \cup {z}
  BY DEF InstRow, Saved
<1>2. \A x \in instHist : x.snap \in Nat /\ (x.snap # n \/ x.instance # i)
  BY DEF InstRows, TypeOK, InstHistRow
<1>3. \A r \in stmtHist : ~(r.snap = n /\ r.instance = i)
  BY <1>2 DEF ReportInv, RowsShape
<1>4. start' = start /\ counter' = counter /\ spent' = spent
  BY DEF Saved
<1>5. \A x \in instHist :
         /\ x.instance \in Instances /\ x.time \in Nat /\ x.start \in Nat
         /\ \A q \in Queries : x.spent[q] \in Nat
  BY DEF TypeOK, InstHistRow
<1>6. /\ start \in [Instances -> Nat]
      /\ \A j \in Instances, q \in Queries : counter[j][q] \in Nat /\ spent[j][q] \in Nat
  BY DEF TypeOK
<1>7. StartsInOrder' <=> \A j \in Instances : start[j] =< clock'
  <2>1. \A x \in instHist' :
           /\ x.start =< start[x.instance]
           /\ start[x.instance] =< x.time => x.start = start[x.instance]
           /\ x.instance = Writer => x.start < x.time
    BY <1>1, <1>5, <1>6 DEF ReportInv, StartsInOrder
  <2>2. \A x, y \in instHist' : x.instance = y.instance =>
           /\ x.snap < y.snap => x.start =< y.start
           /\ y.start =< x.time => y.start =< x.start
    BY <1>1, <1>2, <1>5, <1>6 DEF ReportInv, StartsInOrder
  <2> QED BY <1>4, <2>1, <2>2 DEF StartsInOrder
<1>8. \A x \in instHist, q \in Queries :
         /\ BeginTime(x.instance, x.snap, q) \in Nat
         /\ BeginTime(x.instance, x.snap, q)' = BeginTime(x.instance, x.snap, q)
  <2>1. stmtHist' = stmtHist \cup StmtRows(n, i)
    BY DEF Saved
  <2> QED BY <1>2, <2>1, BeginTimeType, BeginTimeKept
<1>9. ASSUME NEW x \in instHist', x = z, NEW q \in Queries
      PROVE  BeginTime(x.instance, x.snap, q)' = counter[i][q]
  <2>1. stmtHist' = stmtHist \cup StmtRows(n, i)
    BY DEF Saved
  <2>2. BeginTime(i, n, q)' = counter[i][q]
    BY <1>3, <2>1, BeginTimeSaved
  <2>3. x.instance = i /\ x.snap = n
    BY <1>1, <1>9
  <2> QED BY <2>2, <2>3
<1> HIDE DEF z
<1>10. CountersExact'
  <2>1. \A x \in instHist', q \in Queries :
           x.start = start[x.instance] =>
             counter[x.instance][q] - BeginTime(x.instance, x.snap, q)'
                = spent[x.instance][q] - x.spent[q]
    BY <1>1, <1>5, <1>6, <1>8, <1>9 DEF ReportInv, CountersExact
  <2>2. \A x, y \in instHist', q \in Queries :
           x.instance = y.instance /\ x.start = y.start =>
             BeginTime(y.instance, y.snap, q)' - BeginTime(x.instance, x.snap, q)'
                = y.spent[q] - x.spent[q]
    <3> SUFFICES ASSUME NEW x \in instHist', NEW y \in instHist', NEW q \in Queries,
                        x.instance = y.instance, x.start = y.start
                 PROVE  BeginTime(y.instance, y.snap, q)' - BeginTime(x.instance, x.snap, q)'
                            = y.spent[q] - x.spent[q]
      OBVIOUS
    <3>1. CASE x \in instHist /\ y \in instHist
      BY <3>1, <1>8 DEF ReportInv, CountersExact
    <3>2. CASE x \in instHist /\ y = z
      BY <3>2, <1>1, <1>5, <1>6, <1>8, <1>9 DEF ReportInv, CountersExact
    <3>3. CASE x = z /\ y \in instHist
      BY <3>3, <1>1, <1>5, <1>6, <1>8, <1>9 DEF ReportInv, CountersExact
    <3>4. CASE x = z /\ y = z
      BY <3>4, <1>1, <1>6, <1>9
    <3> QED BY <3>1, <3>2, <3>3, <3>4, <1>1
  <2>3. \A x \in instHist', q \in Queries : x.spent[q] =< spent[x.instance][q]
    BY <1>1, <1>6 DEF ReportInv, CountersExact
  <2>4. \A x, y \in instHist', q \in Queries :
           x.instance = y.instance /\ x.snap < y.snap => x.spent[q] =< y.spent[q]
    BY <1>1, <1>2, <1>6 DEF ReportInv, CountersExact
  <2> QED BY <1>4, <2>1, <2>2, <2>3, <2>4 DEF CountersExact
<1>11. \A x, y \in instHist' : x.snap = y.snap /\ x.instance = y.instance => x = y
  BY <1>1, <1>2 DEF ReportInv, RowsShape
<1>12. \A r \in stmtHist' : \E x \in instHist' : x.snap = r.snap /\ x.instance = r.instance
  <2>1. \A r \in StmtRows(n, i) : r.snap = n /\ r.instance = i
    BY DEF StmtRows
  <2> QED BY <1>1, <2>1 DEF ReportInv, RowsShape, Saved
<1>13. \A r, u \in stmtHist' :
          r.snap = u.snap /\ r.instance = u.instance /\ r.query = u.query => r = u
  <2>1. \A r, u \in StmtRows(n, i) : r.query = u.query => r = u
    BY DEF StmtRows
  <2>2. \A r \in StmtRows(n, i) : r.snap = n /\ r.instance = i
    BY DEF StmtRows
  <2> QED BY <1>3, <2>1, <2>2 DEF ReportInv, RowsShape, Saved
<1> QED BY <1>7, <1>10, <1>11, <1>12, <1>13

LEMMA TakeSnapInv ==
    ASSUME TypeOK, ReportInv, TakeSnap
    PROVE  ReportInv'
<1> DEFINE n == Len(snapTime) + 1
<1>1. n \in Nat /\ Writer \in Instances /\ clock + 1 \in Nat /\ clock \in Nat
  BY DEF TypeOK, Instances
<1>2. Saved(n, Writer, clock + 1)
  BY DEF Saved, TakeSnap
<1>3. \A x \in instHist : x.snap \in Nat /\ x.snap =< Len(snapTime) /\ x.time \in Nat /\ x.time =< clock
  BY DEF ReportInv, RowsShape, TypeOK, InstHistRow
<1>4. InstRows(n, Writer) = {} /\ \A x \in instHist : x.snap =< n
  BY <1>1, <1>3 DEF InstRows
<1>5. \A j \in Instances : start[j] \in Nat /\ start[j] =< clock
  BY DEF ReportInv, StartsInOrder, TypeOK
<1>6. /\ StartsInOrder' <=> \A j \in Instances : start[j] =< clock'
      /\ CountersExact'
      /\ \A x, y \in instHist' : x.snap = y.snap /\ x.instance = y.instance => x = y
      /\ \A r \in stmtHist' : \E x \in instHist' :
            x.snap = r.snap /\ x.instance = r.instance
      /\ \A r, u \in stmtHist' :
            r.snap = u.snap /\ r.instance = u.instance /\ r.query = u.query => r = u
  <2> start[Writer] < clock + 1
    BY <1>1, <1>5
  <2> HIDE DEF n
  <2> QED BY <1>1, <1>2, <1>4, SavedInv
<1>7. snapTime \in Seq(Nat) /\ snapTime' = Append(snapTime, clock + 1) /\ clock' = clock + 1
  BY DEF TypeOK, TakeSnap
<1>8. Len(snapTime') = n /\ \A m \in 1..n : snapTime'[m] =< clock + 1
  BY <1>1, <1>7 DEF ReportInv, RowsShape
<1>9. \A x \in instHist' : x.snap =< n /\ x.time =< clock + 1
  BY <1>1, <1>3 DEF TakeSnap, InstRow
<1> QED BY <1>1, <1>5, <1>6, <1>7, <1>8, <1>9 DEF ReportInv, RowsShape

LEMMA SaveReaderInv ==
    ASSUME TypeOK, ReportInv, NEW i \in Readers, SaveReader(i)
    PROVE  ReportInv'
<1> DEFINE n == Len(snapTime)
           t == snapTime[n]
<1>1. n \in Nat /\ n > 0 /\ i \in Instances /\ t \in Nat /\ i # Writer
  BY ReportAssumption DEF TypeOK, Instances, SaveReader
<1>2. Saved(n, i, t)
  BY DEF Saved, SaveReader
<1>3. InstRows(n, i) = {} /\ \A x \in instHist : x.snap =< n
  BY DEF SaveReader, ReportInv, RowsShape
<1>4. /\ StartsInOrder' <=> \A j \in Instances : start[j] =< clock'
      /\ CountersExact'
      /\ \A x, y \in instHist' : x.snap = y.snap /\ x.instance = y.instance => x = y
      /\ \A r \in stmtHist' : \E x \in instHist' :
            x.snap = r.snap /\ x.instance = r.instance
      /\ \A r, u \in stmtHist' :
            r.snap = u.snap /\ r.instance = u.instance /\ r.query = u.query => r = u
  <2> HIDE DEF n, t
  <2> QED BY <1>1, <1>2, <1>3, SavedInv
<1>5. clock' = clock /\ snapTime' = snapTime
  BY DEF SaveReader
<1>6. \A x \in instHist' : x.snap =< n /\ x.time =< clock
  <2>1. t =< clock
    BY <1>1 DEF ReportInv, RowsShape
  <2> QED BY <2>1, <1>1 DEF ReportInv, RowsShape, SaveReader, InstRow
<1>7. \A j \in Instances : start[j] =< clock
  BY DEF ReportInv, StartsInOrder
<1> QED BY <1>4, <1>5, <1>6, <1>7 DEF ReportInv, RowsShape

LEMMA ReportStep == TypeOK /\ ReportInv /\ [Next]_vars => ReportInv'
<1>1. ASSUME UNCHANGED vars, ReportInv PROVE ReportInv'
  <2>1. \A x \in instHist, q \in Queries :
           BeginTime(x.instance, x.snap, q)' = BeginTime(x.instance, x.snap, q)
    BY <1>1, BeginTimeSame DEF vars
  <2>2. CountersExact'
    BY <1>1, <2>1 DEF vars, ReportInv, CountersExact
  <2>3. RowsShape' /\ StartsInOrder'
    BY <1>1 DEF vars, ReportInv, RowsShape, StartsInOrder
  <2> QED BY <2>2, <2>3 DEF ReportInv
<1> QED BY <1>1, WorkInv, RestartInv, TakeSnapInv, SaveReaderInv DEF Next

LEMMA ReportInvariant == Spec => [](TypeOK /\ ReportInv)
  BY TypeInit, TypeStep, ReportInit, ReportStep, PTL DEF Spec

-----------------------------------------------------------------------------

\* No restart between two rows whose second is not younger than its snapshot,
\* if the check passes.
LEMMA NoRestart ==
    ASSUME TypeOK, ReportInv, NEW x \in instHist, NEW y \in instHist,
           Reported(x, y), y.start =< y.time
    PROVE  x.start = y.start
<1>1. x \in InstRows(x.snap, x.instance) /\ y \in InstRows(y.snap, x.instance)
  BY DEF InstRows, Reported
<1>2. ~(x.time =< y.start)
  BY <1>1 DEF Reported, CheckPasses
<1>3. x.time \in Nat /\ x.start \in Nat /\ y.start \in Nat
  BY DEF TypeOK, InstHistRow
<1> QED BY <1>2, <1>3 DEF ReportInv, StartsInOrder, Reported

LEMMA NoRestartExact ==
    ASSUME TypeOK, ReportInv, NEW x \in instHist, NEW y \in instHist,
           x.instance = y.instance, x.snap < y.snap, x.start = y.start
    PROVE  Exact(x, y)
<1> SUFFICES ASSUME NEW q \in Queries
             PROVE  TimeOf(x.instance, x.snap, y.snap, q) = y.spent[q] - x.spent[q]
  BY DEF Exact
<1> DEFINE bx == BeginTime(x.instance, x.snap, q)
           by == BeginTime(x.instance, y.snap, q)
<1>1. by - bx = y.spent[q] - x.spent[q] /\ x.spent[q] =< y.spent[q]
  BY DEF ReportInv, CountersExact
<1>2. bx \in Nat /\ by \in Nat /\ (StmtRow(y.snap, x.instance, q) = {} => by = 0)
  BY BeginTimeType
<1>3. x.spent[q] \in Nat /\ y.spent[q] \in Nat
  BY DEF TypeOK, InstHistRow
<1>4. TimeOf(x.instance, x.snap, y.snap, q)
        = IF StmtRow(y.snap, x.instance, q) = {} THEN 0 ELSE by - bx
  BY DEF TimeOf, BeginTime
<1> HIDE DEF bx, by
<1> QED BY <1>1, <1>2, <1>3, <1>4

LEMMA InvExact ==
    TypeOK /\ ReportInv => ReportExact /\ RefusalJustified
<1> SUFFICES ASSUME TypeOK, ReportInv
             PROVE  ReportExact /\ RefusalJustified
  OBVIOUS
<1>1. \A x \in instHist : x.time \in Nat /\ x.start \in Nat /\ x.snap \in Nat
  BY DEF TypeOK, InstHistRow
<1>2. \A x, y \in instHist : Reported(x, y) /\ y.start =< y.time => Exact(x, y)
  BY NoRestart, NoRestartExact DEF Reported
<1>3. \A y \in instHist : y.instance = Writer => y.start < y.time
  BY DEF ReportInv, StartsInOrder
<1>4. ReportExact
  <2> SUFFICES ASSUME NEW x \in instHist, NEW y \in instHist, Reported(x, y),
                      x.instance = Writer \/ y.start =< y.time
               PROVE  Exact(x, y)
    BY DEF ReportExact
  <2>1. x.instance = Writer => y.instance = Writer
    BY DEF Reported
  <2>2. y.start =< y.time
    BY <1>1, <1>3, <2>1
  <2> QED BY <1>2, <2>2
<1>5. RefusalJustified
  <2> SUFFICES ASSUME \A r \in instHist : r.instance = Writer,
                      NEW x \in instHist, NEW y \in instHist,
                      x.snap < y.snap, x.start = y.start
               PROVE  CheckPasses(Writer, x.snap, y.snap)
    BY DEF RefusalJustified
  <2>1. \A u \in InstRows(x.snap, Writer) : u = x
    BY DEF InstRows, ReportInv, RowsShape
  <2>2. \A u \in InstRows(y.snap, Writer) : u = y
    BY DEF InstRows, ReportInv, RowsShape
  <2>3. \A r \in instHist : r.start =< y.time => r.start =< y.start
    BY DEF ReportInv, StartsInOrder
  <2> QED BY <1>1, <1>3, <2>1, <2>2, <2>3 DEF CheckPasses
<1> QED BY <1>4, <1>5

\* A report that passes the restart check is exact, on the writer always, on a
\* reader if it did not restart between the end snapshot and its row of it.
THEOREM ReportsExact == Spec => []ReportExact
  BY ReportInvariant, InvExact, PTL

\* A cluster without readers gets every report its writer stayed up for.
THEOREM RefusalsJustified == Spec => []RefusalJustified
  BY ReportInvariant, InvExact, PTL

-----------------------------------------------------------------------------
(***************************************************************************)
(* The period of a batch report.  The times of the snapshots grow with     *)
(* their numbers, and a row has the time of its snapshot.                  *)
(***************************************************************************)

WindowInv ==
    /\ \A x \in instHist : x.snap \in DOMAIN snapTime /\ x.time = snapTime[x.snap]
    /\ \A m, n \in DOMAIN snapTime : m < n => snapTime[m] < snapTime[n]

LEMMA WindowStep == TypeOK /\ ReportInv /\ WindowInv /\ [Next]_vars => WindowInv'
<1>. SUFFICES ASSUME TypeOK, ReportInv, WindowInv, [Next]_vars PROVE WindowInv'
  OBVIOUS
<1>. DEFINE N == Len(snapTime)
<1>1. N \in Nat /\ DOMAIN snapTime = 1..N /\ clock \in Nat /\ \A n \in 1..N : snapTime[n] \in Nat
  BY DEF TypeOK
<1>2. CASE TakeSnap
  <2>1. /\ Len(snapTime') = N + 1 /\ DOMAIN snapTime' = 1..(N + 1)
        /\ snapTime'[N + 1] = clock + 1 /\ \A n \in 1..N : snapTime'[n] = snapTime[n]
    BY <1>1, <1>2 DEF TakeSnap, TypeOK
  <2>2. \A n \in 1..N : snapTime[n] < clock + 1
    BY <1>1 DEF ReportInv, RowsShape
  <2>3. \A m, n \in DOMAIN snapTime' : m < n => snapTime'[m] < snapTime'[n]
    BY <1>1, <2>1, <2>2 DEF WindowInv
  <2>4. ASSUME NEW x \in instHist' PROVE x.snap \in DOMAIN snapTime' /\ x.time = snapTime'[x.snap]
    <3>1. x \in instHist \/ (x.snap = N + 1 /\ x.time = clock + 1)
      BY <1>2, <2>4 DEF TakeSnap, InstRow
    <3>. QED  BY <1>1, <2>1, <3>1 DEF WindowInv
  <2>. QED  BY <2>3, <2>4 DEF WindowInv
<1>3. ASSUME NEW i \in Readers, SaveReader(i) PROVE WindowInv'
  <2>1. \A x \in instHist' : x \in instHist \/ (x.snap = N /\ x.time = snapTime[N])
    BY <1>3 DEF SaveReader, InstRow
  <2>2. N \in 1..N /\ snapTime' = snapTime
    BY <1>1, <1>3 DEF SaveReader
  <2>. QED  BY <1>1, <2>1, <2>2 DEF WindowInv
<1>4. ASSUME UNCHANGED <<snapTime, instHist>> PROVE WindowInv'
  BY <1>4 DEF WindowInv
<1>. QED  BY <1>2, <1>3, <1>4 DEF Next, Work, Restart, vars

Less == {p \in Nat \X Nat : p[1] < p[2]}

LEMMA LessWellFounded == IsWellFoundedOn(Less, Nat)
<1>1. IsWellFoundedOn(OpToRel(<, Nat), Nat)
  BY NatLessThanWellFounded
<1>2. OpToRel(<, Nat) = Less
  BY DEF OpToRel, Less
<1>. QED  BY <1>1, <1>2

LEMMA LeastOf ==
    ASSUME NEW S, S \subseteq Nat, S # {}
    PROVE  \E n \in S : \A m \in S : n =< m
<1>1. \E n \in S : \A m \in S : ~(<<m, n>> \in Less)
  BY LessWellFounded, WFMin
<1>2. PICK n \in S : \A m \in S : ~(<<m, n>> \in Less)
  BY <1>1
<1>3. \A m \in S : ~(m < n)
  BY <1>2 DEF Less
<1>. QED  BY <1>2, <1>3

\* Induction over numbers, for a set instead of a predicate.
LEMMA Induction ==
    ASSUME NEW S, 0 \in S, \A n \in Nat : n \in S => n + 1 \in S
    PROVE  Nat \subseteq S
<1>. SUFFICES ASSUME NEW k \in Nat \ S PROVE FALSE
  OBVIOUS
<1>. DEFINE U == Nat \ S
<1>1. PICK n \in U : \A m \in U : n =< m
  <2>1. U \subseteq Nat /\ U # {}
    OBVIOUS
  <2>. HIDE DEF U
  <2>. QED  BY <2>1, LeastOf
<1>2. n \in Nat /\ n # 0 /\ n - 1 \in Nat
  BY <1>1
<1>3. n - 1 \in S
  BY <1>1, <1>2
<1>. QED  BY <1>1, <1>2, <1>3

LEMMA MinFacts == ASSUME NEW S, S \subseteq Nat, S # {}
                  PROVE  Min(S) \in S /\ \A n \in S : Min(S) =< n
<1>1. \E m \in S : \A n \in S : m =< n
  BY LeastOf
<1>. QED  BY <1>1 DEF Min

LEMMA MaxFacts == ASSUME NEW b \in Nat, NEW S, S \subseteq 1..b, S # {}
                  PROVE  Max(S) \in S /\ \A n \in S : n =< Max(S)
<1>. DEFINE Left == {b - n : n \in S}
<1>1. Left \subseteq Nat /\ Left # {}
  <2>1. PICK n \in S : TRUE
    OBVIOUS
  <2>2. b - n \in Left
    BY <2>1
  <2>. QED  BY <2>2
<1>2. PICK l \in Left : \A k \in Left : l =< k
  <2>. HIDE DEF Left
  <2>. QED  BY <1>1, LeastOf
<1>3. PICK m \in S : l = b - m
  BY <1>2
<1>4. \A n \in S : b - n \in Left
  OBVIOUS
<1>5. \A n \in S : m >= n
  <2>. TAKE n \in S
  <2>1. l =< b - n
    BY <1>2, <1>4
  <2>2. n \in Nat /\ m \in Nat
    BY <1>3
  <2>. QED  BY <1>3, <2>1, <2>2
<1>6. Max(S) \in S /\ \A n \in S : Max(S) >= n
  BY <1>3, <1>5 DEF Max
<1>. QED  BY <1>6

LEMMA InvWindow == TypeOK /\ WindowInv => WindowExact
<1>. SUFFICES ASSUME TypeOK, WindowInv,
                     NEW t \in 0..(clock + 1), NEW u \in 0..(clock + 1), t =< u,
                     NEW w \in Bounds(t, u)
              PROVE  /\ w[1]..w[2] = {n \in DOMAIN snapTime : t =< snapTime[n] /\ snapTime[n] =< u}
                     /\ w[1] > w[2] => w[1] = w[2] + 1 /\ CheckPasses(Writer, w[1], w[2])
  BY DEF WindowExact
<1>. DEFINE N == Len(snapTime)
            lo == Min(From(t))
            hi == Max(UpTo(u))
<1>1. N \in Nat /\ DOMAIN snapTime = 1..N /\ t \in Nat /\ u \in Nat /\ \A n \in 1..N : snapTime[n] \in Nat
  BY DEF TypeOK
<1>2. From(t) # {} /\ UpTo(u) # {} /\ w = <<lo, hi>>
  BY DEF Bounds
<1>3. From(t) \subseteq Nat /\ UpTo(u) \subseteq 1..N
  BY <1>1 DEF From, UpTo
<1>4. lo \in From(t) /\ \A n \in From(t) : lo =< n
  BY <1>2, <1>3, MinFacts
<1>5. hi \in UpTo(u) /\ \A n \in UpTo(u) : n =< hi
  BY <1>1, <1>2, <1>3, MaxFacts
<1>6. w[1] = lo /\ w[2] = hi
  BY <1>2
<1>. HIDE DEF lo, hi
<1>7. lo \in 1..N /\ hi \in 1..N /\ t =< snapTime[lo] /\ snapTime[hi] =< u
  BY <1>1, <1>4, <1>5 DEF From, UpTo
<1>8. \A m, n \in 1..N : m =< n => snapTime[m] =< snapTime[n]
  BY <1>1 DEF WindowInv
<1>9. \A n \in lo..hi : n \in 1..N /\ t =< snapTime[n] /\ snapTime[n] =< u
  BY <1>1, <1>7, <1>8
<1>10. \A n \in 1..N : t =< snapTime[n] /\ snapTime[n] =< u => n \in lo..hi
  BY <1>1, <1>4, <1>5, <1>7 DEF From, UpTo
<1>11. ASSUME lo > hi PROVE lo = hi + 1 /\ CheckPasses(Writer, lo, hi)
  <2>1. hi + 1 \in 1..N /\ hi + 1 \notin UpTo(u)
    BY <1>1, <1>5, <1>7, <1>11
  <2>2. hi + 1 \in From(t)
    BY <1>1, <2>1 DEF From, UpTo
  <2>3. snapTime[hi] < snapTime[lo]
    BY <1>1, <1>7, <1>11 DEF WindowInv
  <2>4. \A x \in InstRows(lo, Writer), y \in InstRows(hi, Writer) :
          x.time = snapTime[lo] /\ y.time = snapTime[hi]
    BY DEF InstRows, WindowInv
  <2>5. \A x \in InstRows(lo, Writer), y \in InstRows(hi, Writer) :
          \A r \in instHist : ~(x.time =< r.start /\ r.start =< y.time)
    <3>1. \A r \in instHist : r.start \in Nat
      BY DEF TypeOK, InstHistRow
    <3>. QED  BY <1>1, <1>7, <2>3, <2>4, <3>1
  <2>. QED  BY <1>1, <1>4, <1>7, <1>11, <2>2, <2>5 DEF CheckPasses
<1>. QED  BY <1>1, <1>6, <1>9, <1>10, <1>11

\* The batch by times reports on exactly the snapshots in its period; one without
\* a snapshot, but with some before and after, is reported backwards.
THEOREM WindowsExact == Spec => []WindowExact
<1>1. Init => WindowInv
  BY DEF Init, WindowInv
<1>2. TypeOK /\ ReportInv /\ WindowInv /\ [Next]_vars => WindowInv'
  BY WindowStep
<1>. QED  BY <1>1, <1>2, InvWindow, ReportInvariant, PTL DEF Spec

-----------------------------------------------------------------------------
(***************************************************************************)
(* Sums over finite sets: a sum over a set does not depend on the order in *)
(* which MapThenSumSet chooses the elements, nor on their names.           *)
(***************************************************************************)

First(T) == CHOOSE x \in T : TRUE

\* g is the sum of f over each part of S, by the equation of MapThenSumSet.
Sums(g, f, S) ==
    g = [T \in SUBSET S |-> IF T = {} THEN 0 ELSE f[First(T)] + g[T \ {First(T)}]]

\* The parts of S with at most n elements.
PartsTo(S, n) == {T \in SUBSET S : Cardinality(T) =< n}

LEMMA PartFacts ==
    ASSUME NEW S, IsFiniteSet(S), NEW T \in SUBSET S
    PROVE  /\ IsFiniteSet(T) /\ Cardinality(T) \in Nat
           /\ Cardinality(T) = 0 <=> T = {}
           /\ \A x \in T : Cardinality(T \ {x}) = Cardinality(T) - 1
<1>1. IsFiniteSet(T)
  BY FS_Subset
<1>2. Cardinality(T) \in Nat
  BY <1>1, FS_CardinalityType
<1>3. Cardinality(T) = 0 <=> T = {}
  BY <1>1, FS_EmptySet
<1>4. \A x \in T : Cardinality(T \ {x}) = Cardinality(T) - 1
  BY <1>1, FS_RemoveElement
<1>. QED  BY <1>1, <1>2, <1>3, <1>4

LEMMA FirstIn == ASSUME NEW T, T # {} PROVE First(T) \in T
  BY DEF First

LEMMA SumsExist ==
    ASSUME NEW S, IsFiniteSet(S), NEW f \in [S -> Int]
    PROVE  \E g : Sums(g, f, S)
<1>. DEFINE For(n, g) ==
              \A T \in PartsTo(S, n) :
                 g[T] = IF T = {} THEN 0 ELSE f[First(T)] + g[T \ {First(T)}]
            N == {n \in Nat : \E g : For(n, g)}
<1>1. 0 \in N
  <2>1. \A T \in PartsTo(S, 0) : T = {}
    BY PartFacts DEF PartsTo
  <2>2. For(0, [T \in PartsTo(S, 0) |-> 0])
    BY <2>1
  <2>. QED  BY <2>2
<1>2. ASSUME NEW n \in Nat, n \in N PROVE n + 1 \in N
  <2>1. PICK g : For(n, g)
    BY <1>2
  <2>. DEFINE h == [T \in SUBSET S |->
                      IF Cardinality(T) =< n THEN g[T] ELSE f[First(T)] + g[T \ {First(T)}]]
  <2>2. ASSUME NEW T \in PartsTo(S, n + 1)
        PROVE  h[T] = IF T = {} THEN 0 ELSE f[First(T)] + h[T \ {First(T)}]
    <3>1. T \in SUBSET S /\ Cardinality(T) \in Nat /\ (Cardinality(T) = 0 <=> T = {})
      BY PartFacts DEF PartsTo
    <3>2. CASE T = {}
      <4>1. T \in PartsTo(S, n)
        BY <3>1, <3>2 DEF PartsTo
      <4>. QED  BY <2>1, <3>1, <3>2, <4>1
    <3>3. CASE T # {}
      <4>. DEFINE R == T \ {First(T)}
      <4>1. First(T) \in T
        BY <3>3, FirstIn
      <4>2. R \in SUBSET S /\ Cardinality(R) = Cardinality(T) - 1
        BY <3>1, <4>1, PartFacts
      <4>3. Cardinality(R) =< n
        BY <3>1, <4>2 DEF PartsTo
      <4>4. h[R] = g[R]
        BY <4>2, <4>3
      <4>5. CASE Cardinality(T) =< n
        BY <2>1, <3>1, <3>3, <4>4, <4>5 DEF PartsTo
      <4>6. CASE ~(Cardinality(T) =< n)
        BY <3>1, <3>3, <4>4, <4>6
      <4>. QED  BY <4>5, <4>6
    <3>. QED  BY <3>2, <3>3
  <2>3. For(n + 1, h)
    <3>. HIDE DEF h
    <3>. QED  BY <2>2
  <2>4. \E k : For(n + 1, k)
    <3>. HIDE DEF h, For
    <3>. QED  BY <2>3
  <2>. HIDE DEF For
  <2>. QED  BY <2>4
<1>3. Cardinality(S) \in N
  <2>1. Nat \subseteq N
    <3>. HIDE DEF N
    <3>. QED  BY <1>1, <1>2, Induction
  <2>. QED  BY <2>1, PartFacts
<1>4. PICK g : For(Cardinality(S), g)
  BY <1>3
<1>5. \A T \in SUBSET S : T \in PartsTo(S, Cardinality(S))
  BY FS_Subset DEF PartsTo
<1>. DEFINE k == [T \in SUBSET S |-> g[T]]
<1>6. \A T \in SUBSET S : k[T] = IF T = {} THEN 0 ELSE f[First(T)] + k[T \ {First(T)}]
  BY <1>4, <1>5
<1>7. k = [T \in SUBSET S |-> IF T = {} THEN 0 ELSE f[First(T)] + k[T \ {First(T)}]]
  <2>1. k = [T \in SUBSET S |-> k[T]]
    OBVIOUS
  <2>. HIDE DEF k
  <2>. QED  BY <1>6, <2>1
<1>. QED  BY <1>7 DEF Sums

\* Any element may be taken first.
AnyFirst(g, f, T) == g[T] \in Int /\ \A x \in T : g[T] = f[x] + g[T \ {x}]

LEMMA SumsEquation ==
    ASSUME NEW S, NEW f, NEW g, Sums(g, f, S)
    PROVE  /\ g[{}] = 0
           /\ \A T \in SUBSET S : T # {} => g[T] = f[First(T)] + g[T \ {First(T)}]
  BY DEF Sums

LEMMA SumsAny ==
    ASSUME NEW S, IsFiniteSet(S), NEW f \in [S -> Int], NEW g, Sums(g, f, S)
    PROVE  \A T \in SUBSET S : AnyFirst(g, f, T)
<1>. DEFINE N == {n \in Nat : \A T \in PartsTo(S, n) : AnyFirst(g, f, T)}
<1>1. 0 \in N
  <2>1. \A T \in PartsTo(S, 0) : T = {}
    BY PartFacts DEF PartsTo
  <2>2. g[{}] = 0
    BY SumsEquation
  <2>3. AnyFirst(g, f, {})
    BY <2>2 DEF AnyFirst
  <2>. QED  BY <2>1, <2>3
<1>2. ASSUME NEW n \in Nat, n \in N PROVE n + 1 \in N
  <2>. SUFFICES ASSUME NEW T \in PartsTo(S, n + 1) PROVE AnyFirst(g, f, T)
    OBVIOUS
  <2>1. T \in SUBSET S /\ Cardinality(T) \in Nat /\ (Cardinality(T) = 0 <=> T = {})
    BY PartFacts DEF PartsTo
  <2>2. CASE T = {}
    BY <2>2, SumsEquation DEF AnyFirst
  <2>3. CASE T # {}
    <3>. DEFINE a == First(T)
    <3>1. a \in T
      BY <2>3, FirstIn
    <3>2. \A x \in T : T \ {x} \in PartsTo(S, n)
      BY <2>1, PartFacts DEF PartsTo
    <3>3. \A x \in T : AnyFirst(g, f, T \ {x})
      BY <1>2, <3>2
    <3>4. g[T] = f[a] + g[T \ {a}]
      BY <2>1, <2>3, SumsEquation
    <3>. HIDE DEF a
    <3>5. \A x \in T : f[x] \in Int /\ g[T \ {x}] \in Int
      BY <2>1, <3>3 DEF AnyFirst
    <3>6. g[T] \in Int
      BY <3>1, <3>4, <3>5
    <3>7. ASSUME NEW x \in T PROVE g[T] = f[x] + g[T \ {x}]
      <4>1. CASE x = a
        BY <3>4, <4>1
      <4>2. CASE x # a
        <5>1. x \in T \ {a} /\ a \in T \ {x} /\ (T \ {a}) \ {x} = (T \ {x}) \ {a}
          BY <3>1, <4>2
        <5>2. g[T \ {a}] = f[x] + g[(T \ {a}) \ {x}]
          BY <3>1, <3>3, <5>1 DEF AnyFirst
        <5>3. g[T \ {x}] = f[a] + g[(T \ {x}) \ {a}]
          BY <3>3, <5>1 DEF AnyFirst
        <5>4. g[(T \ {a}) \ {x}] \in Int
          <6>1. (T \ {a}) \ {x} \in PartsTo(S, n)
            <7>1. T \ {a} \in SUBSET S /\ Cardinality(T \ {a}) =< n /\ Cardinality(T \ {a}) \in Nat
              BY <3>1, <3>2, PartFacts DEF PartsTo
            <7>2. Cardinality((T \ {a}) \ {x}) = Cardinality(T \ {a}) - 1
              BY <5>1, <7>1, PartFacts
            <7>. QED  BY <7>1, <7>2 DEF PartsTo
          <6>. QED  BY <1>2, <6>1 DEF AnyFirst
        <5>5. f[a] \in Int /\ f[x] \in Int
          BY <3>1, <3>5
        <5>6. g[T] = f[a] + (f[x] + g[(T \ {a}) \ {x}])
          BY <3>4, <5>2
        <5>7. g[T \ {x}] = f[a] + g[(T \ {a}) \ {x}]
          BY <5>1, <5>3
        <5>. QED  BY <5>4, <5>5, <5>6, <5>7
      <4>. QED  BY <4>1, <4>2
    <3>. QED  BY <3>6, <3>7 DEF AnyFirst
  <2>. QED  BY <2>2, <2>3
<1>3. Nat \subseteq N
  <2>. HIDE DEF N
  <2>. QED  BY <1>1, <1>2, Induction
<1>. QED
  <2>. TAKE T \in SUBSET S
  <2>1. Cardinality(T) \in N /\ T \in PartsTo(S, Cardinality(T))
    BY <1>3, PartFacts DEF PartsTo
  <2>. QED  BY <2>1

\* Renaming the elements does not change a sum.
LEMMA SumsRenamed ==
    ASSUME NEW S, IsFiniteSet(S), NEW f \in [S -> Int], NEW g, Sums(g, f, S),
           NEW R, IsFiniteSet(R), NEW d \in [R -> Int], NEW k, Sums(k, d, R),
           NEW h \in [S -> R],
           \A x, y \in S : h[x] = h[y] => x = y,
           \A x \in S : f[x] = d[h[x]]
    PROVE  \A T \in SUBSET S : g[T] = k[{h[x] : x \in T}]
<1>. DEFINE Image(T) == {h[x] : x \in T}
            N == {n \in Nat : \A T \in PartsTo(S, n) : g[T] = k[Image(T)]}
<1>1. 0 \in N
  <2>1. \A T \in PartsTo(S, 0) : T = {}
    BY PartFacts DEF PartsTo
  <2>2. g[{}] = 0 /\ k[{}] = 0 /\ Image({}) = {}
    BY SumsEquation
  <2>3. g[{}] = k[Image({})]
    BY <2>2
  <2>. HIDE DEF Image
  <2>. QED  BY <2>1, <2>3
<1>2. ASSUME NEW n \in Nat, n \in N PROVE n + 1 \in N
  <2>. SUFFICES ASSUME NEW T \in PartsTo(S, n + 1) PROVE g[T] = k[Image(T)]
    OBVIOUS
  <2>1. T \in SUBSET S /\ Cardinality(T) \in Nat
    BY PartFacts DEF PartsTo
  <2>2. CASE T = {}
    <3>1. Image(T) = {}
      BY <2>2
    <3>2. g[{}] = 0 /\ k[{}] = 0
      BY SumsEquation
    <3>. HIDE DEF Image
    <3>. QED  BY <2>2, <3>1, <3>2
  <2>3. CASE T # {}
    <3>1. PICK x \in T : TRUE
      BY <2>3
    <3>2. T \ {x} \in PartsTo(S, n)
      BY <2>1, PartFacts DEF PartsTo
    <3>3. g[T] = f[x] + g[T \ {x}]
      <4>1. AnyFirst(g, f, T)
        BY <2>1, SumsAny
      <4>. QED  BY <4>1 DEF AnyFirst
    <3>4. Image(T) \in SUBSET R /\ h[x] \in Image(T)
      BY <2>1
    <3>5. Image(T) \ {h[x]} = Image(T \ {x})
      BY <2>1
    <3>6. g[T \ {x}] = k[Image(T \ {x})]
      BY <1>2, <3>2
    <3>. HIDE DEF Image
    <3>7. AnyFirst(k, d, Image(T))
      BY <3>4, SumsAny
    <3>8. k[Image(T)] = d[h[x]] + k[Image(T) \ {h[x]}]
      BY <3>4, <3>7 DEF AnyFirst
    <3>9. f[x] = d[h[x]]
      BY <2>1
    <3>. QED  BY <3>3, <3>5, <3>6, <3>8, <3>9
  <2>. QED  BY <2>2, <2>3
<1>3. Nat \subseteq N
  <2>. HIDE DEF N
  <2>. QED  BY <1>1, <1>2, Induction
<1>. QED
  <2>. TAKE T \in SUBSET S
  <2>1. Cardinality(T) \in Nat /\ T \in PartsTo(S, Cardinality(T))
    BY PartFacts DEF PartsTo
  <2>2. Cardinality(T) \in N
    <3>. HIDE DEF N
    <3>. QED  BY <1>3, <2>1
  <2>. HIDE DEF Image
  <2>3. \A U \in PartsTo(S, Cardinality(T)) : g[U] = k[Image(U)]
    BY <2>2
  <2>. QED  BY <2>1, <2>3 DEF Image

-----------------------------------------------------------------------------
(***************************************************************************)
(* The db time of awrrpt12.sql is a sum over pairs of rows, what it should *)
(* be one over queries.                                                    *)
(***************************************************************************)

\* The pairs that awrrpt12.sql adds up, and what it adds.
Pairs(i, b, e) ==
    {p \in stmtHist \X stmtHist :
        /\ p[1].snap = b /\ p[2].snap = e /\ p[1].instance = i
        /\ p[1].instance = p[2].instance /\ p[1].query = p[2].query}
Added(P) == [p \in P |-> p[2].time - p[1].time]
Seen(x) == {q \in Queries : StmtRow(x.snap, x.instance, q) # {}}
Spent(x, y, Q) == [q \in Q |-> y.spent[q] - x.spent[q]]
SpentOn(x, y, Q) == MapThenSumSet(LAMBDA q : y.spent[q] - x.spent[q], Q)

LEMMA SumOfPairs ==
    ASSUME NEW P, IsFiniteSet(P), Added(P) \in [P -> Int]
    PROVE  \E g : /\ Sums(g, Added(P), P)
                  /\ MapThenSumSet(LAMBDA p : p[2].time - p[1].time, P) = g[P]
<1>. DEFINE Is(g) == g = [T \in SUBSET P |->
                            IF T = {} THEN 0
                            ELSE (First(T)[2].time - First(T)[1].time) + g[T \ {First(T)}]]
<1>1. MapThenSumSet(LAMBDA p : p[2].time - p[1].time, P) = (CHOOSE g : Is(g))[P]
  BY DEF MapThenSumSet, MapThenFoldSet, First
<1>2. ASSUME NEW g PROVE Is(g) <=> Sums(g, Added(P), P)
  <2>1. \A T \in SUBSET P : T # {} => First(T) \in P
    BY FirstIn
  <2>2. \A T \in SUBSET P : T # {} =>
           Added(P)[First(T)] = First(T)[2].time - First(T)[1].time
    BY <2>1 DEF Added
  <2>. QED  BY <2>2 DEF Sums
<1>3. \E g : Is(g)
  BY <1>2, SumsExist
<1>4. Is(CHOOSE g : Is(g))
  <2>. HIDE DEF Is
  <2>. QED  BY <1>3
<1>5. Sums(CHOOSE g : Is(g), Added(P), P)
  <2>. HIDE DEF Is
  <2>. QED  BY <1>2, <1>4
<1>. QED  BY <1>1, <1>5

LEMMA SumOfQueries ==
    ASSUME NEW x, NEW y, NEW Q, IsFiniteSet(Q), Spent(x, y, Q) \in [Q -> Int]
    PROVE  \E g : Sums(g, Spent(x, y, Q), Q) /\ SpentOn(x, y, Q) = g[Q]
<1>. DEFINE Is(g) == g = [T \in SUBSET Q |->
                            IF T = {} THEN 0
                            ELSE (y.spent[First(T)] - x.spent[First(T)]) + g[T \ {First(T)}]]
<1>1. SpentOn(x, y, Q) = (CHOOSE g : Is(g))[Q]
  BY DEF SpentOn, MapThenSumSet, MapThenFoldSet, First
<1>2. ASSUME NEW g PROVE Is(g) <=> Sums(g, Spent(x, y, Q), Q)
  <2>1. \A T \in SUBSET Q : T # {} => First(T) \in Q
    BY FirstIn
  <2>2. \A T \in SUBSET Q : T # {} =>
           Spent(x, y, Q)[First(T)] = y.spent[First(T)] - x.spent[First(T)]
    BY <2>1 DEF Spent
  <2>. QED  BY <2>2 DEF Sums
<1>3. \E g : Is(g)
  BY <1>2, SumsExist
<1>4. Is(CHOOSE g : Is(g))
  <2>. HIDE DEF Is
  <2>. QED  BY <1>3
<1>5. Sums(CHOOSE g : Is(g), Spent(x, y, Q), Q)
  <2>. HIDE DEF Is
  <2>. QED  BY <1>2, <1>4
<1>. QED  BY <1>1, <1>5

\* A query the begin snapshot has seen has one row there and, if the instance
\* stayed up, one at the end, and the two differ by what was spent.
LEMMA PairFacts ==
    ASSUME TypeOK, ReportInv,
           NEW x \in instHist, NEW y \in instHist,
           x.instance = y.instance, x.snap < y.snap, x.start = y.start
    PROVE  /\ \A p \in Pairs(x.instance, x.snap, y.snap) :
                 /\ p[1].query \in Seen(x)
                 /\ p[2].time - p[1].time = y.spent[p[1].query] - x.spent[p[1].query]
           /\ \A p, u \in Pairs(x.instance, x.snap, y.snap) :
                 p[1].query = u[1].query => p = u
           /\ \A q \in Seen(x) : \E p \in Pairs(x.instance, x.snap, y.snap) : p[1].query = q
<1>. DEFINE P == Pairs(x.instance, x.snap, y.snap)
<1>1. \A r \in stmtHist : r.query \in Queries /\ r.time \in Nat \ {0}
  BY DEF TypeOK, StmtHistRow
<1>2. \A r, u \in stmtHist :
          r.snap = u.snap /\ r.instance = u.instance /\ r.query = u.query => r = u
  BY DEF ReportInv, RowsShape
<1>3. \A r \in stmtHist : BeginTime(r.instance, r.snap, r.query) = r.time
  <2>. TAKE r \in stmtHist
  <2>1. r \in StmtRow(r.snap, r.instance, r.query)
    BY DEF StmtRow
  <2>2. \A u \in StmtRow(r.snap, r.instance, r.query) : u = r
    BY <1>2 DEF StmtRow
  <2>. QED  BY <2>1, <2>2 DEF BeginTime
<1>4. \A q \in Queries :
         BeginTime(y.instance, y.snap, q) - BeginTime(x.instance, x.snap, q)
            = y.spent[q] - x.spent[q]
  BY DEF ReportInv, CountersExact
<1>5. \A q \in Queries : x.spent[q] =< y.spent[q] /\ x.spent[q] \in Nat /\ y.spent[q] \in Nat
  <2>1. \A q \in Queries : x.spent[q] =< y.spent[q]
    BY DEF ReportInv, CountersExact
  <2>2. x.spent \in [Queries -> Nat] /\ y.spent \in [Queries -> Nat]
    BY DEF TypeOK, InstHistRow
  <2>. QED  BY <2>1, <2>2
<1>6. ASSUME NEW p \in P
      PROVE  /\ p[1].query \in Seen(x)
             /\ p[2].time - p[1].time = y.spent[p[1].query] - x.spent[p[1].query]
  <2>1. /\ p[1] \in stmtHist /\ p[2] \in stmtHist
        /\ p[1].snap = x.snap /\ p[2].snap = y.snap /\ p[1].instance = x.instance
        /\ p[2].instance = y.instance /\ p[1].query = p[2].query
    BY DEF Pairs
  <2>2. p[1].query \in Queries /\ p[1] \in StmtRow(x.snap, x.instance, p[1].query)
    BY <1>1, <2>1 DEF StmtRow
  <2>3. BeginTime(x.instance, x.snap, p[1].query) = p[1].time
    BY <1>3, <2>1
  <2>4. BeginTime(y.instance, y.snap, p[1].query) = p[2].time
    BY <1>3, <2>1
  <2>. QED  BY <1>4, <2>2, <2>3, <2>4 DEF Seen
<1>7. ASSUME NEW p \in P, NEW u \in P, p[1].query = u[1].query PROVE p = u
  <2>1. p = <<p[1], p[2]>> /\ u = <<u[1], u[2]>>
    BY DEF Pairs
  <2>2. p[1] = u[1] /\ p[2] = u[2]
    BY <1>2, <1>7 DEF Pairs
  <2>. QED  BY <2>1, <2>2
<1>8. ASSUME NEW q \in Seen(x) PROVE \E p \in P : p[1].query = q
  <2>1. PICK r \in StmtRow(x.snap, x.instance, q) : TRUE
    BY DEF Seen
  <2>2. r \in stmtHist /\ r.snap = x.snap /\ r.instance = x.instance /\ r.query = q
    BY <2>1 DEF StmtRow
  <2>3. BeginTime(x.instance, x.snap, q) = r.time /\ r.time \in Nat \ {0} /\ q \in Queries
    BY <1>1, <1>3, <2>2
  <2>4. BeginTime(y.instance, y.snap, q) # 0
    <3>1. BeginTime(y.instance, y.snap, q) \in Nat
      BY BeginTimeType
    <3>. QED  BY <1>4, <1>5, <2>3, <3>1
  <2>5. PICK u \in StmtRow(y.snap, y.instance, q) : TRUE
    BY <2>4, BeginTimeType
  <2>6. u \in stmtHist /\ u.snap = y.snap /\ u.instance = y.instance /\ u.query = q
    BY <2>5 DEF StmtRow
  <2>7. <<r, u>> \in P
    BY <2>2, <2>6 DEF Pairs
  <2>. QED  BY <2>2, <2>7
<1>. QED  BY <1>6, <1>7, <1>8

LEMMA InvAwr12 == TypeOK /\ ReportInv => Awr12LeavesNew
<1>. SUFFICES ASSUME TypeOK, ReportInv,
                     NEW x \in instHist, NEW y \in instHist,
                     x.instance = y.instance, x.snap < y.snap, x.start = y.start
              PROVE  DbTime12(x.instance, x.snap, y.snap) = SpentOn(x, y, Seen(x))
  BY DEF Awr12LeavesNew, Seen, SpentOn
<1>. DEFINE P == Pairs(x.instance, x.snap, y.snap)
            Q == Seen(x)
            h == [p \in P |-> p[1].query]
            f == Added(P)
            d == Spent(x, y, Q)
<1>1. h \in [P -> Q]
  BY PairFacts
<1>2. \A p, u \in P : h[p] = h[u] => p = u
  BY PairFacts
<1>3. {h[p] : p \in P} = Q
  BY <1>1, PairFacts
<1>4. \A p \in P : f[p] = d[h[p]]
  BY <1>1, PairFacts DEF Added, Spent
<1>5. d \in [Q -> Int]
  <2>1. x.spent \in [Queries -> Nat] /\ y.spent \in [Queries -> Nat]
    BY DEF TypeOK, InstHistRow
  <2>. QED  BY <2>1 DEF Spent, Seen
<1>6. f \in [P -> Int]
  <2>1. \A p \in P : f[p] \in Int
    BY <1>1, <1>4, <1>5
  <2>. QED  BY <2>1 DEF Added
<1>7. IsFiniteSet(Q)
  BY FS_Subset, ReportAssumption DEF Seen
<1>8. IsFiniteSet(P)
  <2>. HIDE DEF P, Q, h
  <2>. QED  BY <1>1, <1>2, <1>7, FS_Injection, Fun_IsInj
<1>9. DbTime12(x.instance, x.snap, y.snap)
         = MapThenSumSet(LAMBDA p : p[2].time - p[1].time, P)
  BY DEF DbTime12, Pairs
<1>. HIDE DEF P, Q, h
<1>10. PICK g : /\ Sums(g, f, P)
                /\ MapThenSumSet(LAMBDA p : p[2].time - p[1].time, P) = g[P]
  BY <1>6, <1>8, SumOfPairs
<1>11. PICK k : Sums(k, d, Q) /\ SpentOn(x, y, Q) = k[Q]
  BY <1>5, <1>7, SumOfQueries
<1>12. g[P] = k[{h[p] : p \in P}]
  <2>. HIDE DEF f, d
  <2>1. Sums(g, f, P) /\ Sums(k, d, Q)
    BY <1>10, <1>11
  <2>2. \A T \in SUBSET P : g[T] = k[{h[p] : p \in T}]
    BY <1>1, <1>2, <1>4, <1>5, <1>6, <1>7, <1>8, <2>1, SumsRenamed
  <2>. QED  BY <2>2
<1>. QED  BY <1>3, <1>9, <1>10, <1>11, <1>12 DEF Q

\* If an instance stays up, awrrpt12.sql's db time is what it spent on the queries
\* the begin snapshot has seen, and leaves out the others.
THEOREM NewQueriesLeftOut == Spec => []Awr12LeavesNew
  BY ReportInvariant, InvAwr12, PTL

=============================================================================
