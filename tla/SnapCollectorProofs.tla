------------------------- MODULE SnapCollectorProofs -------------------------
(***************************************************************************)
(* Theorems about SnapCollector for any number of events, instances,       *)
(* retries and overlapping runs, and for scripts of any length.            *)
(***************************************************************************)
EXTENDS SnapCollector, FiniteSetTheorems, TLAPS

USE DEF db, env, ctl, tx

\* A script is a sequence of tables, and the step after it has none open.
LEMMA ScriptFacts ==
    ASSUME NEW p \in Scripted
    PROVE  /\ Script[p] \in Seq(STRING)
           /\ After[p] \in Phases
           /\ After[p] # "idle" /\ After[p] # "retry"
           /\ After[p] \in {"whost", "ro", "rhost"} => p \in {"whost", "ro", "rhost"}
  BY ScriptAssumption DEF Scripted, Script, After, Phases, Resting

\* What the next statistics statement of a script inserts is a batch.
LEMMA BatchType ==
    ASSUME TypeOK, NEW r \in Runs, AtInsert(r), NEW s \in SnapRow
    PROVE  Batch(r, s) \in HistRow
<1>1. phase[r] \in Scripted /\ stmt[r] \in Nat /\ stmt[r] # 0
      /\ stmt[r] =< Len(Script[phase[r]])
  BY DEF AtInsert, Executing, Open, TypeOK
<1>2. Script[phase[r]][stmt[r]] \in Tables
  <2>1. CASE phase[r] = "snap"
    <3>1. stmt[r] \in 2..Len(SnapScript)
      BY <1>1, <2>1, ScriptAssumption DEF AtInsert, Script, Scripted
    <3>. QED  BY <3>1, <2>1 DEF Tables, Script, Scripted
  <2>2. CASE phase[r] = "ro"
    BY <1>1, <2>2, ScriptAssumption DEF Tables, Script, Scripted
  <2>3. CASE phase[r] \in {"whost", "rhost"}
    BY <1>1, <2>3, ScriptAssumption DEF Tables, Script, Scripted
  <2>. QED  BY <1>1, <2>1, <2>2, <2>3 DEF Scripted
<1>3. Subject(r) \in Instances
  BY <1>1 DEF Subject, TypeOK, Scripted
<1>4. Self(r) \in Author
  BY <1>1, BoundAssumption DEF Self, Author, TypeOK, Scripted
<1>. QED  BY <1>2, <1>3, <1>4 DEF Batch, HistRow

\* The snapshots a statement can see are rows of perfstat.snap, and the number
\* after the newest of them is a snap_id.
LEMMA LatestType ==
    ASSUME TypeOK, NEW r \in Runs
    PROVE  Latest(r) \subseteq SnapRow /\ MaxId(Visible(r)) \subseteq Nat
<1>1. Visible(r) \subseteq SnapRow
  BY DEF Visible, TypeOK
<1>. QED  BY <1>1 DEF Latest, Newest, MaxId, SnapRow

\* Ending the transaction of one run leaves every variable with its type.
LEMMA CloseTxType ==
    ASSUME TypeOK, NEW r \in Runs, CloseTx(r)
    PROVE  /\ stmt' \in [Runs -> Nat] /\ txTime' \in [Runs -> Nat]
           /\ txSnap' \in [Runs -> SUBSET SnapRow]
           /\ txHist' \in [Runs -> SUBSET HistRow]
           /\ waits'  \in [Runs -> SUBSET HistRow]
           /\ stmt'[r] = 0
           /\ \A o \in Runs \ {r} : stmt'[o] = stmt[o]
  BY DEF CloseTx, TypeOK

\* A failed delivery is retried or given up.
LEMMA FailedType ==
    ASSUME TypeOK, NEW r \in Runs
    PROVE  /\ Failed(r) \in {"retry", "dead"}
           /\ Failed(r) = "retry" => attempt[r] < MaxAttempts
  BY DEF Failed

LEMMA TypeInit == Init => TypeOK
  BY BoundAssumption DEF Init, TypeOK, Phases, Resting, Open

LEMMA TypeStep == TypeOK /\ [Next]_vars => TypeOK'
<1>. SUFFICES ASSUME TypeOK, [Next]_vars PROVE TypeOK'
  OBVIOUS
<1>. USE DEF TypeOK, Phases, Scripted, Resting
<1>1. ASSUME NEW r \in Runs, Fire(r) PROVE TypeOK'
  BY <1>1, BoundAssumption DEF Fire, Open
<1>2. ASSUME NEW r \in Runs, Begin(r) PROVE TypeOK'
  <2>1. Len(Script[phase[r]]) \in Nat
    BY <1>2, ScriptFacts DEF Begin
  <2>2. clock' \in Nat /\ txTime' \in [Runs -> Nat]
    BY <1>2 DEF Begin
  <2>3. stmt' = [stmt EXCEPT ![r] = 1] /\ phase[r] \in Scripted /\ attempt' = attempt
        /\ phase' = phase /\ target' = target /\ todo' = todo /\ txSnap' = txSnap
        /\ txHist' = txHist /\ waits' = waits /\ snap' = snap /\ hist' = hist
        /\ writer' = writer /\ failovers' = failovers
    BY <1>2 DEF Begin
  <2>. QED  BY <2>1, <2>2, <2>3 DEF Open
<1>3. ASSUME NEW r \in Runs, InsertSnap(r) PROVE TypeOK'
  <2>1. Len(Script[phase[r]]) \in Nat /\ stmt[r] =< Len(Script[phase[r]])
        /\ phase[r] \in Scripted /\ Open(r)
    BY <1>3, ScriptFacts DEF InsertSnap, AtSnapInsert, Executing
  <2>2. PICK m \in Nat :
          txSnap' = [txSnap EXCEPT ![r] = {[id |-> m + 1, time |-> txTime[r], by |-> Self(r)]}]
    BY <1>3, LatestType DEF InsertSnap
  <2>3. [id |-> m + 1, time |-> txTime[r], by |-> Self(r)] \in SnapRow
    BY <2>1, BoundAssumption DEF SnapRow, Author, Self
  <2>4. txSnap' \in [Runs -> SUBSET SnapRow]
    BY <2>2, <2>3
  <2>. QED  BY <1>3, <2>1, <2>4 DEF InsertSnap, Advance, Open
<1>4. ASSUME NEW r \in Runs, InsertBatch(r) PROVE TypeOK'
  <2>1. Len(Script[phase[r]]) \in Nat /\ stmt[r] =< Len(Script[phase[r]])
        /\ phase[r] \in Scripted /\ Open(r)
    BY <1>4, ScriptFacts DEF InsertBatch, AtInsert, Executing
  <2>2. PICK s \in Latest(r) : txHist' = [txHist EXCEPT ![r] = @ \cup {Batch(r, s)}]
    BY <1>4 DEF InsertBatch
  <2>3. Batch(r, s) \in HistRow
    BY <1>4, <2>2, LatestType, BatchType DEF InsertBatch
  <2>4. txHist' \in [Runs -> SUBSET HistRow]
    BY <2>2, <2>3
  <2>. QED  BY <1>4, <2>1, <2>4 DEF InsertBatch, Advance, Open
<1>5. ASSUME NEW r \in Runs, InsertNothing(r) PROVE TypeOK'
  <2>1. Len(Script[phase[r]]) \in Nat /\ stmt[r] =< Len(Script[phase[r]])
        /\ phase[r] \in Scripted /\ Open(r)
    BY <1>5, ScriptFacts DEF InsertNothing, AtInsert, Executing
  <2>. QED  BY <1>5, <2>1 DEF InsertNothing, Advance, Open
<1>6. ASSUME NEW r \in Runs, Wait(r) PROVE TypeOK'
  <2>2. PICK s \in Latest(r) : waits' = [waits EXCEPT ![r] = {Batch(r, s)}]
    BY <1>6 DEF Wait
  <2>3. Batch(r, s) \in HistRow
    BY <1>6, <2>2, LatestType, BatchType DEF Wait
  <2>4. waits' \in [Runs -> SUBSET HistRow]
    BY <2>2, <2>3
  <2>. QED  BY <1>6, <2>4 DEF Wait, Open
<1>7. ASSUME NEW r \in Runs, WaitOver(r) PROVE TypeOK'
  <2>1. Len(Script[phase[r]]) \in Nat /\ stmt[r] =< Len(Script[phase[r]])
        /\ phase[r] \in Scripted /\ Open(r)
    BY <1>7, ScriptFacts DEF WaitOver, AtInsert, Executing
  <2>2. txHist' \in [Runs -> SUBSET HistRow] /\ waits' \in [Runs -> SUBSET HistRow]
    BY <1>7 DEF WaitOver
  <2>. QED  BY <1>7, <2>1, <2>2 DEF WaitOver, Advance, Open
<1>8. ASSUME NEW r \in Runs, RolledBack(r), phase[r] \in Scripted PROVE TypeOK'
  BY <1>8, ScriptFacts, CloseTxType DEF RolledBack, Open
<1>9. ASSUME NEW r \in Runs, Commit(r) PROVE TypeOK'
  BY <1>9, ScriptFacts, CloseTxType DEF Commit, Committed, Open
<1>10. ASSUME NEW r \in Runs, ReplyLost(r) PROVE TypeOK'
  BY <1>10, FailedType, CloseTxType DEF ReplyLost, Committed, Leave, Open
<1>11. ASSUME NEW r \in Runs, Raise(r) PROVE TypeOK'
  BY <1>11, FailedType, CloseTxType DEF Raise, Running, Leave, Open
<1>12. ASSUME NEW r \in Runs, AskWriter(r) \/ AskReaders(r) \/ NextReader(r) \/ Return(r)
       PROVE TypeOK'
  <2>1. CASE AskWriter(r)
    BY <2>1, InstanceAssumption DEF AskWriter, Open
  <2>2. CASE AskReaders(r)
    BY <2>2, InstanceAssumption DEF AskReaders, Open
  <2>3. CASE NextReader(r)
    BY <2>3, InstanceAssumption DEF NextReader, Open
  <2>4. CASE Return(r)
    BY <2>4 DEF Return, Leave, Open
  <2>. QED  BY <1>12, <2>1, <2>2, <2>3, <2>4
<1>13. CASE Failover
  <2>1. writer' \in Instances /\ failovers' \in 0..MaxFailovers
    BY <1>13, BoundAssumption DEF Failover
  <2>2. phase' \in [Runs -> Phases] /\ target' \in [Runs -> Instances \cup {NoInstance}]
        /\ todo' \in [Runs -> SUBSET Instances]
    BY <1>13, FailedType DEF Failover
  <2>3. ASSUME NEW r \in Runs
        PROVE  \/ phase'[r] = phase[r] /\ target'[r] = target[r]
               \/ phase'[r] \in {"retry", "dead"} /\ phase[r] \in Scripted
                  /\ (phase'[r] = "retry" => attempt[r] < MaxAttempts)
    <3>1. CASE Open(r)
      BY <1>13, <3>1, FailedType DEF Failover
    <3>2. CASE ~Open(r)
      BY <1>13, <3>2 DEF Failover
    <3>. QED  BY <3>1, <3>2
  <2>. QED  BY <1>13, <2>1, <2>2, <2>3 DEF Failover, Open
<1>14. CASE UNCHANGED vars
  BY <1>14 DEF vars, Open
<1>. QED
  BY <1>1, <1>2, <1>3, <1>4, <1>5, <1>6, <1>7, <1>8, <1>9, <1>10, <1>11, <1>12, <1>13, <1>14
     DEF Next, Progress, Fault, KeyViolation, StatementFails, Finished, AtInsert, Executing, Open

\* Every reachable state is well typed: in particular a connection is open only
\* while a script runs, whatever failed before.
THEOREM TypeCorrect == Spec => []TypeOK
  BY TypeInit, TypeStep, PTL DEF Spec

-----------------------------------------------------------------------------
(***************************************************************************)
(* What survives overlap.  CollectorInv is inductive relative to TypeOK.   *)
(* Most steps leave the database alone and, for each run, either keep its  *)
(* transaction or end up with an empty one: QuietStep is about them all.   *)
(***************************************************************************)

LEMMA QuietStep ==
    ASSUME TypeOK, TypeOK', CollectorInv,
           snap' = snap, hist' = hist, attempt' = attempt,
           \A r \in Runs :
              \/ /\ txSnap'[r] = txSnap[r] /\ txHist'[r] = txHist[r]
                 /\ waits'[r] = waits[r] /\ stmt'[r] = stmt[r]
                 /\ phase'[r] = phase[r]
              \/ /\ txSnap'[r] = {} /\ txHist'[r] = {} /\ waits'[r] = {}
                 /\ phase'[r] = "snap" => phase[r] = "snap"
    PROVE  CollectorInv'
<1>. USE DEF CollectorInv, Self, Visible
<1>1. TxShape'
  BY DEF TxShape, Open, AtSnapInsert, Executing
<1>2. Authorship'
  BY DEF Authorship
<1>3. GaplessIds' /\ HistRefersToSnap' /\ NeverOlder'
  BY DEF GaplessIds, HistRefersToSnap, NeverOlder
<1>4. GaplessTx'
  BY DEF GaplessTx
<1>5. RefersTx'
  BY DEF RefersTx
<1>. QED  BY <1>1, <1>2, <1>3, <1>4, <1>5

\* A transaction that is not open, or has just begun, holds nothing.
LEMMA ClosedIsEmpty ==
    ASSUME CollectorInv, NEW r \in Runs, ~Open(r)
    PROVE  txSnap[r] = {} /\ txHist[r] = {} /\ waits[r] = {}
  BY DEF CollectorInv, TxShape

LEMMA FireInv ==
    ASSUME TypeOK, CollectorInv, NEW r \in Runs, Fire(r)
    PROVE  CollectorInv'
<1>. USE DEF CollectorInv
<1>1. txSnap[r] = {} /\ txHist[r] = {} /\ waits[r] = {} /\ stmt[r] = 0
  BY ClosedIsEmpty DEF Fire, TypeOK, Open, Scripted
<1>2. TxShape'
  BY <1>1 DEF Fire, TxShape, Open, AtSnapInsert, Executing, TypeOK
<1>3. Authorship'
  <2>1. \A x \in snap \cup hist : x.by[1] \in Runs /\ x.by[2] \in Nat /\ x.by = << x.by[1], x.by[2] >>
    BY DEF TypeOK, SnapRow, HistRow, Author
  <2>2. attempt'[r] = attempt[r] + 1 /\ \A o \in Runs \ {r} : attempt'[o] = attempt[o]
    BY DEF Fire, TypeOK
  <2>3. \A o \in Runs : attempt[o] \in Nat
    BY DEF TypeOK
  <2>4. (\A s \in snap : s.by[2] =< attempt[s.by[1]])' /\ (\A b \in hist : b.by[2] =< attempt[b.by[1]])'
    BY <2>1, <2>2, <2>3 DEF Fire, Authorship
  <2>5. ASSUME NEW o \in Runs
        PROVE  (/\ \A s \in txSnap[o] : s.by = Self(o)
                /\ \A b \in txHist[o] \cup waits[o] : b.by = Self(o)
                /\ phase[o] = "snap" => \A x \in snap \cup hist : x.by # Self(o))'
    <3>1. CASE o = r
      <4>1. \A x \in snap \cup hist : x.by # << r, attempt[r] + 1 >>
        BY <2>1, <2>3 DEF Authorship
      <4>. QED  BY <3>1, <4>1, <2>2, <1>1 DEF Fire, Self
    <3>2. CASE o # r
      <4>1. phase'[o] = phase[o]
        BY <3>2 DEF Fire, TypeOK
      <4>. QED  BY <3>2, <4>1, <2>2 DEF Fire, Authorship, Self
    <3>. QED  BY <3>1, <3>2
  <2>. QED  BY <2>4, <2>5 DEF Authorship
<1>4. GaplessIds' /\ GaplessTx' /\ HistRefersToSnap' /\ NeverOlder' /\ RefersTx'
  BY DEF Fire, GaplessIds, GaplessTx, HistRefersToSnap, NeverOlder, RefersTx, Visible
<1>. QED  BY <1>2, <1>3, <1>4

LEMMA InsertSnapInv ==
    ASSUME TypeOK, CollectorInv, NEW r \in Runs, InsertSnap(r)
    PROVE  CollectorInv'
<1>. USE DEF CollectorInv
<1>1. /\ txSnap[r] = {} /\ txHist[r] = {} /\ waits[r] = {}
      /\ stmt[r] = 1 /\ phase[r] = "snap"
  BY DEF InsertSnap, AtSnapInsert, TxShape
<1>2. PICK m \in MaxId(snap) : txSnap' = [txSnap EXCEPT
           ![r] = {[id |-> m + 1, time |-> txTime[r], by |-> Self(r)]}]
  BY <1>1 DEF InsertSnap, Visible
<1> DEFINE new == [id |-> m + 1, time |-> txTime[r], by |-> Self(r)]
<1>3. /\ txSnap'[r] = {new}
      /\ \A o \in Runs \ {r} : txSnap'[o] = txSnap[o] /\ stmt'[o] = stmt[o]
      /\ stmt'[r] = 2
      /\ UNCHANGED << snap, hist, attempt, phase, txHist, waits >>
  BY <1>1, <1>2 DEF InsertSnap, Advance, TypeOK
<1>4. new.id > 1 => \E u \in snap : u.id = new.id - 1
  BY DEF MaxId, Newest, TypeOK, SnapRow
<1>5. TxShape'
  BY <1>1, <1>3 DEF TxShape, Open, AtSnapInsert, Executing
<1>6. Authorship'
  BY <1>3 DEF Authorship, Self
<1>7. GaplessIds' /\ HistRefersToSnap' /\ NeverOlder'
  BY <1>3 DEF GaplessIds, HistRefersToSnap, NeverOlder
<1>8. GaplessTx'
  BY <1>3, <1>4 DEF GaplessTx
<1>9. RefersTx'
  BY <1>1, <1>3 DEF RefersTx, Visible
<1>. QED  BY <1>5, <1>6, <1>7, <1>8, <1>9

\* The row an insert takes from the newest snapshot satisfies RefersTx.
LEMMA BatchRefers ==
    ASSUME TypeOK, NEW r \in Runs, NEW s \in Latest(r)
    PROVE  /\ Batch(r, s).snap \in Visible(r)
           /\ Batch(r, s).by = Self(r)
           /\ \A u \in Visible(r) : Batch(r, s).snap.id >= u.id
<1>1. Visible(r) \subseteq SnapRow
  BY DEF Visible, TypeOK
<1>2. \A u \in Visible(r) : u.id \in Nat
  BY <1>1 DEF SnapRow
<1>3. s \in Visible(r) /\ \A u \in Visible(r) : s.id >= u.id
  BY <1>2 DEF Latest, Newest
<1>. QED  BY <1>3 DEF Batch

\* A step of r that only moves a good batch into txHist[r] or waits[r].
LEMMA WriteStep ==
    ASSUME TypeOK, CollectorInv, NEW r \in Runs, AtInsert(r), NEW b,
           b.snap \in Visible(r), b.by = Self(r),
           \A s \in Visible(r) : b.by = s.by => b.snap.id >= s.id,
           txHist' = txHist \/ txHist' = [txHist EXCEPT ![r] = @ \cup {b}],
           \/ waits' = [waits EXCEPT ![r] = {}]
           \/ waits' = [waits EXCEPT ![r] = {b}]
           \/ waits' = waits,
           stmt' = stmt \/ Advance(r),
           UNCHANGED << snap, hist, attempt, phase, txSnap >>
    PROVE  CollectorInv'
<1>. USE DEF CollectorInv
<1>1. stmt[r] \in Nat \ {0} /\ ~(phase[r] = "snap" /\ stmt[r] = 1)
  BY DEF AtInsert, Executing, Open, TypeOK
<1>2. stmt'[r] \in {stmt[r], stmt[r] + 1} /\ \A o \in Runs \ {r} : stmt'[o] = stmt[o]
  BY DEF Advance, TypeOK
<1>3. \A c \in txHist'[r] \cup waits'[r] : c = b \/ c \in txHist[r] \cup waits[r]
  BY DEF TypeOK
<1>4. \A o \in Runs \ {r} : txHist'[o] = txHist[o] /\ waits'[o] = waits[o]
  BY DEF TypeOK
<1>5. TxShape'
  BY <1>1, <1>2, <1>4 DEF TxShape, Open, AtSnapInsert, Executing
<1>6. Authorship'
  BY <1>3, <1>4 DEF Authorship, Self
<1>7. GaplessIds' /\ GaplessTx' /\ HistRefersToSnap' /\ NeverOlder'
  BY DEF GaplessIds, GaplessTx, HistRefersToSnap, NeverOlder
<1>8. RefersTx'
  BY <1>3, <1>4 DEF RefersTx, Visible
<1>. QED  BY <1>5, <1>6, <1>7, <1>8

LEMMA InsertInv ==
    ASSUME TypeOK, CollectorInv, NEW r \in Runs,
           InsertBatch(r) \/ Wait(r) \/ WaitOver(r)
    PROVE  CollectorInv'
<1>1. CASE InsertBatch(r)
  <2>1. PICK s \in Latest(r) : txHist' = [txHist EXCEPT ![r] = @ \cup {Batch(r, s)}]
    BY <1>1 DEF InsertBatch
  <2>. QED  BY <1>1, <2>1, BatchRefers, WriteStep DEF InsertBatch
<1>2. CASE Wait(r)
  <2>1. PICK s \in Latest(r) : waits' = [waits EXCEPT ![r] = {Batch(r, s)}]
    BY <1>2 DEF Wait
  <2>. QED  BY <1>2, <2>1, BatchRefers, WriteStep DEF Wait
<1>3. CASE WaitOver(r)
  <2>1. PICK b \in waits[r] : txHist' = [txHist EXCEPT ![r] = @ \cup {b}]
    BY <1>3 DEF WaitOver
  <2>2. b.snap \in Visible(r) /\ b.by = Self(r)
        /\ \A s \in Visible(r) : b.by = s.by => b.snap.id >= s.id
    BY DEF CollectorInv, RefersTx, Authorship
  <2>. QED  BY <1>3, <2>1, <2>2, WriteStep DEF WaitOver
<1>. QED  BY <1>1, <1>2, <1>3

\* The commit is where the properties are won: what the transaction kept about
\* its uncommitted rows becomes true of the database.
LEMMA CommitInv ==
    ASSUME TypeOK, CollectorInv, NEW r \in Runs, Committed(r), attempt' = attempt,
           \A o \in Runs \ {r} : phase'[o] = phase[o], phase'[r] # "snap"
    PROVE  CollectorInv'
<1>. USE DEF CollectorInv
<1>1. /\ snap' = snap \cup txSnap[r] /\ hist' = hist \cup txHist[r]
      /\ txSnap'[r] = {} /\ txHist'[r] = {} /\ waits'[r] = {} /\ stmt'[r] = 0
      /\ \A o \in Runs \ {r} : /\ txSnap'[o] = txSnap[o] /\ txHist'[o] = txHist[o]
                               /\ waits'[o] = waits[o] /\ stmt'[o] = stmt[o]
  BY DEF Committed, CloseTx, TypeOK
<1>2. \A o \in Runs \ {r} : Self(o) # Self(r)
  BY DEF Self
<1>3. \A o \in Runs : Self(o)' = Self(o)
  BY DEF Self
<1>4. TxShape'
  BY <1>1 DEF TxShape, Open, AtSnapInsert, Executing
<1>5. Authorship'
  <2>1. \A x \in txSnap[r] \cup txHist[r] : x.by = Self(r) /\ x.by[1] = r /\ x.by[2] = attempt[r]
    BY DEF Authorship, Self
  <2>2. attempt[r] =< attempt[r]
    BY DEF TypeOK
  <2>. QED  BY <1>1, <1>2, <1>3, <2>1, <2>2 DEF Authorship
<1>6. GaplessIds' /\ GaplessTx'
  BY <1>1 DEF GaplessIds, GaplessTx
<1>7. HistRefersToSnap'
  BY <1>1 DEF HistRefersToSnap, RefersTx, Visible
<1>8. NeverOlder'
  <2>. SUFFICES ASSUME NEW b \in hist', NEW s \in snap', b.by = s.by
                PROVE  b.snap.id >= s.id
    BY DEF NeverOlder
  <2>1. CASE b \in hist /\ s \in snap
    BY <2>1 DEF NeverOlder
  <2>2. CASE b \in hist /\ s \in txSnap[r]
    BY <2>2 DEF Authorship, TxShape
  <2>3. CASE b \in txHist[r]
    BY <2>3, <1>1 DEF RefersTx, Visible
  <2>. QED  BY <1>1, <2>1, <2>2, <2>3
<1>9. RefersTx'
  <2>. SUFFICES ASSUME NEW o \in Runs \ {r}, NEW b \in txHist[o] \cup waits[o]
                PROVE  /\ b.snap \in snap \cup txSnap[r] \cup txSnap[o]
                       /\ \A s \in snap \cup txSnap[r] \cup txSnap[o] :
                             b.by = s.by => b.snap.id >= s.id
    BY <1>1 DEF RefersTx, Visible
  <2>1. \A s \in txSnap[r] : b.by # s.by
    BY <1>2 DEF Authorship
  <2>. QED  BY <2>1 DEF RefersTx, Visible
<1>. QED  BY <1>4, <1>5, <1>6, <1>7, <1>8, <1>9

LEMMA CollectorInit == Init => CollectorInv
  BY DEF Init, CollectorInv, TxShape, Authorship, GaplessIds, GaplessTx,
         HistRefersToSnap, NeverOlder, RefersTx

LEMMA CollectorStep == TypeOK /\ TypeOK' /\ CollectorInv /\ [Next]_vars => CollectorInv'
<1>. SUFFICES ASSUME TypeOK, TypeOK', CollectorInv, [Next]_vars PROVE CollectorInv'
  OBVIOUS
<1>1. ASSUME NEW r \in Runs, Fire(r) PROVE CollectorInv'
  BY <1>1, FireInv
<1>2. ASSUME NEW r \in Runs, Begin(r) PROVE CollectorInv'
  BY <1>2, QuietStep, ClosedIsEmpty DEF Begin, TypeOK
<1>3. ASSUME NEW r \in Runs, InsertSnap(r) PROVE CollectorInv'
  BY <1>3, InsertSnapInv
<1>4. ASSUME NEW r \in Runs, InsertBatch(r) \/ Wait(r) \/ WaitOver(r) PROVE CollectorInv'
  BY <1>4, InsertInv
<1>5. ASSUME NEW r \in Runs, InsertNothing(r) PROVE CollectorInv'
  <2>1. txSnap[r] = {} /\ txHist[r] = {} /\ waits[r] = {}
    BY <1>5 DEF InsertNothing, CollectorInv, RefersTx, Visible
  <2>. QED  BY <1>5, <2>1, QuietStep DEF InsertNothing, Advance, TypeOK
<1>6. ASSUME NEW r \in Runs, RolledBack(r), phase[r] \in Scripted PROVE CollectorInv'
  <2>1. phase'[r] # "snap" /\ \A o \in Runs \ {r} : phase'[o] = phase[o]
    BY <1>6 DEF RolledBack, After, Scripted, TypeOK
  <2>. QED  BY <1>6, <2>1, QuietStep DEF RolledBack, CloseTx, TypeOK
<1>7. ASSUME NEW r \in Runs, Commit(r) \/ ReplyLost(r) PROVE CollectorInv'
  <2>1. phase'[r] # "snap" /\ \A o \in Runs \ {r} : phase'[o] = phase[o]
    BY <1>7 DEF Commit, ReplyLost, Committed, Leave, Failed, After, Scripted, TypeOK
  <2>. QED  BY <1>7, <2>1, CommitInv DEF Commit, ReplyLost
<1>8. ASSUME NEW r \in Runs, Raise(r) PROVE CollectorInv'
  <2>1. phase'[r] # "snap" /\ \A o \in Runs \ {r} : phase'[o] = phase[o]
    BY <1>8 DEF Raise, Leave, Failed, TypeOK
  <2>. QED  BY <1>8, <2>1, QuietStep DEF Raise, CloseTx, TypeOK
<1>9. ASSUME NEW r \in Runs, AskWriter(r) \/ AskReaders(r) \/ NextReader(r) \/ Return(r)
      PROVE CollectorInv'
  <2>1. ~Open(r)
    BY <1>9 DEF AskWriter, AskReaders, NextReader, Return, TypeOK, Scripted
  <2>2. phase'[r] # "snap" /\ \A o \in Runs \ {r} : phase'[o] = phase[o]
    BY <1>9 DEF AskWriter, AskReaders, NextReader, Return, Leave, TypeOK
  <2>3. UNCHANGED << snap, hist, attempt, stmt, txSnap, txHist, waits >>
    BY <1>9 DEF AskWriter, AskReaders, NextReader, Return
  <2>. QED  BY <2>1, <2>2, <2>3, QuietStep, ClosedIsEmpty
<1>10. CASE Failover
  <2>1. \A r \in Runs : phase'[r] = "snap" => phase[r] = "snap"
    BY <1>10 DEF Failover, Failed
  <2>. QED  BY <1>10, <2>1, QuietStep DEF Failover
<1>11. CASE UNCHANGED vars
  BY <1>11, QuietStep DEF vars
<1>. QED
  BY <1>1, <1>2, <1>3, <1>4, <1>5, <1>6, <1>7, <1>8, <1>9, <1>10, <1>11
     DEF Next, Progress, Fault, KeyViolation, StatementFails, Finished, AtInsert, Executing, TypeOK

\* The whole of what is known about overlapping runs: besides the shape of the
\* database, a transaction holds rows of its own attempt only, and its rows
\* continue the numbers and refer to the snapshots that it sees.
THEOREM CollectorInvariant == Spec => []CollectorInv
<1>1. TypeOK /\ CollectorInv /\ [Next]_vars => (TypeOK /\ CollectorInv)'
  BY TypeStep, CollectorStep
<1>. QED  BY TypeInit, CollectorInit, <1>1, PTL DEF Spec

\* For any schedule, overlap, fault and failover: snapshots are numbered without
\* gaps, no batch refers to a snapshot that is not there, and a run never files
\* rows under a snapshot older than its own.
THEOREM OverlapSafe == Spec => [](GaplessIds /\ HistRefersToSnap /\ NeverOlder)
<1>1. CollectorInv => GaplessIds /\ HistRefersToSnap /\ NeverOlder
  BY DEF CollectorInv
<1>. QED  BY <1>1, CollectorInvariant, PTL

-----------------------------------------------------------------------------
(***************************************************************************)
(* What holds while runs do not overlap, for any scripts, instances,       *)
(* retries, faults and failovers: the numbers follow the times, snapshots  *)
(* are complete, and the collector implements the log of snapshots.        *)
(***************************************************************************)

Hosts == TablesOf(HostScript)

\* Runs do not overlap, the snap script and the reader script both save
\* instance_hist, and host metrics have a table of their own.
NoOverlap ==
    /\ MaxRunning = 1
    /\ "instance_hist" \in TablesOf(SnapScript) \cap TablesOf(RoScript)
    /\ Hosts \cap (TablesOf(SnapScript) \cup TablesOf(RoScript)) = {}

-----------------------------------------------------------------------------
(* The inductive invariant, on top of TypeOK and CollectorInv. *)

OneRunning == \A r, o \in Runs : Running(r) /\ Running(o) => r = o

NoWaits == \A r \in Runs : waits[r] = {}

\* The committed numbers are 1 to the number of snapshots.
Numbered ==
    /\ IsFiniteSet(snap)
    /\ \A s \in snap : s.id \in 1..Cardinality(snap)
    /\ \A n \in 1..Cardinality(snap) : \E s \in snap : s.id = n

\* The open snap script is younger than every committed snapshot.
Times ==
    /\ \A s \in snap : s.time =< clock
    /\ \A r \in Runs : Open(r) /\ phase[r] = "snap" =>
          txTime[r] =< clock /\ \A s \in snap : s.time < txTime[r]

NewRow(r) == [id |-> Cardinality(snap) + 1, time |-> txTime[r], by |-> Self(r)]

NewSnap ==
    \A r \in Runs : Open(r) /\ phase[r] = "snap" /\ stmt[r] > 1 => txSnap[r] = {NewRow(r)}

First(p) == IF p = "snap" THEN 2 ELSE 1
Row(r, k, s) == [table |-> Script[phase[r]][k], snap |-> s,
                 instance |-> Subject(r), by |-> Self(r)]

\* A transaction holds what its statements so far have inserted, no more and no
\* less, all under one snapshot.
TxRows ==
    \A r \in Runs : Open(r) =>
        \A b : b \in txHist[r] <=> \E k \in First(phase[r])..(stmt[r] - 1), s \in Latest(r) :
                                     b = Row(r, k, s)

\* Where there are statistics of an instance under a snapshot, there is its row
\* of instance_hist, and its key is not one of those an open transaction has.
Keys ==
    /\ \A r \in Runs : \A b \in txHist[r] : ~Taken(b)
    /\ \A c \in hist : c.table \notin Hosts =>
          \E d \in hist : d.table = "instance_hist" /\ d.snap = c.snap /\ d.instance = c.instance

Promises == IdsInOrder /\ SnapComplete /\ OneSource

SerialInv == OneRunning /\ NoWaits /\ Numbered /\ Times /\ NewSnap /\ TxRows /\ Keys /\ Promises
-----------------------------------------------------------------------------

LEMMA Closed ==
    ASSUME TypeOK, CollectorInv, OneRunning, NEW r \in Runs, Running(r), NEW o \in Runs \ {r}
    PROVE  /\ ~Running(o) /\ ~Open(o)
           /\ txSnap[o] = {} /\ txHist[o] = {} /\ waits[o] = {}
<1>1. ~Running(o)
  BY DEF OneRunning
<1>2. ~Open(o)
  BY <1>1 DEF TypeOK, Running, Scripted, Resting
<1>. QED  BY <1>1, <1>2, ClosedIsEmpty

\* The newest snapshot is the one whose number is the number of snapshots.
LEMMA NewestOf ==
    ASSUME TypeOK, Numbered
    PROVE  /\ Cardinality(snap) \in Nat
           /\ snap = {} <=> Cardinality(snap) = 0
           /\ \A s : s \in Newest(snap) <=> s \in snap /\ s.id = Cardinality(snap)
<1>1. Cardinality(snap) \in Nat /\ (snap = {} <=> Cardinality(snap) = 0)
  BY FS_CardinalityType, FS_EmptySet DEF Numbered
<1>2. \A s \in snap : s.id \in Nat /\ s.id =< Cardinality(snap)
  BY <1>1 DEF Numbered
<1>3. ASSUME NEW s \in snap, \A u \in snap : u.id =< s.id
      PROVE  s.id = Cardinality(snap)
  <2>1. PICK u \in snap : u.id = Cardinality(snap)
    BY <1>1, <1>3 DEF Numbered
  <2>. QED  BY <1>1, <1>2, <1>3, <2>1
<1>. QED  BY <1>1, <1>2, <1>3 DEF Newest

\* What a statement of an open transaction takes for the newest snapshot.
LEMMA LatestOf ==
    ASSUME TypeOK, CollectorInv, SerialInv, NEW r \in Runs, Open(r)
    PROVE  /\ phase[r] = "snap" /\ stmt[r] > 1 => Latest(r) = {NewRow(r)}
           /\ phase[r] # "snap" => Latest(r) = Newest(snap)
<1>. USE DEF SerialInv
<1>1. CASE phase[r] = "snap" /\ stmt[r] > 1
  <2>1. Visible(r) = snap \cup {NewRow(r)}
    BY <1>1 DEF NewSnap, Visible
  <2>2. Cardinality(snap) \in Nat /\ \A s \in snap : s.id \in Nat /\ s.id =< Cardinality(snap)
    BY NewestOf DEF Numbered
  <2>3. NewRow(r).id = Cardinality(snap) + 1
    BY DEF NewRow
  <2>4. Newest(snap \cup {NewRow(r)}) = {NewRow(r)}
    BY <2>2, <2>3 DEF Newest
  <2>. QED  BY <1>1, <2>1, <2>4 DEF Latest
<1>2. CASE phase[r] # "snap"
  <2>1. Visible(r) = snap
    BY <1>2 DEF Visible, CollectorInv, TxShape
  <2>. QED  BY <1>2, <2>1 DEF Latest
<1>3. CASE phase[r] = "snap" /\ ~(stmt[r] > 1)
  BY <1>3
<1>. QED  BY <1>1, <1>2, <1>3

Same(r) ==
    /\ stmt'[r] = stmt[r] /\ phase'[r] = phase[r] /\ Self(r)' = Self(r)
    /\ Subject(r)' = Subject(r)
    /\ txTime'[r] = txTime[r] /\ txSnap'[r] = txSnap[r]
    /\ txHist'[r] = txHist[r] /\ waits'[r] = waits[r]

\* A step that leaves the database alone and, of each run, either leaves the
\* transaction alone or leaves none open.
LEMMA SerialQuiet ==
    ASSUME TypeOK, TypeOK', CollectorInv, CollectorInv', SerialInv, OneRunning',
           snap' = snap, hist' = hist, clock' = clock,
           \A r \in Runs : Same(r) \/ stmt'[r] = 0
    PROVE  SerialInv'
<1>. USE DEF SerialInv
<1>0. \A r \in Runs : stmt'[r] = 0 => txSnap'[r] = {} /\ txHist'[r] = {} /\ waits'[r] = {}
  BY DEF CollectorInv, TxShape, Open
<1>1. NoWaits'
  BY <1>0 DEF NoWaits, Same
<1>2. Numbered'
  BY DEF Numbered
<1>3. Times'
  BY DEF Times, Same, Open
<1>4. NewSnap'
  BY DEF NewSnap, Same, Open, NewRow
<1>5. TxRows'
  <2>. SUFFICES ASSUME NEW r \in Runs, stmt'[r] # 0
                PROVE  (\A b : b \in txHist[r] <=> \E k \in First(phase[r])..(stmt[r] - 1), s \in Latest(r) :
                                     b = Row(r, k, s))'
    BY DEF TxRows, Open
  <2>1. Same(r)
    OBVIOUS
  <2>2. Latest(r)' = Latest(r)
    BY <2>1 DEF Latest, Visible, Same
  <2>3. \A k, s : Row(r, k, s)' = Row(r, k, s)
    BY <2>1 DEF Row, Same
  <2>. QED  BY <2>1, <2>2, <2>3 DEF TxRows, Same, Open
<1>6. Keys'
  BY <1>0 DEF Keys, Same, Taken
<1>7. Promises'
  BY DEF Promises, IdsInOrder, SnapComplete, OneSource
<1>. QED  BY <1>1, <1>2, <1>3, <1>4, <1>5, <1>6, <1>7

\* With one run at a time an event is fired when no other is handled.
LEMMA FireSerial ==
    ASSUME MaxRunning = 1, TypeOK, TypeOK', CollectorInv, CollectorInv', SerialInv,
           NEW r \in Runs, Fire(r)
    PROVE  SerialInv'
<1>1. \A o \in Runs : ~Running(o)
  <2>. SUFFICES ASSUME NEW o \in Runs, Running(o) PROVE FALSE
    OBVIOUS
  <2>1. {x \in Runs : Running(x)} = {o}
    BY DEF SerialInv, OneRunning
  <2>2. Cardinality({o}) = 1
    BY FS_Singleton
  <2>. QED  BY <2>1, <2>2 DEF Fire
<1>2. \A o \in Runs \ {r} : phase'[o] = phase[o]
  BY DEF Fire, TypeOK
<1>3. OneRunning'
  BY <1>1, <1>2 DEF OneRunning, Running
<1>4. \A o \in Runs : stmt'[o] = 0
  BY <1>1 DEF Fire, TypeOK, Open, Running, Scripted, Resting
<1>. QED  BY <1>3, <1>4, SerialQuiet DEF Fire

LEMMA BeginSerial ==
    ASSUME TypeOK, CollectorInv, SerialInv, NEW r \in Runs, Begin(r)
    PROVE  SerialInv'
<1>. USE DEF SerialInv
<1>1. /\ phase[r] \in Scripted /\ ~Open(r) /\ stmt'[r] = 1 /\ Running(r)
      /\ txHist[r] = {}
      /\ UNCHANGED << snap, hist, phase, attempt, txSnap, txHist, waits >>
  BY ClosedIsEmpty DEF Begin, TypeOK, Running, Scripted, Resting
<1>2. \A o \in Runs \ {r} : stmt'[o] = stmt[o] /\ ~Open(o) /\ txHist[o] = {}
  BY <1>1, Closed DEF Begin, TypeOK
<1>3. OneRunning' /\ NoWaits' /\ Numbered' /\ Promises'
  BY <1>1 DEF OneRunning, Running, NoWaits, Numbered, Promises, IdsInOrder, SnapComplete, OneSource
<1>4. Times'
  <2>1. \A s \in snap : s.time \in Nat
    BY DEF TypeOK, SnapRow
  <2>2. clock \in Nat /\ clock' \in {clock, clock + 1}
    BY DEF TypeOK, Begin
  <2>3. phase[r] = "snap" => clock' = clock + 1 /\ txTime'[r] = clock + 1
    BY DEF TypeOK, Begin
  <2>. QED  BY <1>1, <1>2, <2>1, <2>2, <2>3 DEF Times, Open
<1>5. NewSnap'
  BY <1>1, <1>2 DEF NewSnap, Open
<1>6. TxRows'
  <2>1. First(phase[r]) \in {1, 2}
    BY DEF First
  <2>2. First(phase[r])..(1 - 1) = {}
    BY <2>1
  <2>. QED  BY <1>1, <1>2, <2>2 DEF TxRows, Open
<1>7. Keys'
  BY <1>1 DEF Keys, Taken
<1>. QED  BY <1>3, <1>4, <1>5, <1>6, <1>7

LEMMA InsertSnapSerial ==
    ASSUME TypeOK, CollectorInv, SerialInv, NEW r \in Runs, InsertSnap(r)
    PROVE  SerialInv'
<1>. USE DEF SerialInv
<1>1. /\ phase[r] = "snap" /\ Open(r) /\ stmt[r] = 1 /\ stmt'[r] = 2 /\ Running(r)
      /\ txSnap[r] = {} /\ txHist[r] = {}
      /\ UNCHANGED << snap, hist, clock, writer, phase, attempt, target, txTime, txHist, waits >>
  BY DEF InsertSnap, AtSnapInsert, Executing, Advance, TypeOK, Running, Resting, CollectorInv, TxShape
<1>2. \A o \in Runs \ {r} : stmt'[o] = stmt[o] /\ ~Open(o) /\ txHist[o] = {}
  BY <1>1, Closed DEF InsertSnap, Advance, TypeOK
<1>3. MaxId(Visible(r)) = {Cardinality(snap)}
  <2>1. Visible(r) = snap
    BY <1>1 DEF Visible
  <2>2. CASE snap = {}
    BY <2>1, <2>2, NewestOf DEF MaxId
  <2>3. CASE snap # {}
    <3>1. PICK s \in snap : s.id = Cardinality(snap)
      BY <2>3, NewestOf DEF Numbered
    <3>2. s \in Newest(snap) /\ \A u \in Newest(snap) : u.id = Cardinality(snap)
      BY <3>1, NewestOf
    <3>. QED  BY <2>1, <2>3, <3>1, <3>2 DEF MaxId
  <2>. QED  BY <2>2, <2>3
<1>4. txSnap'[r] = {NewRow(r)}
  BY <1>3 DEF InsertSnap, NewRow, TypeOK
<1>5. OneRunning' /\ NoWaits' /\ Numbered' /\ Promises'
  BY <1>1 DEF OneRunning, Running, NoWaits, Numbered, Promises, IdsInOrder, SnapComplete, OneSource
<1>6. Times'
  BY <1>1, <1>2 DEF Times, Open
<1>7. NewSnap'
  BY <1>1, <1>2, <1>4 DEF NewSnap, Open, NewRow, Self
<1>8. TxRows'
  <2>1. First(phase[r])..(2 - 1) = {}
    BY <1>1 DEF First
  <2>. QED  BY <1>1, <1>2, <2>1 DEF TxRows, Open
<1>9. Keys'
  BY <1>1 DEF Keys, Taken
<1>. QED  BY <1>5, <1>6, <1>7, <1>8, <1>9

\* An insert, of a row or of none: what the transaction holds keeps up with the
\* place in the script.
LEMMA InsertSerial ==
    ASSUME TypeOK, CollectorInv, SerialInv, NEW r \in Runs, InsertBatch(r) \/ InsertNothing(r)
    PROVE  SerialInv'
<1>. USE DEF SerialInv
<1>1. /\ Executing(r) /\ Open(r) /\ phase[r] \in Scripted /\ Running(r)
      /\ stmt[r] \in Nat \ {0} /\ (phase[r] = "snap" => stmt[r] > 1)
      /\ stmt'[r] = stmt[r] + 1
      /\ UNCHANGED << snap, hist, clock, writer, phase, attempt, target, txTime, txSnap, waits >>
  BY DEF InsertBatch, InsertNothing, AtInsert, Executing, Advance, TypeOK, Running, Resting, Scripted, Open
<1>2. \A o \in Runs \ {r} : /\ stmt'[o] = stmt[o] /\ ~Open(o) /\ txHist[o] = {}
                           /\ txHist'[o] = {}
  BY <1>1, Closed DEF InsertBatch, InsertNothing, Advance, TypeOK
<1>3. OneRunning' /\ NoWaits' /\ Numbered' /\ Promises'
  BY <1>1 DEF OneRunning, Running, NoWaits, Numbered, Promises, IdsInOrder, SnapComplete, OneSource
<1>4. Times'
  BY <1>1, <1>2 DEF Times, Open
<1>5. NewSnap'
  BY <1>1, <1>2 DEF NewSnap, Open, NewRow, Self
<1>6. \A k, s : Row(r, k, s)' = Row(r, k, s)
  BY <1>1 DEF Row, Subject, Self
<1>7. Latest(r)' = Latest(r)
  BY <1>1 DEF Latest, Visible
<1>8. First(phase[r])..(stmt'[r] - 1) = (First(phase[r])..(stmt[r] - 1)) \cup {stmt[r]}
  <2>1. First(phase[r]) \in Nat /\ First(phase[r]) =< stmt[r]
    BY <1>1 DEF First
  <2>. QED  BY <1>1, <2>1
<1>9. \A b : b \in txHist'[r] <=> b \in txHist[r] \/ \E s \in Latest(r) : b = Row(r, stmt[r], s)
  <2>1. CASE InsertBatch(r)
    <3>1. PICK s \in Latest(r) : txHist' = [txHist EXCEPT ![r] = @ \cup {Batch(r, s)}]
      BY <2>1 DEF InsertBatch
    <3>2. Batch(r, s) = Row(r, stmt[r], s)
      BY DEF Batch, Row
    <3>3. \A u \in Latest(r) : u = s
      <4>1. CASE phase[r] = "snap"
        BY <1>1, <4>1, LatestOf
      <4>2. CASE phase[r] # "snap"
        BY <1>1, <4>2, LatestOf, NewestOf DEF Promises, IdsInOrder
      <4>. QED  BY <4>1, <4>2
    <3>4. txHist'[r] = txHist[r] \cup {Row(r, stmt[r], s)}
      BY <3>1, <3>2 DEF TypeOK
    <3>. QED  BY <3>3, <3>4
  <2>2. CASE InsertNothing(r)
    <3>1. Latest(r) = {}
      BY <2>2 DEF InsertNothing, Latest, Newest
    <3>. QED  BY <2>2, <3>1 DEF InsertNothing
  <2>. QED  BY <2>1, <2>2
<1>10. TxRows'
  <2>1. \A b : b \in txHist'[r] <=> \E k \in First(phase[r])..(stmt'[r] - 1), s \in Latest(r) : b = Row(r, k, s)
    BY <1>1, <1>8, <1>9 DEF TxRows
  <2>. QED  BY <1>1, <1>2, <1>6, <1>7, <2>1 DEF TxRows, Open
<1>11. Keys'
  <2>1. \A b \in txHist'[r] : ~Taken(b)
    <3>1. CASE InsertBatch(r)
      <4>1. PICK b : ~Taken(b) /\ txHist' = [txHist EXCEPT ![r] = @ \cup {b}]
        BY <3>1 DEF InsertBatch
      <4>. QED  BY <4>1 DEF TypeOK, Keys
    <3>2. CASE InsertNothing(r)
      BY <3>2 DEF InsertNothing, Keys
    <3>. QED  BY <3>1, <3>2
  <2>. QED  BY <1>1, <1>2, <2>1 DEF Keys, Taken
<1>. QED  BY <1>3, <1>4, <1>5, <1>10, <1>11

\* What a transaction that commits holds: its script in full.
LEMMA CommitFacts ==
    ASSUME TypeOK, CollectorInv, SerialInv, NEW r \in Runs, Committed(r)
    PROVE  /\ phase[r] = "snap" => txSnap[r] = {NewRow(r)}
           /\ phase[r] # "snap" => txSnap[r] = {} /\ Latest(r) = Newest(snap)
           /\ phase[r] = "snap" => Latest(r) = {NewRow(r)}
           /\ \A b : b \in txHist[r] <=>
                 \E k \in First(phase[r])..Len(Script[phase[r]]), s \in Latest(r) : b = Row(r, k, s)
<1>. USE DEF SerialInv
<1>1. phase[r] \in Scripted /\ Open(r) /\ stmt[r] = Len(Script[phase[r]]) + 1
  BY DEF Committed
<1>2. Len(Script[phase[r]]) \in Nat
  BY <1>1, ScriptFacts
<1>3. phase[r] = "snap" => stmt[r] > 1
  BY <1>1, ScriptAssumption DEF Script, Scripted
<1>4. phase[r] # "snap" => txSnap[r] = {}
  BY DEF CollectorInv, TxShape
<1>5. stmt[r] - 1 = Len(Script[phase[r]])
  BY <1>1, <1>2
<1>. QED  BY <1>1, <1>3, <1>4, <1>5, LatestOf DEF NewSnap, TxRows

\* The tables of a script, by the statement that fills them.
LEMMA TablesOfScript ==
    ASSUME NEW p \in Scripted
    PROVE  /\ p = "snap" => \A t : t \in TablesOf(SnapScript) <=> \E k \in 2..Len(Script[p]) : t = Script[p][k]
           /\ p = "ro" => \A t : t \in TablesOf(RoScript) <=> \E k \in 1..Len(Script[p]) : t = Script[p][k]
           /\ p \in {"whost", "rhost"} =>
                 \A t : t \in Hosts <=> \E k \in 1..Len(Script[p]) : t = Script[p][k]
<1>1. Len(SnapScript) \in Nat /\ Len(RoScript) \in Nat /\ Len(HostScript) \in Nat
  BY ScriptAssumption
<1>2. Script["snap"] = SnapScript /\ Script["ro"] = RoScript
      /\ Script["whost"] = HostScript /\ Script["rhost"] = HostScript
  BY DEF Script, Scripted
<1>3. \A t : t \in TablesOf(SnapScript) <=> \E k \in 2..Len(SnapScript) : t = SnapScript[k]
  BY <1>1, ScriptAssumption DEF TablesOf
<1>4. \A t : t \in TablesOf(RoScript) <=> \E k \in 1..Len(RoScript) : t = RoScript[k]
  BY <1>1, ScriptAssumption DEF TablesOf
<1>5. \A t : t \in Hosts <=> \E k \in 1..Len(HostScript) : t = HostScript[k]
  BY <1>1, ScriptAssumption DEF TablesOf, Hosts
<1>. QED  BY <1>2, <1>3, <1>4, <1>5

\* A transaction that commits statistics of a table that is not one of host
\* metrics commits the row of instance_hist with them.
LEMMA KeyComesAlong ==
    ASSUME NoOverlap, TypeOK, CollectorInv, SerialInv, NEW r \in Runs, Committed(r),
           NEW c \in txHist[r], c.table \notin Hosts
    PROVE  \E d \in txHist[r] : /\ d.table = "instance_hist"
                               /\ d.snap = c.snap /\ d.instance = c.instance
<1>1. phase[r] \in Scripted
  BY DEF Committed
<1>2. PICK k \in First(phase[r])..Len(Script[phase[r]]), s \in Latest(r) : c = Row(r, k, s)
  BY CommitFacts
<1>3. phase[r] \in {"snap", "ro"}
  <2>. SUFFICES ASSUME phase[r] \in {"whost", "rhost"} PROVE FALSE
    BY <1>1 DEF Scripted
  <2>1. c.table = Script[phase[r]][k] /\ k \in 1..Len(Script[phase[r]])
    BY <1>2 DEF Row, First
  <2>. QED  BY <1>1, <2>1, TablesOfScript
<1>4. PICK j \in First(phase[r])..Len(Script[phase[r]]) : Script[phase[r]][j] = "instance_hist"
  BY <1>1, <1>3, TablesOfScript DEF NoOverlap, First
<1>5. Row(r, j, s) \in txHist[r]
  BY <1>4, CommitFacts
<1>. QED  BY <1>2, <1>4, <1>5 DEF Row

LEMMA CommitSerial ==
    ASSUME NoOverlap, TypeOK, TypeOK', CollectorInv, CollectorInv', SerialInv, OneRunning',
           NEW r \in Runs, Committed(r), clock' = clock
    PROVE  SerialInv'
<1>. USE DEF SerialInv
<1>1. /\ snap' = snap \cup txSnap[r] /\ hist' = hist \cup txHist[r]
      /\ phase[r] \in Scripted /\ Open(r) /\ Running(r)
      /\ txSnap' = [txSnap EXCEPT ![r] = {}] /\ stmt' = [stmt EXCEPT ![r] = 0]
      /\ txHist' = [txHist EXCEPT ![r] = {}] /\ waits' = [waits EXCEPT ![r] = {}]
  BY DEF Committed, CloseTx, Running, Scripted, Resting
<1>2. \A o \in Runs : stmt'[o] = 0 /\ txHist'[o] = {} /\ waits'[o] = {}
  BY <1>1, Closed DEF TypeOK, Open
<1>3. NoWaits' /\ NewSnap' /\ TxRows'
  BY <1>2 DEF NoWaits, NewSnap, TxRows, Open
<1>4. Cardinality(snap) \in Nat /\ IsFiniteSet(snap)
      /\ \A s \in snap : s.id \in Nat /\ s.id =< Cardinality(snap) /\ s.time \in Nat
  BY NewestOf DEF Numbered, TypeOK, SnapRow
<1>5. phase[r] = "snap" => NewRow(r) \notin snap
  BY <1>4 DEF NewRow
<1>6. Numbered'
  <2>1. CASE phase[r] = "snap"
    <3>1. snap' = snap \cup {NewRow(r)}
      BY <1>1, <2>1, CommitFacts
    <3>2. IsFiniteSet(snap') /\ Cardinality(snap') = Cardinality(snap) + 1
      BY <3>1, <1>4, <1>5, <2>1, FS_AddElement
    <3>3. NewRow(r).id = Cardinality(snap) + 1
      BY DEF NewRow
    <3>4. \A n \in 1..(Cardinality(snap) + 1) : n \in 1..Cardinality(snap) \/ n = Cardinality(snap) + 1
      BY <1>4
    <3>5. \A s \in snap' : s.id \in 1..(Cardinality(snap) + 1)
      <4>1. \A s \in snap : s.id \in 1..Cardinality(snap)
        BY DEF Numbered
      <4>. QED  BY <1>4, <3>1, <3>3, <4>1
    <3>6. \A n \in 1..(Cardinality(snap) + 1) : \E s \in snap' : s.id = n
      <4>1. \A n \in 1..Cardinality(snap) : \E s \in snap : s.id = n
        BY DEF Numbered
      <4>2. NewRow(r) \in snap'
        BY <3>1
      <4>. QED  BY <3>1, <3>3, <3>4, <4>1, <4>2
    <3>. QED  BY <3>2, <3>5, <3>6 DEF Numbered
  <2>2. CASE phase[r] # "snap"
    BY <1>1, <2>2, CommitFacts DEF Numbered
  <2>. QED  BY <2>1, <2>2
<1>7. \A s \in txSnap[r] : /\ s = NewRow(r) /\ s.id = Cardinality(snap) + 1 /\ s.time = txTime[r]
                        /\ s.by = Self(r) /\ phase[r] = "snap"
  BY CommitFacts DEF NewRow
<1>8. Times'
  BY <1>1, <1>2, <1>7 DEF Times, Open
<1>9. IdsInOrder'
  <2>1. \A s \in snap, u \in txSnap[r] : s.id < u.id /\ s.time < u.time
    BY <1>1, <1>4, <1>7 DEF Times
  <2>2. \A s, u \in txSnap[r] : s = u /\ ~(s.id < u.id)
    BY <1>4, <1>7
  <2>3. \A s, u \in snap : (s.id = u.id => s = u) /\ (s.id < u.id => s.time < u.time)
    BY DEF Promises, IdsInOrder
  <2>4. \A s \in snap, u \in txSnap[r] : s.id # u.id /\ ~(u.id < s.id)
    BY <1>4, <1>7
  <2>. QED  BY <1>1, <2>1, <2>2, <2>3, <2>4 DEF IdsInOrder
<1>10. SnapComplete'
  <2>. SUFFICES ASSUME NEW s \in snap'
                PROVE  \E i \in Instances : \A k \in 2..Len(SnapScript) :
                          [table |-> SnapScript[k], snap |-> s, instance |-> i, by |-> s.by] \in hist'
    BY DEF SnapComplete
  <2>1. CASE s \in snap
    BY <2>1, <1>1 DEF Promises, SnapComplete
  <2>2. CASE s \in txSnap[r]
    <3>1. phase[r] = "snap" /\ s = NewRow(r) /\ s.by = Self(r)
      BY <2>2, <1>7
    <3>2. \A k \in 2..Len(SnapScript) : Row(r, k, s) \in txHist[r]
      BY <3>1, CommitFacts DEF First, Script, Scripted
    <3>3. \A k : Row(r, k, s) = [table |-> SnapScript[k], snap |-> s, instance |-> writer, by |-> s.by]
      BY <3>1 DEF Row, Subject, Script, Scripted
    <3>4. writer \in Instances
      BY DEF TypeOK
    <3>. QED  BY <1>1, <3>2, <3>3, <3>4
  <2>. QED  BY <1>1, <2>1, <2>2
<1>11. Keys'
  <2>1. \A c \in hist' : c.table \notin Hosts =>
           \E d \in hist' : d.table = "instance_hist" /\ d.snap = c.snap /\ d.instance = c.instance
    BY <1>1, KeyComesAlong DEF Keys
  <2>. QED  BY <1>2, <2>1 DEF Keys
<1>12. OneSource'
  <2>1. {HostScript[k] : k \in 1..Len(HostScript)} = Hosts
    BY ScriptAssumption DEF Hosts, TablesOf
  <2>2. ASSUME NEW b \in hist, NEW c \in txHist[r], b.table \notin Hosts, c.table \notin Hosts,
               b.snap = c.snap, b.instance = c.instance
        PROVE  FALSE
    <3>1. PICK d \in hist : d.table = "instance_hist" /\ d.snap = b.snap /\ d.instance = b.instance
      BY <2>2 DEF Keys
    <3>2. PICK e \in txHist[r] : e.table = "instance_hist" /\ e.snap = c.snap /\ e.instance = c.instance
      BY <2>2, KeyComesAlong
    <3>3. Taken(e)
      BY <2>2, <3>1, <3>2 DEF Taken, SameKey
    <3>. QED  BY <3>3 DEF Keys
  <2>3. \A b, c \in txHist[r] : b.by = c.by
    BY DEF CollectorInv, Authorship
  <2>4. \A b, c \in hist : (/\ b.snap = c.snap /\ b.instance = c.instance
                          /\ b.table \notin Hosts /\ c.table \notin Hosts) => b.by = c.by
    BY <2>1 DEF Promises, OneSource
  <2>5. ASSUME NEW b \in hist', NEW c \in hist', b.snap = c.snap, b.instance = c.instance,
               b.table \notin Hosts, c.table \notin Hosts
        PROVE  b.by = c.by
    BY <1>1, <2>2, <2>3, <2>4, <2>5
  <2>. QED  BY <2>1, <2>5 DEF OneSource
<1>. QED  BY <1>3, <1>6, <1>8, <1>9, <1>10, <1>11, <1>12 DEF Promises

LEMMA SerialInit == Init => SerialInv
<1>. SUFFICES ASSUME Init PROVE SerialInv
  OBVIOUS
<1>1. IsFiniteSet(snap) /\ Cardinality(snap) = 0
  BY FS_EmptySet DEF Init
<1>2. Numbered
  BY <1>1 DEF Numbered, Init
<1>3. OneRunning /\ NoWaits /\ Times /\ NewSnap /\ TxRows /\ Keys
  BY DEF Init, OneRunning, Running, Resting, NoWaits, Times, NewSnap, TxRows, Keys, Open
<1>4. Promises
  BY DEF Init, Promises, IdsInOrder, SnapComplete, OneSource
<1>. QED  BY <1>2, <1>3, <1>4 DEF SerialInv

\* Nobody waits: the other transactions are closed and hold no key.
LEMMA NoWaiting ==
    ASSUME TypeOK, CollectorInv, SerialInv, NEW r \in Runs
    PROVE  ~Wait(r) /\ ~WaitOver(r)
<1>1. ~WaitOver(r)
  BY DEF WaitOver, SerialInv, NoWaits
<1>2. ASSUME Wait(r) PROVE FALSE
  <2>1. Running(r)
    BY <1>2 DEF Wait, AtInsert, Executing, Running, Scripted, Resting
  <2>2. \A b : ~HeldByOther(r, b)
    BY <2>1, Closed DEF HeldByOther, HeldBy, SerialInv
  <2>. QED  BY <1>2, <2>2 DEF Wait
<1>. QED  BY <1>1, <1>2

LEMMA SerialStep ==
    ASSUME NoOverlap, TypeOK, TypeOK', CollectorInv, CollectorInv', SerialInv, [Next]_vars
    PROVE  SerialInv'
<1>1. ASSUME \A o \in Runs : phase'[o] = phase[o] \/ phase'[o] \in Resting \/ phase[o] \notin Resting
      PROVE  OneRunning'
  BY <1>1 DEF OneRunning, Running, SerialInv
<1>2. ASSUME NEW r \in Runs, Fire(r) PROVE SerialInv'
  BY <1>2, FireSerial DEF NoOverlap
<1>3. ASSUME NEW r \in Runs, Begin(r) PROVE SerialInv'
  BY <1>3, BeginSerial
<1>4. ASSUME NEW r \in Runs, InsertSnap(r) PROVE SerialInv'
  BY <1>4, InsertSnapSerial
<1>5. ASSUME NEW r \in Runs, InsertBatch(r) \/ InsertNothing(r) PROVE SerialInv'
  BY <1>5, InsertSerial
<1>6. ASSUME NEW r \in Runs, Commit(r) \/ ReplyLost(r) PROVE SerialInv'
  <2>1. Committed(r) /\ clock' = clock /\ phase[r] \notin Resting
    BY <1>6 DEF Commit, ReplyLost, Committed, Scripted, Resting
  <2>2. \A o \in Runs \ {r} : phase'[o] = phase[o]
    BY <1>6 DEF Commit, ReplyLost, Leave, TypeOK
  <2>3. OneRunning'
    BY <1>1, <2>1, <2>2
  <2>. QED  BY <2>1, <2>3, CommitSerial
<1>7. ASSUME NEW r \in Runs, Raise(r) \/ (RolledBack(r) /\ Open(r)) PROVE SerialInv'
  <2>1. phase[r] \notin Resting /\ CloseTx(r) /\ UNCHANGED << snap, hist, clock, writer, attempt >>
    BY <1>7 DEF Raise, RolledBack, Running, TypeOK, Scripted, Resting
  <2>2. \A o \in Runs \ {r} : phase'[o] = phase[o] /\ target'[o] = target[o]
    BY <1>7 DEF Raise, RolledBack, Leave, TypeOK
  <2>3. OneRunning'
    BY <1>1, <2>1, <2>2
  <2>4. \A o \in Runs \ {r} : Same(o)
    BY <2>1, <2>2 DEF Same, CloseTx, Self, Subject, TypeOK
  <2>5. stmt'[r] = 0
    BY <2>1 DEF CloseTx, TypeOK
  <2>. QED  BY <2>1, <2>3, <2>4, <2>5, SerialQuiet
<1>8. ASSUME NEW r \in Runs, AskWriter(r) \/ AskReaders(r) \/ NextReader(r) \/ Return(r)
      PROVE  SerialInv'
  <2>1. phase[r] \notin Resting /\ phase[r] \notin Scripted
        /\ UNCHANGED << snap, hist, clock, writer, attempt, stmt, txTime, txSnap, txHist, waits >>
    BY <1>8 DEF AskWriter, AskReaders, NextReader, Return, Scripted, Resting
  <2>2. \A o \in Runs \ {r} : phase'[o] = phase[o] /\ target'[o] = target[o]
    BY <1>8 DEF AskWriter, AskReaders, NextReader, Return, Leave, TypeOK
  <2>3. OneRunning'
    BY <1>1, <2>1, <2>2
  <2>4. \A o \in Runs \ {r} : Same(o)
    BY <2>1, <2>2 DEF Same, Self, Subject
  <2>5. stmt'[r] = 0
    BY <2>1 DEF TypeOK, Open
  <2>. QED  BY <2>1, <2>3, <2>4, <2>5, SerialQuiet
<1>9. CASE Failover
  <2>1. \A o \in Runs : phase'[o] = phase[o] \/ phase'[o] \in Resting
    BY <1>9 DEF Failover, Failed, Resting
  <2>2. OneRunning'
    BY <1>1, <2>1
  <2>. QED  BY <1>9, <2>2, SerialQuiet DEF Failover
<1>10. CASE UNCHANGED vars
  <2>1. OneRunning'
    BY <1>1, <1>10 DEF vars
  <2>2. \A o \in Runs : Same(o)
    BY <1>10 DEF vars, Same, Self, Subject
  <2>. QED  BY <1>10, <2>1, <2>2, SerialQuiet DEF vars
<1>. QED
  BY <1>2, <1>3, <1>4, <1>5, <1>6, <1>7, <1>8, <1>9, <1>10, NoWaiting
     DEF Next, Progress, Fault, KeyViolation, StatementFails, Finished, AtInsert, Executing

LEMMA SerialInvariant == NoOverlap => (Spec => [](TypeOK /\ CollectorInv /\ SerialInv))
<1>. SUFFICES ASSUME NoOverlap PROVE Spec => [](TypeOK /\ CollectorInv /\ SerialInv)
  OBVIOUS
<1>1. Init => TypeOK /\ CollectorInv /\ SerialInv
  BY TypeInit, CollectorInit, SerialInit
<1>2. TypeOK /\ CollectorInv /\ SerialInv /\ [Next]_vars => (TypeOK /\ CollectorInv /\ SerialInv)'
  BY TypeStep, CollectorStep, SerialStep
<1>. QED  BY <1>1, <1>2, PTL DEF Spec

LEMMA SerialPromises == SerialInv => IdsInOrder /\ SnapComplete /\ OneSource
  BY DEF SerialInv, Promises

\* While runs do not overlap the numbers of the snapshots follow their times,
\* whatever fails, is retried or fails over: reports that order by number and
\* reports that order by time see one history.
THEOREM NumbersFollowTimes == NoOverlap => (Spec => []IdsInOrder)
  BY SerialInvariant, SerialPromises, PTL

\* While runs do not overlap a snapshot that is there has its writer's
\* statistics in full: no table's insert is missing from a committed snapshot.
THEOREM SnapshotsComplete == NoOverlap => (Spec => []SnapComplete)
  BY SerialInvariant, SerialPromises, PTL

\* While runs do not overlap the statistics of an instance under a snapshot come
\* from one attempt of one run, though a run is retried after a lost reply.
THEOREM StatisticsFromOneRun == NoOverlap => (Spec => []OneSource)
  BY SerialInvariant, SerialPromises, PTL

-----------------------------------------------------------------------------
(***************************************************************************)
(* The refinement.  The commit of a snap script records a snapshot, that   *)
(* of a reader's or a host script adds to the newest; no other step shows. *)
(***************************************************************************)

LogOf(S) == [n \in 1..Cardinality(S) |-> (CHOOSE s \in S : s.id = n).time]
SavedOf(H) == {<< b.snap.id, b.instance, b.table >> : b \in H}

LEMMA LogShape ==
    ASSUME NEW S, S \subseteq SnapRow, Cardinality(S) \in Nat,
           \A s \in S : s.id \in 1..Cardinality(S),
           \A n \in 1..Cardinality(S) : \E s \in S : s.id = n,
           \A s, u \in S : s.id = u.id => s = u
    PROVE  /\ LogOf(S) \in Seq(Nat) /\ Len(LogOf(S)) = Cardinality(S)
           /\ \A s \in S : LogOf(S)[s.id] = s.time
<1>1. \A n \in 1..Cardinality(S) : /\ (CHOOSE s \in S : s.id = n) \in S
                                  /\ (CHOOSE s \in S : s.id = n).id = n
  OBVIOUS
<1>2. \A s \in S : (CHOOSE u \in S : u.id = s.id) = s
  BY <1>1
<1>3. \A s \in S : s.time \in Nat
  BY DEF SnapRow
<1>4. LogOf(S) \in [1..Cardinality(S) -> Nat]
  BY <1>1, <1>3 DEF LogOf
<1>. QED  BY <1>2, <1>4 DEF LogOf

LEMMA LogNow ==
    ASSUME TypeOK, SerialInv
    PROVE  /\ LogOf(snap) \in Seq(Nat) /\ Len(LogOf(snap)) = Cardinality(snap)
           /\ \A s \in snap : LogOf(snap)[s.id] = s.time
  BY LogShape, NewestOf DEF TypeOK, SerialInv, Numbered, Promises, IdsInOrder

\* A commit of a snap script.
LEMMA RecordStep ==
    ASSUME NoOverlap, TypeOK, TypeOK', CollectorInv, SerialInv, SerialInv',
           NEW r \in Runs, Committed(r), phase[r] = "snap"
    PROVE  /\ writer \in Instances
           /\ LogOf(snap') \in Seq(Nat) /\ Len(LogOf(snap')) = Len(LogOf(snap)) + 1
           /\ \A n \in 1..Len(LogOf(snap)) :
                 /\ LogOf(snap')[n] = LogOf(snap)[n]
                 /\ LogOf(snap)[n] < LogOf(snap')[Len(LogOf(snap)) + 1]
           /\ SavedOf(hist') = SavedOf(hist)
                 \cup {<< Len(LogOf(snap)) + 1, writer, t >> : t \in TablesOf(SnapScript)}
<1>1. /\ snap' = snap \cup {NewRow(r)} /\ hist' = hist \cup txHist[r]
      /\ NewRow(r).id = Cardinality(snap) + 1 /\ NewRow(r).time = txTime[r]
      /\ Open(r) /\ phase[r] \in Scripted
  BY CommitFacts DEF Committed, NewRow
<1>2. Cardinality(snap) \in Nat /\ NewRow(r) \notin snap
  BY <1>1, NewestOf DEF SerialInv, Numbered
<1>3. Cardinality(snap') = Cardinality(snap) + 1
  BY <1>1, <1>2, FS_AddElement DEF SerialInv, Numbered
<1>4. /\ LogOf(snap') \in Seq(Nat) /\ Len(LogOf(snap')) = Cardinality(snap')
      /\ \A s \in snap' : LogOf(snap')[s.id] = s.time
  <2>1. /\ snap' \subseteq SnapRow
        /\ \A s \in snap' : s.id \in 1..Cardinality(snap')
        /\ \A n \in 1..Cardinality(snap') : \E s \in snap' : s.id = n
        /\ \A s, u \in snap' : s.id = u.id => s = u
    BY DEF TypeOK, SerialInv, Numbered, Promises, IdsInOrder
  <2>. QED  BY <2>1, <1>2, <1>3, LogShape
<1>5. ASSUME NEW n \in 1..Cardinality(snap)
      PROVE  /\ LogOf(snap')[n] = LogOf(snap)[n]
             /\ LogOf(snap)[n] < LogOf(snap')[Cardinality(snap) + 1]
  <2>1. PICK s \in snap : s.id = n
    BY DEF SerialInv, Numbered
  <2>2. LogOf(snap)[n] = s.time /\ LogOf(snap')[n] = s.time
    BY <2>1, <1>1, <1>4, LogNow
  <2>3. LogOf(snap')[Cardinality(snap) + 1] = txTime[r]
    BY <1>1, <1>4
  <2>4. s.time < txTime[r]
    BY <1>1 DEF SerialInv, Times
  <2>. QED  BY <2>2, <2>3, <2>4
<1>6. \A x : (\E b \in txHist[r] : x = << b.snap.id, b.instance, b.table >>)
              <=> \E t \in TablesOf(SnapScript) : x = << Cardinality(snap) + 1, writer, t >>
  <2>1. \A b : b \in txHist[r] <=> \E k \in 2..Len(Script[phase[r]]) : b = Row(r, k, NewRow(r))
    BY CommitFacts DEF First
  <2>2. \A k : /\ Row(r, k, NewRow(r)).snap.id = Cardinality(snap) + 1
               /\ Row(r, k, NewRow(r)).instance = writer
               /\ Row(r, k, NewRow(r)).table = Script[phase[r]][k]
    BY <1>1 DEF Row, Subject
  <2>. QED  BY <2>1, <2>2, <1>1, TablesOfScript
<1>7. SavedOf(hist') = SavedOf(hist)
                 \cup {<< Cardinality(snap) + 1, writer, t >> : t \in TablesOf(SnapScript)}
  BY <1>1, <1>6 DEF SavedOf
<1>8. Len(LogOf(snap)) = Cardinality(snap) /\ Len(LogOf(snap')) = Cardinality(snap) + 1
  BY <1>3, <1>4, LogNow
<1>9. writer \in Instances
  BY DEF TypeOK
<1>. QED  BY <1>4, <1>5, <1>7, <1>8, <1>9

\* A commit of another script.
LEMMA AddStep ==
    ASSUME NoOverlap, TypeOK, CollectorInv, SerialInv,
           NEW r \in Runs, Committed(r), phase[r] # "snap", snap # {},
           NEW tables, tables = IF phase[r] = "ro" THEN TablesOf(RoScript) ELSE Hosts
    PROVE  /\ target[r] \in Instances /\ snap' = snap
           /\ LogOf(snap) # << >> /\ Len(LogOf(snap)) = Cardinality(snap)
           /\ SavedOf(hist') = SavedOf(hist) \cup {<< Cardinality(snap), target[r], t >> : t \in tables}
           /\ phase[r] = "ro" =>
                 {<< Cardinality(snap), target[r], t >> : t \in tables} \cap SavedOf(hist) = {}
<1>1. /\ snap' = snap /\ hist' = hist \cup txHist[r] /\ phase[r] \in Scripted \ {"snap"}
      /\ target[r] \in Instances
  BY CommitFacts DEF Committed, TypeOK, Scripted
<1>2. PICK s \in snap : s.id = Cardinality(snap)
  BY NewestOf DEF SerialInv, Numbered
<1>3. \A u \in Latest(r) : u = s
  BY <1>2, CommitFacts, NewestOf DEF SerialInv, Promises, IdsInOrder
<1>4. s \in Latest(r)
  BY <1>2, CommitFacts, NewestOf DEF SerialInv
<1>5. \A b : b \in txHist[r] <=> \E k \in 1..Len(Script[phase[r]]) : b = Row(r, k, s)
  BY <1>1, <1>3, <1>4, CommitFacts DEF First
<1>6. \A t : t \in tables <=> \E k \in 1..Len(Script[phase[r]]) : t = Script[phase[r]][k]
  BY <1>1, TablesOfScript DEF Scripted
<1>7. \A k : /\ Row(r, k, s).snap = s /\ Row(r, k, s).instance = target[r]
             /\ Row(r, k, s).table = Script[phase[r]][k]
  BY <1>1 DEF Row, Subject
<1>8. \A x : (\E b \in txHist[r] : x = << b.snap.id, b.instance, b.table >>)
              <=> \E t \in tables : x = << Cardinality(snap), target[r], t >>
  BY <1>2, <1>5, <1>6, <1>7
<1>9. SavedOf(hist') = SavedOf(hist) \cup {<< Cardinality(snap), target[r], t >> : t \in tables}
  BY <1>1, <1>8 DEF SavedOf
<1>10. Len(LogOf(snap)) = Cardinality(snap) /\ LogOf(snap) # << >>
  BY LogNow, NewestOf DEF SerialInv
<1>11. ASSUME phase[r] = "ro", NEW t \in tables,
              << Cardinality(snap), target[r], t >> \in SavedOf(hist)
       PROVE  FALSE
  <2>1. PICK c \in hist : c.snap.id = Cardinality(snap) /\ c.instance = target[r] /\ c.table = t
    BY <1>11 DEF SavedOf
  <2>2. c.snap = s
    BY <2>1, <1>2 DEF CollectorInv, HistRefersToSnap, SerialInv, Promises, IdsInOrder
  <2>3. t \notin Hosts
    BY <1>11 DEF NoOverlap
  <2>4. PICK d \in hist : d.table = "instance_hist" /\ d.snap = s /\ d.instance = target[r]
    BY <2>1, <2>2, <2>3 DEF SerialInv, Keys
  <2>5. PICK k \in 1..Len(Script[phase[r]]) : Script[phase[r]][k] = "instance_hist"
    BY <1>11, <1>6 DEF NoOverlap
  <2>6. Row(r, k, s) \in txHist[r] /\ Taken(Row(r, k, s))
    BY <1>5, <1>7, <2>4, <2>5 DEF Taken, SameKey
  <2>. QED  BY <2>6 DEF SerialInv, Keys
<1>. QED  BY <1>1, <1>9, <1>10, <1>11

LEMMA LogInit == Init => Log!Init
<1>. SUFFICES ASSUME Init PROVE Log!Init
  OBVIOUS
<1>1. Cardinality(snap) = 0 /\ hist = {}
  BY FS_EmptySet DEF Init
<1>2. LogOf(snap) = << >>
  BY <1>1 DEF LogOf
<1>3. SavedOf(hist) = {}
  BY <1>1 DEF SavedOf
<1>. QED  BY <1>2, <1>3 DEF Log!Init, LogOf, SavedOf

LEMMA LogCommit ==
    ASSUME NoOverlap, TypeOK, TypeOK', CollectorInv, SerialInv, SerialInv',
           NEW r \in Runs, Committed(r)
    PROVE  Log!Next \/ (snap' = snap /\ hist' = hist)
<1>1. CASE phase[r] = "snap"
  <2>1. PICK i \in Instances : i = writer
    BY DEF TypeOK
  <2>2. /\ LogOf(snap') \in Seq(Nat) /\ Len(LogOf(snap')) = Len(LogOf(snap)) + 1
        /\ \A n \in 1..Len(LogOf(snap)) :
              /\ LogOf(snap')[n] = LogOf(snap)[n]
              /\ LogOf(snap)[n] < LogOf(snap')[Len(LogOf(snap)) + 1]
        /\ SavedOf(hist') = SavedOf(hist)
              \cup {<< Len(LogOf(snap)) + 1, i, t >> : t \in TablesOf(SnapScript)}
    BY <1>1, <2>1, RecordStep
  <2>3. Log!Record(i)
    BY <2>2 DEF Log!Record, Log!InFull, LogOf, SavedOf
  <2>. QED  BY <2>3 DEF Log!Next
<1>2. CASE phase[r] # "snap" /\ snap = {}
  <2>1. Latest(r) = {} /\ txSnap[r] = {}
    BY <1>2, CommitFacts DEF Newest
  <2>2. txHist[r] = {}
    BY <2>1, CommitFacts
  <2>. QED  BY <2>1, <2>2 DEF Committed
<1>3. CASE phase[r] = "ro" /\ snap # {}
  <2>1. PICK i \in Instances : i = target[r]
    BY <1>3, AddStep
  <2>2. /\ LogOf(snap') = LogOf(snap) /\ LogOf(snap) # << >>
        /\ SavedOf(hist') = SavedOf(hist) \cup {<< Len(LogOf(snap)), i, t >> : t \in TablesOf(RoScript)}
        /\ {<< Len(LogOf(snap)), i, t >> : t \in TablesOf(RoScript)} \cap SavedOf(hist) = {}
    BY <1>3, <2>1, AddStep
  <2>3. Log!SaveReader(i)
    BY <2>2 DEF Log!SaveReader, Log!InFull, LogOf, SavedOf
  <2>. QED  BY <2>3 DEF Log!Next
<1>4. CASE phase[r] \notin {"snap", "ro"} /\ snap # {}
  <2>1. PICK i \in Instances : i = target[r]
    BY <1>4, AddStep
  <2>2. /\ LogOf(snap') = LogOf(snap) /\ LogOf(snap) # << >>
        /\ SavedOf(hist') = SavedOf(hist) \cup {<< Len(LogOf(snap)), i, t >> : t \in Hosts}
    BY <1>4, <2>1, AddStep
  <2>3. Log!SaveHost(i)
    BY <2>2 DEF Log!SaveHost, Log!InFull, LogOf, SavedOf, Hosts
  <2>. QED  BY <2>3 DEF Log!Next
<1>. QED  BY <1>1, <1>2, <1>3, <1>4

LEMMA LogStep ==
    ASSUME NoOverlap, TypeOK, TypeOK', CollectorInv, SerialInv, SerialInv', [Next]_vars
    PROVE  Log!Next \/ (snap' = snap /\ hist' = hist)
<1>1. ASSUME NEW r \in Runs, Commit(r) \/ ReplyLost(r)
      PROVE  Log!Next \/ (snap' = snap /\ hist' = hist)
  BY <1>1, LogCommit DEF Commit, ReplyLost
<1>2. ASSUME NEW r \in Runs, Fire(r) \/ Progress(r) \/ Fault(r), ~Commit(r), ~ReplyLost(r)
      PROVE  snap' = snap /\ hist' = hist
  BY <1>2 DEF Progress, Fault, Fire, Begin, InsertSnap, InsertBatch, InsertNothing, Wait, WaitOver,
              KeyViolation, StatementFails, RolledBack, Raise, AskWriter, AskReaders, NextReader, Return
<1>3. ASSUME Failover \/ UNCHANGED vars
      PROVE  snap' = snap /\ hist' = hist
  BY <1>3 DEF Failover, vars
<1>. QED  BY <1>1, <1>2, <1>3 DEF Next, Finished

\* While runs do not overlap the collector implements the log of snapshots,
\* through failed scripts, failed runs, lost replies, retries and failovers.
THEOREM LogImplemented == NoOverlap => (Spec => ImplementsLog)
<1>. SUFFICES ASSUME NoOverlap PROVE Spec => ImplementsLog
  OBVIOUS
<1>1. Init => TypeOK /\ CollectorInv /\ SerialInv /\ Log!Init
  BY TypeInit, CollectorInit, SerialInit, LogInit
<1>2. TypeOK /\ CollectorInv /\ SerialInv /\ [Next]_vars => (TypeOK /\ CollectorInv /\ SerialInv)'
  BY TypeStep, CollectorStep, SerialStep
<1>3. TypeOK /\ TypeOK' /\ CollectorInv /\ SerialInv /\ SerialInv' /\ [Next]_vars
        => [Log!Next]_<< LogOf(snap), SavedOf(hist) >>
  BY LogStep
<1>4. [Log!Next]_<< LogOf(snap), SavedOf(hist) >>
        => [Log!Next]_<< [n \in 1..Cardinality(snap) |-> (CHOOSE s \in snap : s.id = n).time],
                         {<< b.snap.id, b.instance, b.table >> : b \in hist} >>
  BY DEF LogOf, SavedOf
<1>. QED  BY <1>1, <1>2, <1>3, <1>4, PTL DEF Spec, ImplementsLog, Log!Spec
=============================================================================
