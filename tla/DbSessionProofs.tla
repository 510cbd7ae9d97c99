-------------------------- MODULE DbSessionProofs --------------------------
(***************************************************************************)
(* For any script and any number of rows, one call of run_update or        *)
(* run_query implements AtomicCall: the script happens entirely or not at  *)
(* all, and a truth value that is returned says which.  The argument is    *)
(* about what a READY_FOR_QUERY on its way means: that of a commit comes   *)
(* without an error exactly when the commit took effect (ReadyMeans), and  *)
(* when the reply to a commit is lost, nothing is ever read again (Lost).  *)
(***************************************************************************)
EXTENDS DbSession, FiniteSetTheorems, SequenceTheorems, TLAPS

\* The command in flight.
Sent(c) == toServer = << c >>

\* What each variable ranges over.
Types ==
    /\ call \in Calls
    /\ pc \in {"connect", "fetch", "close", "end"} \cup Commands
    /\ awaiting \in BOOLEAN /\ error \in BOOLEAN /\ inTx \in BOOLEAN
    /\ cached \in Nat /\ produced \in Nat
    /\ result \in {"none", "true", "false"}
    /\ answer \in {"none", "returned", "raised"}
    /\ link \in {"none", "up", "down"}
    /\ toServer \in {<< >>} \cup {<< c >> : c \in Commands}
    /\ toClient \in Seq(Message)
    /\ status \in {"I", "T", "E"}
    /\ next \in 0..(Len(Script) + 1)
    /\ durable \in BOOLEAN

\* Where the client can be in which state of the connection.
Places ==
    /\ awaiting => pc \in Commands
    /\ pc = "connect" => link = "none" /\ ~inTx /\ status = "I"
    /\ link = "none" =>
          toServer = << >> /\ toClient = << >> /\ next = 0 /\ pc \in {"connect", "end"}
    /\ pc = "commit" => inTx
    /\ pc # "end" => answer = "none"
    /\ answer = "returned" => result # "none"

\* No READY_FOR_QUERY is on its way.
NoReady(s) == \A k \in 1..Len(s) : s[k].kind # "ready"

\* The client has met no error when it comes to message k.
Clean(k) == ~error /\ \A j \in 1..(k - 1) : toClient[j].kind # "error"

\* What the backend is doing, as long as the client can hear of it.
InTouch ==
    link = "up" =>
      /\ toServer # << >> =>
            awaiting /\ Sent(pc) /\ toClient = << >> /\ next = 0 /\ ~error
      /\ next # 0 => awaiting /\ pc = "script" /\ status = "T" /\ NoReady(toClient)
      /\ ~awaiting => toClient = << >> /\ (pc # "connect" => (inTx <=> status # "I"))
      /\ pc \in {"script", "commit"} /\ (~awaiting \/ toServer # << >>) => status = "T"
      /\ \A k \in 1..Len(toClient) : toClient[k].of = pc

\* What a READY_FOR_QUERY says that the client is going to read.
ReadyAt(k) ==
    toClient[k].kind = "ready" =>
      /\ awaiting /\ toServer = << >> /\ next = 0
      /\ \A j \in 1..Len(toClient) : toClient[j].kind = "ready" => j = k
      /\ link = "up" => k = Len(toClient) /\ toClient[k].status = status
      /\ link = "up" /\ pc \in {"begin", "script"} /\ Clean(k) => status = "T"
      /\ pc = "script" => toClient[k].status # "I"
      /\ pc = "commit" => (Clean(k) <=> durable)
ReadyMeans == pc # "end" => \A k \in 1..Len(toClient) : ReadyAt(k)

\* A commit is under way, or has taken effect.
Committing == durable \/ Sent("commit")
Stage ==
    /\ Committing => /\ pc \in {"commit", "rollback", "fetch", "close", "end"}
                     /\ pc = "commit" => awaiting
    /\ ~(durable /\ Sent("commit"))

\* The reply to the commit is lost: the rollback will not find anything to read.
Lost == pc = "rollback" /\ Committing => link = "down" /\ toClient = << >> /\ inTx

\* The result, as it is going to be returned.
Honest ==
    /\ result # "none" => pc \in {"close", "end"}
    /\ result = "true" \/ pc = "fetch" => durable
    /\ result = "false" => ~Committing

SessionInv == Types /\ Places /\ InTouch /\ ReadyMeans /\ Stage /\ Lost /\ Honest

-----------------------------------------------------------------------------

LEMMA ScriptLength == Len(Script) \in Nat
  BY SessionAssumption, LenProperties

LEMMA Start == Init => SessionInv
<1>. SUFFICES ASSUME Init PROVE SessionInv
  OBVIOUS
<1>1. Types /\ toClient = << >> /\ Len(toClient) = 0
  <2>1. toClient \in Seq(Message) /\ Len(toClient) = 0
    BY EmptySeq DEF Init
  <2>2. next \in 0..(Len(Script) + 1)
    BY ScriptLength DEF Init
  <2>. QED  BY <2>1, <2>2 DEF Init, Types
<1>2. Places /\ InTouch /\ Stage /\ Lost /\ Honest
  BY DEF Init, Places, InTouch, Stage, Lost, Honest, Committing, Sent
<1>3. ReadyMeans
  BY <1>1 DEF ReadyMeans
<1>. QED  BY <1>1, <1>2, <1>3 DEF SessionInv

\* Without a READY_FOR_QUERY there is nothing to say of one.
LEMMA Unready == NoReady(toClient) => ReadyMeans
  BY DEF NoReady, ReadyMeans, ReadyAt

LEMMA ConnectStep == SessionInv /\ (Connect \/ ConnectFails) => SessionInv'
<1>. SUFFICES ASSUME SessionInv, Connect \/ ConnectFails PROVE SessionInv'
  OBVIOUS
<1>1. /\ pc = "connect" /\ link = "none" /\ ~awaiting /\ toClient = << >> /\ ~inTx
      /\ toServer = << >> /\ next = 0 /\ status = "I" /\ answer = "none"
  BY DEF SessionInv, Places, Types, Commands, Connect, ConnectFails
<1>2. Types' /\ Len(toClient') = 0
  BY <1>1 DEF SessionInv, Types, Connect, ConnectFails, backend, Commands
<1>3. Places'
  BY <1>1 DEF Places, Connect, ConnectFails, backend
<1>4. InTouch'
  BY <1>1, <1>2 DEF InTouch, Sent, Connect, ConnectFails, backend
<1>5. ReadyMeans'
  BY <1>2 DEF ReadyMeans
<1>6. Stage' /\ Lost' /\ Honest'
  BY <1>1 DEF SessionInv, Stage, Lost, Honest, Committing, Sent, Connect, ConnectFails, backend
<1>. QED  BY <1>2, <1>3, <1>4, <1>5, <1>6 DEF SessionInv

\* A command that is sent finds nothing left to read, unless the connection broke.
LEMMA SendStep == SessionInv /\ SendNext => SessionInv'
<1>. SUFFICES ASSUME SessionInv, SendNext PROVE SessionInv'
  OBVIOUS
<1>1. PICK c \in Commands : pc = c /\ Send(c)
  BY DEF SendNext, Commands
<1>2. /\ ~awaiting /\ awaiting' = TRUE /\ error' = FALSE
      /\ toServer' = IF link = "up" THEN << c >> ELSE toServer
      /\ UNCHANGED << call, pc, inTx, result, answer, link, toClient, backend >>
  <2>1. link = "up" => toServer = << >>
    BY <1>1 DEF SessionInv, InTouch, Send
  <2>2. Append(<< >>, c) = << c >>
    OBVIOUS
  <2>. QED  BY <1>1, <2>1, <2>2 DEF Send
<1>3. pc \in Commands /\ result = "none" /\ link # "none" /\ answer = "none"
  BY <1>1 DEF SessionInv, Honest, Places, Commands
<1>4. Types'
  BY <1>1, <1>2 DEF SessionInv, Types, Send, backend
<1>5. Places'
  BY <1>2, <1>3 DEF SessionInv, Places, backend
<1>6. link = "up" => toClient = << >> /\ next = 0 /\ (pc \in {"script", "commit"} => status = "T")
  BY <1>2 DEF SessionInv, InTouch
<1>7. InTouch'
  BY <1>1, <1>2, <1>6 DEF InTouch, Sent, backend
<1>8. ReadyMeans'
  <2>1. NoReady(toClient)
    BY <1>2, <1>3 DEF SessionInv, ReadyMeans, ReadyAt, NoReady, Commands
  <2>. QED  BY <1>2, <2>1 DEF NoReady, ReadyMeans, ReadyAt
<1>9. Stage' /\ Lost' /\ Honest'
  BY <1>1, <1>2, <1>3
  DEF SessionInv, Stage, Lost, Honest, Committing, Sent, backend, Commands
<1>. QED  BY <1>4, <1>5, <1>7, <1>8, <1>9 DEF SessionInv

\* The client handles a message: the others move up by one.
LEMMA Shifted ==
    ASSUME SessionInv, toClient # << >>, toClient' = Tail(toClient)
    PROVE  /\ Len(toClient) \in Nat \ {0} /\ Head(toClient) = toClient[1]
           /\ Head(toClient) \in Message
           /\ toClient' \in Seq(Message) /\ Len(toClient') = Len(toClient) - 1
           /\ \A k \in 1..Len(toClient') :
                 k + 1 \in 1..Len(toClient) /\ toClient'[k] = toClient[k + 1]
<1>1. toClient \in Seq(Message)
  BY DEF SessionInv, Types
<1>2. Len(toClient) \in Nat \ {0} /\ Head(toClient) = toClient[1]
  BY <1>1, EmptySeq
<1>3. /\ Head(toClient) \in Message
      /\ toClient' \in Seq(Message) /\ Len(toClient') = Len(toClient) - 1
      /\ \A k \in 1..Len(toClient') : toClient'[k] = toClient[k + 1]
  BY <1>1, HeadTailProperties
<1>. QED  BY <1>2, <1>3

LEMMA ReadStep == SessionInv /\ Read => SessionInv'
<1>. SUFFICES ASSUME SessionInv, Read PROVE SessionInv'
  OBVIOUS
<1>. DEFINE m == Head(toClient)
<1>1. /\ awaiting /\ toClient # << >> /\ m.kind # "ready" /\ toClient' = Tail(toClient)
      /\ cached' = IF m.kind = "row" THEN cached + 1 ELSE cached
      /\ error' = (error \/ m.kind = "error")
      /\ UNCHANGED << call, pc, awaiting, inTx, result, answer, link, toServer, backend >>
  BY DEF Read
<1>2. /\ Len(toClient) \in Nat \ {0} /\ m = toClient[1]
      /\ toClient' \in Seq(Message) /\ Len(toClient') = Len(toClient) - 1
      /\ \A k \in 1..Len(toClient') :
            k + 1 \in 1..Len(toClient) /\ toClient'[k] = toClient[k + 1]
  BY <1>1, Shifted
<1>. HIDE DEF m
<1>3. Types'
  BY <1>1, <1>2 DEF SessionInv, Types, backend
<1>4. link # "none"
  BY <1>1 DEF SessionInv, Places
<1>5. Places'
  BY <1>1, <1>4 DEF SessionInv, Places, backend
<1>6. InTouch'
  <2>1. link = "up" => toServer = << >>
    BY <1>1 DEF SessionInv, InTouch
  <2>2. link = "up" /\ next # 0 => NoReady(toClient)
    BY DEF SessionInv, InTouch
  <2>3. link = "up" /\ next # 0 => NoReady(toClient')
    BY <1>2, <2>2 DEF NoReady
  <2>. QED  BY <1>1, <1>2, <2>1, <2>3 DEF SessionInv, InTouch, backend
<1>7. ReadyMeans'
  <2>. SUFFICES ASSUME pc # "end", NEW k \in 1..Len(toClient'), toClient'[k].kind = "ready"
                PROVE  ReadyAt(k)'
    BY <1>1 DEF ReadyMeans, ReadyAt
  <2>1. k + 1 \in 1..Len(toClient) /\ toClient'[k] = toClient[k + 1]
    BY <1>2
  <2>2. ReadyAt(k + 1)
    BY <2>1 DEF SessionInv, ReadyMeans
  <2>3. Clean(k)' <=> Clean(k + 1)
    <3>1. Clean(k)' <=> /\ ~(error \/ m.kind = "error")
                        /\ \A j \in 1..(k - 1) : toClient[j + 1].kind # "error"
      <4>1. \A j \in 1..(k - 1) : toClient'[j] = toClient[j + 1]
        BY <1>2
      <4>2. error' <=> (error \/ m.kind = "error")
        BY <1>1, Zenon
      <4>. QED  BY <4>1, <4>2, Zenon DEF Clean
    <3>2. k \in Nat /\ k >= 1
      BY <1>2
    <3>3. (\A j \in 1..(k - 1) : toClient[j + 1].kind # "error")
            <=> \A i \in 2..k : toClient[i].kind # "error"
      <4>1. ASSUME \A j \in 1..(k - 1) : toClient[j + 1].kind # "error", NEW i \in 2..k
            PROVE  toClient[i].kind # "error"
        <5>1. i - 1 \in 1..(k - 1) /\ (i - 1) + 1 = i
          BY <3>2
        <5>. QED  BY <4>1, <5>1
      <4>2. ASSUME \A i \in 2..k : toClient[i].kind # "error", NEW j \in 1..(k - 1)
            PROVE  toClient[j + 1].kind # "error"
        <5>1. j + 1 \in 2..k
          BY <3>2
        <5>. QED  BY <4>2, <5>1
      <4>. QED  BY <4>1, <4>2
    <3>4. Clean(k + 1) <=> /\ ~error /\ m.kind # "error"
                           /\ \A i \in 2..k : toClient[i].kind # "error"
      <4>1. 1..((k + 1) - 1) = {1} \cup 2..k
        BY <3>2
      <4>. QED  BY <1>2, <4>1 DEF Clean
    <3>. QED  BY <3>1, <3>3, <3>4
  <2>4. \A j \in 1..Len(toClient') : toClient'[j].kind = "ready" => j = k
    <3>1. \A j \in 1..Len(toClient) : toClient[j].kind = "ready" => j = k + 1
      BY <2>1, <2>2 DEF ReadyAt
    <3>. QED  BY <1>2, <3>1
  <2>5. link = "up" => k = Len(toClient')
    BY <1>2, <2>1, <2>2 DEF ReadyAt
  <2>. QED  BY <1>1, <2>1, <2>2, <2>3, <2>4, <2>5 DEF ReadyAt, backend
<1>8. Stage' /\ Lost' /\ Honest'
  BY <1>1, <1>2 DEF SessionInv, Stage, Lost, Honest, Committing, Sent, backend
<1>. QED  BY <1>3, <1>5, <1>6, <1>7, <1>8 DEF SessionInv

\* handle_messages is over.
LEMMA ReadyStep == SessionInv /\ Ready => SessionInv'
<1>. SUFFICES ASSUME SessionInv, Ready PROVE SessionInv'
  OBVIOUS
<1>. DEFINE m == Head(toClient)
<1>1. /\ awaiting /\ toClient # << >> /\ m.kind = "ready" /\ toClient' = Tail(toClient)
      /\ awaiting' = FALSE /\ inTx' = (m.status # "I") /\ result' = Outcome(error)
      /\ pc' = IF ~error THEN AfterOk ELSE IF pc = "rollback" THEN "close" ELSE "rollback"
      /\ UNCHANGED << call, error, cached, answer, link, toServer, backend >>
  BY DEF Ready, FlagAfter
<1>2. /\ Len(toClient) \in Nat \ {0} /\ m = toClient[1] /\ m \in Message
      /\ toClient' \in Seq(Message) /\ Len(toClient') = Len(toClient) - 1
      /\ \A k \in 1..Len(toClient') :
            k + 1 \in 1..Len(toClient) /\ toClient'[k] = toClient[k + 1]
  BY <1>1, Shifted
<1>. HIDE DEF m
<1>3. /\ pc \in Commands /\ answer = "none" /\ link # "none" /\ result = "none"
  BY <1>1 DEF SessionInv, Places, Honest, Commands
<1>4. ReadyAt(1) /\ (Clean(1) <=> ~error)
  <2>1. 1..(1 - 1) = {}
    OBVIOUS
  <2>. QED  BY <1>2, <1>3, <2>1 DEF SessionInv, ReadyMeans, Commands, Clean
<1>5. toServer = << >> /\ next = 0 /\ NoReady(toClient')
  <2>1. \A j \in 1..Len(toClient) : toClient[j].kind = "ready" => j = 1
    BY <1>1, <1>2, <1>4 DEF ReadyAt
  <2>. QED  BY <1>1, <1>2, <1>4, <2>1 DEF ReadyAt, NoReady
\* What the client goes on with.
<1>6. /\ pc = "begin" /\ ~error => pc' = "script" /\ result' = "none"
      /\ pc = "script" /\ ~error => pc' = "commit" /\ result' = "none"
      /\ pc = "commit" /\ ~error =>
            /\ pc' \in {"fetch", "close"} /\ durable
            /\ result' \in {"none", "true"}
      /\ pc = "rollback" /\ ~error => pc' = "close" /\ result' = "false"
      /\ error /\ pc # "rollback" => pc' = "rollback" /\ result' = "none"
      /\ error /\ pc = "rollback" => pc' = "close" /\ result' = "none"
  <2>1. pc = "commit" => (durable <=> ~error)
    BY <1>1, <1>2, <1>4 DEF ReadyAt
  <2>. QED  BY <1>1, <1>3, <2>1 DEF Outcome, AfterOk
<1>7. Committing => durable /\ ~error /\ pc = "commit"
  <2>1. Committing => durable
    BY <1>5 DEF Committing, Sent
  <2>2. durable => pc \in {"commit", "rollback"}
    BY <1>3 DEF SessionInv, Stage, Committing, Commands
  <2>3. durable => pc # "rollback"
    BY <1>1 DEF SessionInv, Lost, Committing
  <2>4. pc = "commit" => (durable <=> ~error)
    BY <1>1, <1>2, <1>4 DEF ReadyAt
  <2>. QED  BY <2>1, <2>2, <2>3, <2>4
<1>8. Committing' <=> Committing
  BY <1>1 DEF Committing, Sent, backend
<1>9. Types'
  BY <1>1, <1>2, <1>3, <1>6 DEF SessionInv, Types, backend, Commands
<1>10. Places'
  <2>1. pc = "script" => m.status # "I"
    BY <1>1, <1>2, <1>4 DEF ReadyAt
  <2>. QED  BY <1>1, <1>3, <1>6, <2>1 DEF SessionInv, Places, backend, Commands
<1>11. InTouch'
  <2>. SUFFICES ASSUME link = "up" PROVE InTouch'
    BY <1>1 DEF InTouch
  <2>1. m.status = status /\ (pc \in {"begin", "script"} /\ ~error => status = "T")
    BY <1>1, <1>2, <1>4 DEF ReadyAt
  <2>2. Len(toClient) = 1
    BY <1>1, <1>2, <1>4 DEF ReadyAt
  <2>3. Len(toClient') = 0
    BY <1>2, <2>2
  <2>4. toClient' = << >>
    BY <1>2, <2>3, EmptySeq
  <2>5. inTx' <=> status # "I"
    BY <1>1, <2>1
  <2>6. toServer' = << >> /\ next' = 0 /\ link' = "up" /\ status' = status
    BY <1>1, <1>5 DEF backend
  <2>7. pc' \in {"script", "commit"} => status = "T"
    BY <1>3, <1>6, <2>1 DEF Commands
  <2>8. \A k \in 1..Len(toClient') : toClient'[k].of = pc'
    BY <2>3
  <2>9. awaiting' = FALSE
    BY <1>1
  <2>. QED  BY <2>4, <2>5, <2>6, <2>7, <2>8, <2>9, Zenon DEF InTouch
<1>12. ReadyMeans'
  BY <1>5 DEF NoReady, ReadyMeans, ReadyAt
<1>13. Stage'
  <2>1. Committing => pc' \in {"fetch", "close"}
    BY <1>6, <1>7
  <2>2. ~(durable' /\ Sent("commit")')
    BY <1>1, <1>5 DEF Sent
  <2>. QED  BY <1>8, <2>1, <2>2 DEF Stage
<1>14. Lost'
  BY <1>6, <1>7, <1>8 DEF Lost
<1>15. Honest'
  <2>1. result' = "false" => pc = "rollback"
    BY <1>3, <1>6 DEF Commands
  <2>2. result' = "true" \/ pc' = "fetch" => durable
    BY <1>3, <1>6 DEF Commands
  <2>3. result' # "none" => pc' = "close"
    BY <1>1, <1>3 DEF Commands, Outcome, AfterOk
  <2>4. durable' = durable
    BY <1>1 DEF backend
  <2>. QED  BY <1>7, <1>8, <2>1, <2>2, <2>3, <2>4 DEF Honest
<1>. QED  BY <1>9, <1>10, <1>11, <1>12, <1>13, <1>14, <1>15 DEF SessionInv

\* Only a broken connection has a read fail; the transaction is taken as open.
LEMMA BrokenStep == SessionInv /\ ReadBroken => SessionInv'
<1>. SUFFICES ASSUME SessionInv, ReadBroken PROVE SessionInv'
  OBVIOUS
<1>1. /\ awaiting /\ toClient = << >> /\ link = "down" /\ awaiting' = FALSE /\ error' = TRUE
      /\ pc' = IF pc = "rollback" THEN "close" ELSE "rollback"
      /\ UNCHANGED << call, inTx, cached, result, answer, link, toServer, toClient, backend >>
  BY DEF ReadBroken
<1>2. pc \in Commands /\ answer = "none" /\ result = "none"
  BY <1>1 DEF SessionInv, Places, Honest, Commands
<1>3. Types'
  BY <1>1 DEF SessionInv, Types, backend, Commands
<1>4. Places'
  BY <1>1, <1>2 DEF SessionInv, Places, backend, Commands
<1>5. InTouch'
  BY <1>1 DEF InTouch
<1>6. ReadyMeans'
  <2>1. Len(toClient') = 0
    BY <1>1
  <2>. QED  BY <2>1 DEF ReadyMeans
<1>7. Stage'
  BY <1>1, <1>2 DEF SessionInv, Stage, Committing, Sent, backend, Commands
<1>8. Lost'
  BY <1>1, <1>2 DEF SessionInv, Places, Stage, Lost, Committing, Sent, backend, Commands
<1>9. Honest'
  BY <1>1, <1>2 DEF SessionInv, Honest, Committing, Sent, backend
<1>. QED  BY <1>3, <1>4, <1>5, <1>6, <1>7, <1>8, <1>9 DEF SessionInv

\* The steps of the client between its commands.
LEMMA LocalStep == SessionInv /\ (SkipRollback \/ Fetch \/ Close \/ Killed) => SessionInv'
<1>. SUFFICES ASSUME SessionInv, SkipRollback \/ Fetch \/ Close \/ Killed PROVE SessionInv'
  OBVIOUS
<1>1. UNCHANGED << call, error, inTx, cached, toServer, toClient, backend >>
  BY DEF SkipRollback, Fetch, Close, Killed
<1>2. CASE SkipRollback \/ Fetch
  <2>1. /\ pc \in {"rollback", "fetch"} /\ ~awaiting /\ pc' = "close"
        /\ UNCHANGED << awaiting, answer, link >>
        /\ result' = IF pc = "fetch" THEN "true" ELSE "false"
        /\ pc = "rollback" => ~inTx
    BY <1>2 DEF SkipRollback, Fetch, NeedsRollback, SessionInv, Places, Commands
  <2>2. answer = "none" /\ link # "none"
    BY <2>1 DEF SessionInv, Places
  <2>3. Types' /\ Places'
    BY <1>1, <2>1, <2>2 DEF SessionInv, Types, Places, backend, Commands
  <2>4. InTouch'
    <3>1. link = "up" => toClient = << >> /\ toServer = << >> /\ next = 0
      BY <2>1 DEF SessionInv, InTouch
    <3>2. link = "up" => (inTx <=> status # "I")
      BY <2>1 DEF SessionInv, InTouch
    <3>. QED  BY <1>1, <2>1, <3>1, <3>2 DEF InTouch, backend
  <2>5. ReadyMeans'
    <3>1. NoReady(toClient)
      BY <2>1 DEF SessionInv, ReadyMeans, ReadyAt, NoReady
    <3>. QED  BY <1>1, <3>1 DEF NoReady, ReadyMeans, ReadyAt
  <2>6. Stage' /\ Lost'
    BY <1>1, <2>1 DEF SessionInv, Stage, Lost, Committing, Sent, backend
  <2>7. Honest'
    BY <1>1, <2>1 DEF SessionInv, Lost, Honest, Committing, Sent, backend
  <2>. QED  BY <2>3, <2>4, <2>5, <2>6, <2>7 DEF SessionInv
<1>3. CASE Close \/ Killed
  <2>1. /\ pc' = "end" /\ awaiting' = FALSE /\ UNCHANGED result /\ link' \in {"down", link}
        /\ link' # "up"
        /\ answer' \in {"raised", "returned"} /\ (answer' = "returned" => result # "none")
    BY <1>3 DEF Close, Killed, SessionInv, Types, Places, Commands
  <2>2. Types'
    BY <1>1, <2>1 DEF SessionInv, Types, backend
  <2>3. Places'
    BY <1>1, <2>1 DEF SessionInv, Places, backend
  <2>4. InTouch' /\ ReadyMeans'
    BY <2>1 DEF InTouch, ReadyMeans
  <2>5. Stage' /\ Lost' /\ Honest'
    BY <1>1, <2>1 DEF SessionInv, Stage, Lost, Honest, Committing, Sent, backend
  <2>. QED  BY <2>2, <2>3, <2>4, <2>5 DEF SessionInv
<1>. QED  BY <1>2, <1>3

-----------------------------------------------------------------------------

\* Two messages, the second of them READY_FOR_QUERY.
LEMMA Answered ==
    ASSUME NEW m1 \in Message, NEW m2 \in Message, NEW s, s = << >>
    PROVE  /\ s \o << m1, m2 >> = << m1, m2 >>
           /\ << m1, m2 >> \in Seq(Message) /\ Len(<< m1, m2 >>) = 2
  BY ConcatEmptySeq

\* The backend carries out a command nobody waits for any more.
LEMMA Unheard ==
    ASSUME SessionInv, link # "up", toServer # << >> \/ next # 0
    PROVE  link = "down" /\ (pc # "end" => NoReady(toClient))
<1>1. link = "down"
  BY DEF SessionInv, Places, Types
<1>2. pc # "end" => NoReady(toClient)
  BY DEF SessionInv, ReadyMeans, ReadyAt, NoReady
<1>. QED  BY <1>1, <1>2

LEMMA Taken ==
    ASSUME SessionInv, NEW c \in Commands, Received(c)
    PROVE  toServer = << c >> /\ toServer' = << >> /\ next = 0
<1>1. PICK d \in Commands : toServer = << d >>
  BY DEF Received, SessionInv, Types
<1>2. Head(<< d >>) = d /\ Tail(<< d >>) = << >>
  OBVIOUS
<1>. QED  BY <1>1, <1>2 DEF Received

LEMMA BeginStep == SessionInv /\ DoBegin => SessionInv'
<1>. SUFFICES ASSUME SessionInv, DoBegin PROVE SessionInv'
  OBVIOUS
<1>. DEFINE m1 == Msg("complete", "begin", "T")
            m2 == Msg("ready", "begin", "T")
<1>1. /\ toServer = << "begin" >> /\ toServer' = << >> /\ next = 0 /\ status' = "T"
      /\ toClient' = IF link = "up" THEN toClient \o << m1, m2 >> ELSE toClient
      /\ UNCHANGED << client, link, next, durable, produced >>
  <2>1. toServer = << "begin" >> /\ toServer' = << >> /\ next = 0
    BY Taken DEF DoBegin, Commands
  <2>. QED  BY <2>1 DEF DoBegin, Reply
<1>2. m1 \in Message /\ m2 \in Message /\ m1.kind # "ready" /\ m2.status = "T"
      /\ m1.of = "begin" /\ m2.of = "begin"
  BY DEF Msg, Message, Commands
<1>. HIDE DEF m1, m2
<1>3. link # "none" /\ pc # "connect"
  BY <1>1 DEF SessionInv, Places
<1>4. link = "up" => toClient' = << m1, m2 >> /\ Len(toClient') = 2 /\ pc = "begin" /\ awaiting
  <2>1. link = "up" => toClient = << >> /\ pc = "begin" /\ awaiting
    BY <1>1 DEF SessionInv, InTouch, Sent
  <2>. QED  BY <1>1, <1>2, <2>1, Answered
<1>5. toClient' \in Seq(Message)
  BY <1>1, <1>2, <1>4 DEF SessionInv, Types
<1>6. Types' /\ Places'
  BY <1>1, <1>3, <1>5 DEF SessionInv, Types, Places, client
<1>7. InTouch'
  BY <1>1, <1>2, <1>4 DEF InTouch, client
<1>8. ReadyMeans'
  <2>1. CASE link = "up"
    BY <1>1, <1>2, <1>4, <2>1 DEF ReadyMeans, ReadyAt, client
  <2>2. CASE link # "up"
    BY <1>1, <2>2, Unheard DEF NoReady, ReadyMeans, ReadyAt, client
  <2>. QED  BY <2>1, <2>2
<1>9. Stage' /\ Lost' /\ Honest'
  BY <1>1, <1>4 DEF SessionInv, Stage, Lost, Honest, Committing, Sent, client
<1>. QED  BY <1>6, <1>7, <1>8, <1>9 DEF SessionInv

LEMMA TakeStep == SessionInv /\ TakeScript => SessionInv'
<1>. SUFFICES ASSUME SessionInv, TakeScript PROVE SessionInv'
  OBVIOUS
<1>1. /\ toServer = << "script" >> /\ toServer' = << >> /\ next = 0 /\ next' = 1
      /\ UNCHANGED << client, link, toClient, status, durable, produced >>
  BY Taken DEF TakeScript, Commands
<1>2. link # "none" /\ pc # "connect"
  BY <1>1 DEF SessionInv, Places
<1>3. next' \in 0..(Len(Script) + 1)
  BY <1>1, ScriptLength
<1>4. Types' /\ Places'
  BY <1>1, <1>2, <1>3 DEF SessionInv, Types, Places, client
<1>5. InTouch'
  <2>1. link = "up" => /\ awaiting /\ pc = "script" /\ status = "T" /\ toClient = << >>
                       /\ toServer' = << >>
    BY <1>1 DEF SessionInv, InTouch, Sent
  <2>. QED  BY <1>1, <2>1 DEF InTouch, NoReady, client
<1>6. ReadyMeans'
  <2>1. pc # "end" => NoReady(toClient)
    BY <1>1 DEF SessionInv, ReadyMeans, ReadyAt, NoReady
  <2>. QED  BY <1>1, <2>1 DEF NoReady, ReadyMeans, ReadyAt, client
<1>7. Stage' /\ Lost' /\ Honest'
  BY <1>1 DEF SessionInv, Stage, Lost, Honest, Committing, Sent, client
<1>. QED  BY <1>4, <1>5, <1>6, <1>7 DEF SessionInv

\* Messages are put behind those on their way.
LEMMA Behind ==
    ASSUME NEW s \in Seq(Message), NEW t \in Seq(Message)
    PROVE  /\ s \o t \in Seq(Message) /\ Len(s) \in Nat /\ Len(t) \in Nat
           /\ Len(s \o t) = Len(s) + Len(t)
           /\ \A k \in 1..Len(s) : (s \o t)[k] = s[k]
           /\ \A k \in 1..Len(t) : (s \o t)[Len(s) + k] = t[k]
           /\ \A k \in 1..Len(s \o t) :
                 \/ k \in 1..Len(s) /\ (s \o t)[k] = s[k]
                 \/ k - Len(s) \in 1..Len(t) /\ (s \o t)[k] = t[k - Len(s)]
<1>1. /\ s \o t \in Seq(Message) /\ Len(s) \in Nat /\ Len(t) \in Nat
      /\ Len(s \o t) = Len(s) + Len(t)
  BY ConcatProperties, LenProperties
<1>2. \A k \in 1..Len(s) + Len(t) :
         (s \o t)[k] = IF k <= Len(s) THEN s[k] ELSE t[k - Len(s)]
  BY ConcatProperties
<1>. QED  BY <1>1, <1>2

\* The rows of a select, and what follows them.
Rows(n) == [k \in 1..n |-> Msg("row", "script", "T")]
LEMMA RowsShape ==
    ASSUME NEW n \in Nat
    PROVE  /\ Rows(n) \in Seq(Message) /\ Len(Rows(n)) = n
           /\ \A k \in 1..n : Rows(n)[k] = Msg("row", "script", "T")
<1>1. Msg("row", "script", "T") \in Message
  BY DEF Msg, Message, Commands
<1>2. Rows(n) \in [1..n -> Message]
  BY <1>1 DEF Rows
<1>3. Rows(n) \in Seq(Message)
  BY <1>2, SeqDef
<1>4. Len(Rows(n)) = n
  <2>1. DOMAIN Rows(n) = 1..n
    BY DEF Rows
  <2>. QED  BY <1>3, <2>1, LenProperties
<1>. QED  BY <1>3, <1>4 DEF Rows

\* A statement of the script: the messages it sends, with READY_FOR_QUERY as the
\* last of them or not at all.
LEMMA ScriptReply ==
    ASSUME SessionInv, next # 0, pc # "end", link = "up",
           NEW t \in Seq(Message), toClient' = toClient \o t,
           \A k \in 1..Len(t) : t[k].of = "script",
           \A k \in 1..Len(t) : t[k].kind = "ready" => k = Len(t)
    PROVE  /\ toClient' \in Seq(Message)
           /\ pc = "script" /\ awaiting /\ status = "T" /\ toServer = << >>
           /\ \A k \in 1..Len(toClient') : toClient'[k].of = pc
           /\ \A k \in 1..Len(toClient') : toClient'[k].kind = "ready" =>
                  k = Len(toClient') /\ Len(t) # 0 /\ toClient'[k] = t[Len(t)]
           /\ NoReady(t) => NoReady(toClient')
           /\ \A k \in 1..Len(t) :
                 Len(toClient) + k \in 1..Len(toClient') /\ toClient'[Len(toClient) + k] = t[k]
           /\ Len(toClient') = Len(toClient) + Len(t)
           /\ Len(toClient) \in Nat /\ Len(t) \in Nat
<1>1. /\ pc = "script" /\ awaiting /\ status = "T" /\ toServer = << >> /\ NoReady(toClient)
      /\ \A k \in 1..Len(toClient) : toClient[k].of = pc
  BY DEF SessionInv, InTouch
<1>2. toClient \in Seq(Message)
  BY DEF SessionInv, Types
<1>3. /\ toClient' \in Seq(Message) /\ Len(toClient) \in Nat /\ Len(t) \in Nat
      /\ Len(toClient') = Len(toClient) + Len(t)
      /\ \A k \in 1..Len(t) : toClient'[Len(toClient) + k] = t[k]
      /\ \A k \in 1..Len(toClient') :
            \/ k \in 1..Len(toClient) /\ toClient'[k] = toClient[k]
            \/ k - Len(toClient) \in 1..Len(t) /\ toClient'[k] = t[k - Len(toClient)]
  BY <1>2, Behind
<1>4. \A k \in 1..Len(toClient') : toClient'[k].of = pc
  BY <1>1, <1>3
<1>5. ASSUME NEW k \in 1..Len(toClient'), toClient'[k].kind = "ready"
      PROVE  k = Len(toClient') /\ Len(t) # 0 /\ toClient'[k] = t[Len(t)] /\ ~NoReady(t)
  <2>1. k - Len(toClient) \in 1..Len(t) /\ toClient'[k] = t[k - Len(toClient)]
    BY <1>1, <1>3, <1>5 DEF NoReady
  <2>2. k - Len(toClient) = Len(t)
    BY <1>5, <2>1
  <2>3. k = Len(toClient') /\ Len(t) # 0
    BY <1>3, <2>1, <2>2
  <2>4. Len(t) \in 1..Len(t) /\ t[Len(t)].kind = "ready" /\ toClient'[k] = t[Len(t)]
    BY <1>5, <2>1, <2>2
  <2>5. ~NoReady(t)
    BY <2>4 DEF NoReady
  <2>. QED  BY <2>3, <2>4, <2>5
<1>6. NoReady(t) => NoReady(toClient')
  BY <1>5 DEF NoReady
<1>. QED  BY <1>1, <1>3, <1>4, <1>5, <1>6

LEMMA StatementStep == SessionInv /\ DoStatement => SessionInv'
<1>. SUFFICES ASSUME SessionInv, DoStatement PROVE SessionInv'
  OBVIOUS
<1>. DEFINE done == Msg("complete", "script", "T")
<1>1. PICK n \in Nat : /\ produced' = produced + n
                       /\ Reply(Rows(n) \o << done >>)
  <2>1. PICK n \in IF Script[next] = "select" THEN 0..MaxRows ELSE {0} :
               /\ produced' = produced + n
               /\ Reply(Rows(n) \o << done >>)
    BY DEF DoStatement, Rows
  <2>2. n \in Nat
    BY <2>1, SessionAssumption
  <2>. QED  BY <2>1, <2>2
<1>. DEFINE t == Rows(n) \o << done >>
<1>2. /\ next \in 1..Len(Script) /\ next' = next + 1
      /\ toClient' = IF link = "up" THEN toClient \o t ELSE toClient
      /\ UNCHANGED << client, link, toServer, status, durable >>
  BY <1>1 DEF DoStatement, Reply
<1>3. t \in Seq(Message) /\ NoReady(t) /\ \A k \in 1..Len(t) : t[k].of = "script"
  <2>1. done \in Message /\ done.kind # "ready" /\ done.of = "script"
    BY DEF Msg, Message, Commands
  <2>2. /\ Msg("row", "script", "T").kind # "ready"
        /\ Msg("row", "script", "T").of = "script"
    BY DEF Msg
  <2>. HIDE DEF done
  <2>3. << done >> \in Seq(Message) /\ Len(<< done >>) = 1 /\ << done >>[1] = done
    BY <2>1
  <2>4. /\ t \in Seq(Message)
        /\ \A k \in 1..Len(t) :
             \/ k \in 1..Len(Rows(n)) /\ t[k] = Rows(n)[k]
             \/ k - Len(Rows(n)) \in 1..Len(<< done >>) /\ t[k] = << done >>[k - Len(Rows(n))]
    BY <2>3, Behind, RowsShape
  <2>5. \A k \in 1..Len(t) : t[k] \in {Msg("row", "script", "T"), done}
    BY <2>3, <2>4, RowsShape
  <2>. QED  BY <2>1, <2>2, <2>4, <2>5 DEF NoReady
<1>. HIDE DEF t
<1>4. next # 0 /\ next' # 0 /\ next' \in 0..(Len(Script) + 1)
  BY <1>2, ScriptLength
<1>5. link # "none" /\ pc # "connect" /\ (link = "up" => pc # "end")
  BY <1>2, <1>4 DEF SessionInv, Places, InTouch
<1>6. link = "up" =>
        /\ toClient' \in Seq(Message) /\ pc = "script" /\ awaiting /\ status = "T"
        /\ toServer = << >> /\ NoReady(toClient')
        /\ \A k \in 1..Len(toClient') : toClient'[k].of = pc
  BY <1>2, <1>3, <1>4, <1>5, ScriptReply DEF NoReady
<1>7. Types' /\ Places'
  BY <1>1, <1>2, <1>4, <1>5, <1>6 DEF SessionInv, Types, Places, client
<1>8. InTouch'
  BY <1>2, <1>6 DEF InTouch, client
<1>9. ReadyMeans'
  <2>1. pc # "end" => NoReady(toClient')
    BY <1>2, <1>4, <1>6, Unheard
  <2>. QED  BY <1>2, <2>1 DEF NoReady, ReadyMeans, ReadyAt, client
<1>10. Stage' /\ Lost' /\ Honest'
  BY <1>2, <1>6 DEF SessionInv, Stage, Lost, Honest, Committing, Sent, client
<1>. QED  BY <1>7, <1>8, <1>9, <1>10 DEF SessionInv

\* The script is over: its READY_FOR_QUERY tells the transaction's status, which
\* is that of an open transaction unless an error comes before.
LEMMA ScriptOver ==
    ASSUME SessionInv, next # 0, next' = 0, status' \in {"T", "E"},
           UNCHANGED << client, link, toServer, durable, produced >>,
           NEW t \in Seq(Message), Len(t) # 0,
           toClient' = IF link = "up" THEN toClient \o t ELSE toClient,
           \A k \in 1..Len(t) : t[k].of = "script",
           \A k \in 1..Len(t) : t[k].kind = "ready" => k = Len(t),
           t[Len(t)].status = status',
           status' # "T" => \E k \in 1..(Len(t) - 1) : t[k].kind = "error"
    PROVE  SessionInv'
<1>1. link # "none" /\ pc # "connect" /\ (link = "up" => pc # "end" /\ ~durable)
  BY DEF SessionInv, Places, InTouch, Stage, Committing
<1>2. link = "up" =>
        /\ toClient' \in Seq(Message) /\ pc = "script" /\ awaiting /\ toServer = << >>
        /\ \A k \in 1..Len(toClient') : toClient'[k].of = pc
        /\ \A k \in 1..Len(toClient') : toClient'[k].kind = "ready" =>
              k = Len(toClient') /\ toClient'[k].status = status'
        /\ \A k \in 1..Len(t) :
              Len(toClient) + k \in 1..Len(toClient') /\ toClient'[Len(toClient) + k] = t[k]
        /\ Len(toClient') = Len(toClient) + Len(t)
        /\ Len(toClient) \in Nat /\ Len(t) \in Nat
  BY <1>1, ScriptReply
<1>3. next' \in 0..(Len(Script) + 1)
  BY ScriptLength
<1>4. Types'
  BY <1>2, <1>3 DEF SessionInv, Types, client
<1>5. Places'
  BY <1>1 DEF SessionInv, Places, client
<1>6. InTouch'
  BY <1>2 DEF InTouch, client
<1>7. ReadyMeans'
  <2>1. CASE link = "up"
    <3>. SUFFICES ASSUME NEW k \in 1..Len(toClient'), toClient'[k].kind = "ready"
                  PROVE  ReadyAt(k)'
      BY DEF ReadyMeans, ReadyAt
    <3>1. k = Len(toClient') /\ toClient'[k].status = status'
      BY <1>2, <2>1
    <3>2. Clean(k)' => status' = "T"
      <4>. SUFFICES ASSUME status' # "T" PROVE ~Clean(k)'
        OBVIOUS
      <4>1. PICK j \in 1..(Len(t) - 1) : t[j].kind = "error"
        OBVIOUS
      <4>2. Len(toClient) + j \in 1..(k - 1) /\ toClient'[Len(toClient) + j].kind = "error"
        BY <1>2, <2>1, <3>1, <4>1
      <4>. QED  BY <4>2 DEF Clean
    <3>3. \A j \in 1..Len(toClient') : toClient'[j].kind = "ready" => j = k
      BY <1>2, <2>1, <3>1
    <3>4. awaiting' /\ toServer' = << >> /\ next' = 0 /\ pc' = "script"
      BY <1>2, <2>1 DEF client
    <3>5. toClient'[k].status # "I"
      BY <3>1
    <3>. QED  BY <3>1, <3>2, <3>3, <3>4, <3>5 DEF ReadyAt
  <2>2. CASE link # "up"
    BY <2>2, Unheard DEF NoReady, ReadyMeans, ReadyAt, client
  <2>. QED  BY <2>1, <2>2
<1>8. Stage' /\ Lost' /\ Honest'
  BY <1>2 DEF SessionInv, Stage, Lost, Honest, Committing, Sent, client
<1>. QED  BY <1>4, <1>5, <1>6, <1>7, <1>8 DEF SessionInv

LEMMA EndStep == SessionInv /\ EndScript => SessionInv'
<1>. SUFFICES ASSUME SessionInv, EndScript PROVE SessionInv'
  OBVIOUS
<1>. DEFINE m == Msg("ready", "script", "T")
            t == << m >>
<1>1. m \in Message /\ m.of = "script" /\ m.status = "T"
  BY DEF Msg, Message, Commands
<1>2. /\ next = Len(Script) + 1 /\ next' = 0
      /\ toClient' = IF link = "up" THEN toClient \o t ELSE toClient
      /\ UNCHANGED << client, link, toServer, status, durable, produced >>
  BY DEF EndScript, Reply
<1>. HIDE DEF m
<1>3. t \in Seq(Message) /\ Len(t) = 1 /\ t[1] = m
  BY <1>1
<1>. HIDE DEF t
<1>4. next # 0
  BY <1>2, ScriptLength
<1>5. CASE status = "T"
  <2>1. /\ \A k \in 1..Len(t) : t[k].of = "script"
        /\ \A k \in 1..Len(t) : t[k].kind = "ready" => k = Len(t)
    BY <1>1, <1>3
  <2>2. /\ t[Len(t)].status = status' /\ status' = "T"
        /\ t \in Seq(Message) /\ Len(t) # 0
    BY <1>1, <1>2, <1>3, <1>5
  <2>. QED  BY <1>2, <1>4, <2>1, <2>2, ScriptOver
\* Nobody hears of it: the status may be any.
<1>6. CASE status # "T"
  <2>1. link # "up"
    BY <1>4, <1>6 DEF SessionInv, InTouch
  <2>2. link = "down" /\ (pc # "end" => NoReady(toClient))
    BY <1>4, <2>1, Unheard
  <2>3. Types' /\ Places'
    BY <1>2, <2>2, ScriptLength DEF SessionInv, Types, Places, client
  <2>4. InTouch' /\ ReadyMeans'
    BY <1>2, <2>2 DEF InTouch, ReadyMeans, ReadyAt, NoReady, client
  <2>5. Stage' /\ Lost' /\ Honest'
    BY <1>2, <2>2 DEF SessionInv, Stage, Lost, Honest, Committing, Sent, client
  <2>. QED  BY <2>3, <2>4, <2>5 DEF SessionInv
<1>. QED  BY <1>5, <1>6

LEMMA FailStep == SessionInv /\ FailStatement => SessionInv'
<1>. SUFFICES ASSUME SessionInv, FailStatement PROVE SessionInv'
  OBVIOUS
<1>. DEFINE m1 == Msg("error", "script", "T")
            m2 == Msg("ready", "script", "E")
<1>1. PICK n \in Nat : Reply(Rows(n) \o << m1, m2 >>)
  <2>1. PICK n \in IF Script[next] = "select" THEN 0..MaxRows ELSE {0} :
               Reply(Rows(n) \o << m1, m2 >>)
    BY DEF FailStatement, Rows
  <2>2. n \in Nat
    BY <2>1, SessionAssumption
  <2>. QED  BY <2>1, <2>2
<1>. DEFINE t == Rows(n) \o << m1, m2 >>
<1>2. /\ next # 0 /\ next' = 0 /\ status' = "E"
      /\ toClient' = IF link = "up" THEN toClient \o t ELSE toClient
      /\ UNCHANGED << client, link, toServer, durable, produced >>
  <2>1. next # 0
    BY ScriptLength DEF FailStatement
  <2>2. toClient' = IF link = "up" THEN toClient \o t ELSE toClient
    BY <1>1 DEF Reply
  <2>. QED  BY <2>1, <2>2 DEF FailStatement
<1>3. /\ m1 \in Message /\ m2 \in Message /\ m1.kind = "error" /\ m1.of = "script"
      /\ m2.of = "script" /\ m2.status = "E"
  BY DEF Msg, Message, Commands
<1>4. Msg("row", "script", "T").kind = "row" /\ Msg("row", "script", "T").of = "script"
  BY DEF Msg
<1>. HIDE DEF m1, m2
<1>5. /\ << m1, m2 >> \in Seq(Message) /\ Len(<< m1, m2 >>) = 2
      /\ << m1, m2 >>[1] = m1 /\ << m1, m2 >>[2] = m2
  BY <1>3
<1>6. /\ t \in Seq(Message) /\ Len(t) = n + 2 /\ t[n + 1] = m1 /\ t[n + 2] = m2
      /\ \A k \in 1..n : t[k] = Msg("row", "script", "T")
  <2>1. /\ Rows(n) \in Seq(Message) /\ Len(Rows(n)) = n
        /\ \A k \in 1..n : Rows(n)[k] = Msg("row", "script", "T")
    BY RowsShape
  <2>2. /\ t \in Seq(Message) /\ Len(t) = Len(Rows(n)) + Len(<< m1, m2 >>)
        /\ \A k \in 1..Len(Rows(n)) : t[k] = Rows(n)[k]
        /\ \A k \in 1..Len(<< m1, m2 >>) : t[Len(Rows(n)) + k] = << m1, m2 >>[k]
    BY <1>5, <2>1, Behind
  <2>. HIDE DEF t
  <2>3. t[n + 1] = m1 /\ t[n + 2] = m2
    BY <1>5, <2>1, <2>2
  <2>. QED  BY <1>5, <2>1, <2>2, <2>3
<1>. HIDE DEF t
<1>7. \A k \in 1..Len(t) : k \in 1..n \/ k = n + 1 \/ k = n + 2
  BY <1>6
<1>8. /\ \A k \in 1..Len(t) : t[k].of = "script"
      /\ \A k \in 1..Len(t) : t[k].kind = "ready" => k = Len(t)
  BY <1>3, <1>4, <1>6, <1>7
<1>9. Len(t) # 0 /\ t[Len(t)].status = status'
      /\ \E k \in 1..(Len(t) - 1) : t[k].kind = "error"
  <2>1. n + 1 \in 1..(Len(t) - 1)
    BY <1>6
  <2>. QED  BY <1>2, <1>3, <1>6, <2>1
<1>. QED  BY <1>2, <1>6, <1>8, <1>9, ScriptOver

\* A transaction ends.  Its READY_FOR_QUERY comes without an error exactly when a
\* commit took effect.
LEMMA Over ==
    ASSUME SessionInv, NEW c \in {"commit", "rollback"}, NEW kind \in {"complete", "error"},
           Received(c), status' = "I",
           Reply(<< Msg(kind, c, "I"), Msg("ready", c, "I") >>),
           UNCHANGED << client, link, next, produced >>,
           durable' = IF c = "commit" /\ kind = "complete" THEN durable \/ status = "T" ELSE durable
    PROVE  SessionInv'
<1>. DEFINE m1 == Msg(kind, c, "I")
            m2 == Msg("ready", c, "I")
<1>1. /\ toServer = << c >> /\ toServer' = << >> /\ next = 0
      /\ toClient' = IF link = "up" THEN toClient \o << m1, m2 >> ELSE toClient
  <2>1. c \in Commands
    BY DEF Commands
  <2>. QED  BY <2>1, Taken DEF Reply
<1>2. /\ m1 \in Message /\ m2 \in Message /\ m1.kind = kind /\ m2.kind = "ready"
      /\ m2.status = "I" /\ m1.of = c /\ m2.of = c
  BY DEF Msg, Message, Commands
<1>. HIDE DEF m1, m2
<1>3. link # "none" /\ pc # "connect"
  BY <1>1 DEF SessionInv, Places
<1>4. link = "up" => /\ toClient' = << m1, m2 >> /\ Len(toClient') = 2 /\ pc = c
                     /\ awaiting /\ ~error /\ (c = "commit" => status = "T")
  <2>1. link = "up" => /\ toClient = << >> /\ pc = c /\ awaiting /\ ~error
                       /\ (c = "commit" => status = "T")
    BY <1>1 DEF SessionInv, InTouch, Sent
  <2>. QED  BY <1>1, <1>2, <2>1, Answered
<1>5. c = "commit" => ~durable
  BY <1>1 DEF SessionInv, Stage, Sent
<1>6. toClient' \in Seq(Message)
  BY <1>1, <1>2, <1>4 DEF SessionInv, Types
<1>7. durable' \in BOOLEAN /\ (durable => durable') /\ (durable' /\ ~durable => c = "commit")
  BY DEF SessionInv, Types
<1>8. Types'
  BY <1>1, <1>6, <1>7 DEF SessionInv, Types, client
<1>9. Places'
  BY <1>1, <1>3 DEF SessionInv, Places, client
<1>10. InTouch'
  BY <1>1, <1>2, <1>4 DEF InTouch, client
<1>11. ReadyMeans'
  <2>1. CASE link = "up"
    <3>1. toClient'[1] = m1 /\ toClient'[2] = m2
      BY <1>4, <2>1
    <3>2. \A j \in 1..Len(toClient') : toClient'[j].kind = "ready" => j = 2
      <4>1. Len(toClient') = 2 /\ 1..2 = {1, 2}
        BY <1>4, <2>1
      <4>2. m1.kind # "ready"
        BY <1>2
      <4>. QED  BY <1>2, <3>1, <4>1, <4>2
    <3>3. Clean(2)' <=> kind = "complete"
      <4>1. ~error' /\ 1..(2 - 1) = {1}
        BY <1>4, <2>1 DEF client
      <4>. QED  BY <1>2, <3>1, <4>1 DEF Clean
    <3>4. c = "commit" => (durable' <=> kind = "complete")
      BY <1>4, <1>5, <2>1
    <3>5. ReadyAt(2)'
      BY <1>1, <1>2, <1>4, <2>1, <3>1, <3>2, <3>3, <3>4 DEF ReadyAt, client
    <3>6. ASSUME NEW k \in 1..Len(toClient') PROVE ReadyAt(k)'
      <4>1. CASE k = 2
        BY <3>5, <4>1
      <4>2. CASE k # 2
        BY <3>2, <4>2 DEF ReadyAt
      <4>. QED  BY <4>1, <4>2
    <3>. QED  BY <3>6 DEF ReadyMeans
  <2>2. CASE link # "up"
    BY <1>1, <2>2, Unheard DEF NoReady, ReadyMeans, ReadyAt, client
  <2>. QED  BY <2>1, <2>2
<1>12. Committing' => Committing
  BY <1>1, <1>7 DEF Committing, Sent
<1>13. Stage'
  BY <1>1, <1>12 DEF SessionInv, Stage, Sent, client
<1>14. Lost'
  <2>1. Lost
    BY DEF SessionInv
  <2>. QED  BY <1>1, <1>12, <2>1 DEF Lost, client
<1>15. Honest'
  BY <1>7, <1>12 DEF SessionInv, Honest, client
<1>. QED  BY <1>8, <1>9, <1>10, <1>11, <1>13, <1>14, <1>15 DEF SessionInv

LEMMA OverStep == SessionInv /\ (DoCommit \/ FailCommit \/ DoRollback) => SessionInv'
<1>. SUFFICES ASSUME SessionInv, DoCommit \/ FailCommit \/ DoRollback PROVE SessionInv'
  OBVIOUS
<1>1. CASE DoCommit
  BY <1>1, Over DEF DoCommit
<1>2. CASE FailCommit
  BY <1>2, Over DEF FailCommit
<1>3. CASE DoRollback
  BY <1>3, Over DEF DoRollback
<1>. QED  BY <1>1, <1>2, <1>3

LEMMA DisconnectedStep == SessionInv /\ Disconnected => SessionInv'
<1>. SUFFICES ASSUME SessionInv, Disconnected PROVE SessionInv'
  OBVIOUS
<1>1. /\ link = "down" /\ status' = "I" /\ next' = 0 /\ toServer' = << >>
      /\ UNCHANGED << client, link, toClient, durable, produced >>
  BY DEF Disconnected
<1>2. Types'
  BY <1>1, ScriptLength DEF SessionInv, Types, client
<1>3. Places'
  BY <1>1 DEF SessionInv, Places, client
<1>4. InTouch'
  BY <1>1 DEF InTouch
<1>5. ReadyMeans'
  <2>. SUFFICES ASSUME pc # "end", NEW k \in 1..Len(toClient) PROVE ReadyAt(k)'
    BY <1>1 DEF ReadyMeans, client
  <2>1. ReadyAt(k)
    BY DEF SessionInv, ReadyMeans
  <2>2. Clean(k)' <=> Clean(k)
    BY <1>1 DEF Clean, client
  <2>. QED  BY <1>1, <2>1, <2>2 DEF ReadyAt, client
<1>6. Stage' /\ Lost' /\ Honest'
  BY <1>1 DEF SessionInv, Stage, Lost, Honest, Committing, Sent, client
<1>. QED  BY <1>2, <1>3, <1>4, <1>5, <1>6 DEF SessionInv

\* A part of what is on its way arrives, perhaps with an error behind it: no
\* message has another before it than it had.
LEMMA BreakStep == SessionInv /\ Break => SessionInv'
<1>. SUFFICES ASSUME SessionInv, Break PROVE SessionInv'
  OBVIOUS
<1>. DEFINE fatal == Msg("error", "script", "T")
<1>1. PICK n \in 0..Len(toClient), last \in {<< >>, << fatal >>} :
          toClient' = SubSeq(toClient, 1, n) \o last
  BY DEF Break
<1>2. link = "up" /\ link' = "down" /\ UNCHANGED << client, toServer, backend >>
  BY DEF Break
<1>3. fatal \in Message /\ fatal.kind = "error"
  BY DEF Msg, Message, Commands
<1>. HIDE DEF fatal
<1>4. last \in Seq(Message) /\ \A k \in 1..Len(last) : last[k].kind # "ready"
  <2>1. CASE last = << >>
    BY <2>1
  <2>2. CASE last = << fatal >>
    BY <1>3, <2>2
  <2>. QED  BY <2>1, <2>2
<1>. DEFINE s == SubSeq(toClient, 1, n)
<1>5. /\ s \in Seq(Message) /\ Len(s) = n /\ n \in Nat /\ n <= Len(toClient)
      /\ Len(toClient) \in Nat
      /\ \A k \in 1..n : s[k] = toClient[k]
  <2>1. toClient \in Seq(Message) /\ Len(toClient) \in Nat
    BY LenProperties DEF SessionInv, Types
  <2>2. \A k \in 1..n : toClient[k] \in Message
    BY <2>1, ElementOfSeq
  <2>3. /\ s \in Seq(Message) /\ Len(s) = IF 1 <= n THEN n - 1 + 1 ELSE 0
        /\ \A k \in 1..(n - 1 + 1) : s[k] = toClient[1 + k - 1]
    BY <2>2, SubSeqProperties
  <2>. HIDE DEF s
  <2>. QED  BY <2>1, <2>3
<1>. HIDE DEF s
<1>6. /\ toClient' \in Seq(Message)
      /\ \A k \in 1..n : toClient'[k] = toClient[k]
      /\ \A k \in 1..Len(toClient') : toClient'[k].kind = "ready" => k \in 1..n
      /\ n <= Len(toClient')
  <2>0. toClient' = s \o last
    BY <1>1 DEF s
  <2>1. /\ s \o last \in Seq(Message) /\ Len(s \o last) = n + Len(last) /\ Len(last) \in Nat
        /\ \A k \in 1..n : (s \o last)[k] = s[k]
        /\ \A k \in 1..Len(s \o last) :
              \/ k \in 1..n
              \/ k - n \in 1..Len(last) /\ (s \o last)[k] = last[k - n]
    BY <1>4, <1>5, Behind
  <2>. QED  BY <1>4, <1>5, <2>0, <2>1
<1>7. pc # "connect" /\ link # "none"
  BY <1>2 DEF SessionInv, Places
<1>8. Types'
  BY <1>2, <1>6 DEF SessionInv, Types, client, backend
<1>9. Places'
  BY <1>2, <1>7 DEF SessionInv, Places, client, backend
<1>10. InTouch'
  BY <1>2 DEF InTouch
<1>11. ReadyMeans'
  <2>. SUFFICES ASSUME pc # "end", NEW k \in 1..Len(toClient'), toClient'[k].kind = "ready"
                PROVE  ReadyAt(k)'
    BY <1>2 DEF ReadyMeans, ReadyAt, client
  <2>1. k \in 1..n /\ k \in 1..Len(toClient) /\ toClient'[k] = toClient[k]
    BY <1>5, <1>6
  <2>2. ReadyAt(k)
    BY <2>1 DEF SessionInv, ReadyMeans
  <2>3. Clean(k)' <=> Clean(k)
    <3>1. \A j \in 1..(k - 1) : toClient'[j] = toClient[j]
      BY <1>5, <1>6, <2>1
    <3>. QED  BY <1>2, <3>1 DEF Clean, client
  <2>4. \A j \in 1..Len(toClient') : toClient'[j].kind = "ready" => j = k
    <3>1. \A j \in 1..Len(toClient) : toClient[j].kind = "ready" => j = k
      BY <2>1, <2>2 DEF ReadyAt
    <3>2. \A j \in 1..n : j \in 1..Len(toClient)
      BY <1>5
    <3>. QED  BY <1>6, <3>1, <3>2
  <2>. QED  BY <1>2, <2>1, <2>2, <2>3, <2>4 DEF ReadyAt, client, backend
<1>12. Lost'
  <2>1. ~(pc = "rollback" /\ Committing)
    BY <1>2 DEF SessionInv, Lost
  <2>. QED  BY <1>2, <2>1 DEF Lost, Committing, Sent, client, backend
<1>13. Stage' /\ Honest'
  BY <1>2 DEF SessionInv, Stage, Honest, Committing, Sent, client, backend
<1>. QED  BY <1>8, <1>9, <1>10, <1>11, <1>12, <1>13 DEF SessionInv

-----------------------------------------------------------------------------

LEMMA Kept == SessionInv /\ [Next]_vars => SessionInv'
<1>. SUFFICES ASSUME SessionInv, [Next]_vars PROVE SessionInv'
  OBVIOUS
<1>1. CASE ClientStep \/ ConnectFails \/ Killed
  BY <1>1, ConnectStep, SendStep, ReadStep, ReadyStep, BrokenStep, LocalStep DEF ClientStep
<1>2. CASE ServerStep \/ Break
  BY <1>2, BeginStep, TakeStep, StatementStep, FailStep, EndStep, OverStep, DisconnectedStep,
     BreakStep DEF ServerStep
<1>3. CASE Finished \/ UNCHANGED vars
  <2>1. UNCHANGED << call, pc, awaiting, error, inTx, cached, result, answer, link, toServer,
                     toClient, status, next, durable, produced >>
    BY <1>3 DEF Finished, vars, client, backend
  <2>. QED  BY <2>1 DEF SessionInv, Types, Places, InTouch, NoReady, ReadyMeans, ReadyAt, Clean,
                        Stage, Lost, Honest, Committing, Sent
<1>. QED  BY <1>1, <1>2, <1>3 DEF Next

LEMMA Invariance == Spec => []SessionInv
  BY Start, Kept, PTL DEF Spec

\* The client reads the answer to the command it sent last, and in_transaction is
\* the backend's status between commands, for any script (pg8000 core.py,
\* handle_messages; postgres_utils.py:21-61).
THEOREM StaysInStep == Spec => []InStep
<1>1. SessionInv => InStep
  <2>. SUFFICES ASSUME SessionInv PROVE InStep
    OBVIOUS
  <2>1. toServer \in Seq(Commands) /\ Len(toServer) =< 1
    <3>1. CASE toServer = << >>
      BY <3>1
    <3>2. CASE toServer \in {<< c >> : c \in Commands}
      <4>1. PICK c \in Commands : toServer = << c >>
        BY <3>2
      <4>. QED  BY <4>1
    <3>. QED  BY <3>1, <3>2 DEF SessionInv, Types
  <2>2. TypeOK
    BY <2>1 DEF SessionInv, Types, TypeOK
  <2>3. link = "up" /\ ~awaiting => toClient = << >>
    BY DEF SessionInv, InTouch
  <2>. QED  BY <2>2, <2>3 DEF SessionInv, InTouch, InStep
<1>. QED  BY <1>1, Invariance, PTL

\* The script happens once and entirely or not at all, and the answer says which:
\* every step of a session is one of AtomicCall, or none of it (postgres_utils.py
\* :21-61).
THEOREM CallImplemented == Spec => ImplementsCall
<1>1. Init => Call!Init
  BY DEF Init, Call!Init
<1>2. SessionInv /\ [Next]_vars
        => [Call!Happen \/ Call!Answer]_<< durable, IF answer = "returned" THEN result
               ELSE IF answer = "raised" THEN "raised" ELSE "none" >>
  <2>. DEFINE told == IF answer = "returned" THEN result
                      ELSE IF answer = "raised" THEN "raised" ELSE "none"
  <2>. SUFFICES ASSUME SessionInv, [Next]_vars
                PROVE  [Call!Happen \/ Call!Answer]_<< durable, told >>
    OBVIOUS
  <2>1. CASE UNCHANGED << durable, answer, result >>
    BY <2>1
  \* The call ends.
  <2>2. CASE ConnectFails \/ Close \/ Killed
    <3>1. /\ UNCHANGED << durable, result >> /\ answer = "none"
          /\ answer' \in {"raised", "returned"}
          /\ answer' = "returned" => result # "none"
      BY <2>2 DEF ConnectFails, Close, Killed, SessionInv, Places, backend
    <3>2. result = "true" => durable
      BY DEF SessionInv, Honest
    <3>3. result = "false" => ~durable
      BY DEF SessionInv, Honest, Committing
    <3>4. told = "none" /\ told' \in {"raised", "true", "false"}
          /\ (told' = "true" => durable) /\ (told' = "false" => ~durable)
      BY <3>1, <3>2, <3>3 DEF SessionInv, Types
    <3>5. Call!Answer
      BY <3>1, <3>4 DEF Call!Answer
    <3>. QED  BY <3>5
  \* The commit takes effect, while the call runs or after it raised.
  <2>3. CASE DoCommit
    <3>1. UNCHANGED << result, answer >> /\ durable' = (durable \/ status = "T")
      BY <2>3 DEF DoCommit, client
    <3>2. toServer = << "commit" >>
      BY <2>3, Taken DEF DoCommit, Commands
    <3>3. ~durable /\ result = "none"
      <4>1. Committing /\ ~durable
        BY <3>2 DEF SessionInv, Stage, Committing, Sent
      <4>. QED  BY <4>1 DEF SessionInv, Honest, Types
    <3>4. CASE durable'
      <4>1. told \in {"none", "raised"} /\ told' = told
        BY <3>1, <3>3 DEF SessionInv, Places, Types
      <4>2. Call!Happen
        BY <3>3, <3>4, <4>1 DEF Call!Happen, SessionInv, Types
      <4>. QED  BY <4>2
    <3>5. CASE ~durable'
      BY <3>1, <3>5 DEF SessionInv, Types
    <3>. QED  BY <3>4, <3>5
  \* Before it ends, nothing is told.
  <2>4. CASE Ready \/ SkipRollback \/ Fetch
    <3>1. UNCHANGED << durable, answer >> /\ pc # "end"
      BY <2>4 DEF Ready, SkipRollback, Fetch, backend, SessionInv, Places, Commands
    <3>2. answer = "none"
      BY <3>1 DEF SessionInv, Places
    <3>. QED  BY <3>1, <3>2
  <2>5. CASE Connect \/ SendNext \/ Read \/ ReadBroken \/ Break
    BY <2>1, <2>5 DEF Connect, SendNext, Send, Read, ReadBroken, Break, backend, client
  <2>6. CASE \/ DoBegin \/ TakeScript \/ DoStatement \/ FailStatement \/ EndScript
             \/ FailCommit \/ DoRollback \/ Disconnected
    BY <2>1, <2>6 DEF DoBegin, TakeScript, DoStatement, FailStatement, EndScript, FailCommit,
                      DoRollback, Disconnected, client
  <2>7. CASE Finished \/ UNCHANGED vars
    BY <2>1, <2>7 DEF Finished, vars, client, backend
  <2>. QED  BY <2>2, <2>3, <2>4, <2>5, <2>6, <2>7 DEF Next, ClientStep, ServerStep
<1>. QED  BY <1>1, <1>2, Invariance, PTL DEF Spec, ImplementsCall, Call!Spec

-----------------------------------------------------------------------------
(***************************************************************************)
(* No row is lost.  Every row the script's selects returned is either in   *)
(* the cursor or still on its way (Running), up to the READY_FOR_QUERY     *)
(* that ends the script (Ran): nothing else fills or clears the cursor     *)
(* before the fetch (Settled).                                             *)
(***************************************************************************)

\* The rows among messages, and their number.
RowsOf(s) == {k \in 1..Len(s) : s[k].kind = "row"}
Arriving(s) == Cardinality(RowsOf(s))

\* The client meets no error in what is on its way.
NoError == ~error /\ \A k \in 1..Len(toClient) : toClient[k].kind # "error"

\* Nothing is produced before the script runs, and nothing cached.
Early ==
    /\ link # "down" /\ (\/ pc \in {"connect", "begin"}
                         \/ pc = "script" /\ (~awaiting \/ toServer # << >>)) => produced = 0
    /\ link = "up" /\ pc = "script" /\ toServer # << >> => cached = 0

\* While the script runs.
Running == link = "up" /\ next # 0 /\ NoError => cached + Arriving(toClient) = produced

\* When it is over.
RanAt(k) ==
    /\ pc = "script" /\ Clean(k) => cached + Arriving(toClient) = produced
    /\ \A j \in 1..Len(toClient) : j > k => toClient[j].kind # "row"
Ran == pc # "end" => \A k \in 1..Len(toClient) : toClient[k].kind = "ready" => RanAt(k)

\* From there to the fetch, and after it.
Fetching == pc \in {"commit", "fetch"} \/ (pc = "close" /\ result = "true")
Settled ==
    Fetching =>
      /\ cached = produced /\ next = 0 /\ ~Sent("script")
      /\ \A k \in 1..Len(toClient) : toClient[k].kind # "row"

\* A query without a result has failed.
Told == pc = "close" /\ call = "query" /\ result = "none" => error

RowsInv == Early /\ Running /\ Ran /\ Settled /\ Told

\* Moving numbers changes how many they are as little as one expects.
LEMMA Moved ==
    ASSUME NEW S \in SUBSET Nat, IsFiniteSet(S), NEW c \in Nat
    PROVE  IsFiniteSet({k + c : k \in S}) /\ Cardinality({k + c : k \in S}) = Cardinality(S)
<1>. DEFINE T == {k + c : k \in S}
            f == [k \in S |-> k + c]
<1>1. f \in [S -> T]
  OBVIOUS
<1>2. \A x, y \in S : f[x] = f[y] => x = y
  <2>1. \A x, y \in S : x + c = y + c => x = y
    <3>1. \A x, y \in Nat : x + c = y + c => x = y
      OBVIOUS
    <3>. QED  BY <3>1, Zenon
  <2>. QED  BY <2>1
<1>3. \A y \in T : \E x \in S : f[x] = y
  OBVIOUS
<1>4. f \in Bijection(S, T)
  BY <1>1, <1>2, <1>3 DEF Bijection, Injection, Surjection, IsInjective
<1>5. ExistsBijection(S, T)
  BY <1>4 DEF ExistsBijection
<1>. QED  BY <1>5, FS_Bijection

LEMMA Counted ==
    ASSUME NEW s \in Seq(Message)
    PROVE  IsFiniteSet(RowsOf(s)) /\ Arriving(s) \in Nat /\ RowsOf(s) \in SUBSET (1..Len(s))
<1>1. Len(s) \in Nat /\ IsFiniteSet(1..Len(s))
  BY LenProperties, FS_Interval
<1>2. RowsOf(s) \in SUBSET (1..Len(s))
  BY DEF RowsOf
<1>3. IsFiniteSet(RowsOf(s))
  BY <1>1, <1>2, FS_Subset
<1>. QED  BY <1>2, <1>3, FS_CardinalityType DEF Arriving

\* What arrives of two parts.
LEMMA Together ==
    ASSUME NEW s \in Seq(Message), NEW t \in Seq(Message)
    PROVE  Arriving(s \o t) = Arriving(s) + Arriving(t)
<1>. DEFINE T == {k + Len(s) : k \in RowsOf(t)}
<1>1. /\ s \o t \in Seq(Message) /\ Len(s) \in Nat /\ Len(t) \in Nat
      /\ Len(s \o t) = Len(s) + Len(t)
      /\ \A k \in 1..Len(s) : (s \o t)[k] = s[k]
      /\ \A k \in 1..Len(t) : (s \o t)[Len(s) + k] = t[k]
      /\ \A k \in 1..Len(s \o t) :
            \/ k \in 1..Len(s) /\ (s \o t)[k] = s[k]
            \/ k - Len(s) \in 1..Len(t) /\ (s \o t)[k] = t[k - Len(s)]
  BY Behind
<1>2. RowsOf(s \o t) = RowsOf(s) \cup T
  <2>1. ASSUME NEW k \in RowsOf(s \o t) PROVE k \in RowsOf(s) \cup T
    <3>1. k \in 1..Len(s \o t) /\ (s \o t)[k].kind = "row"
      BY DEF RowsOf
    <3>2. CASE k \in 1..Len(s) /\ (s \o t)[k] = s[k]
      BY <3>1, <3>2 DEF RowsOf
    <3>3. CASE k - Len(s) \in 1..Len(t) /\ (s \o t)[k] = t[k - Len(s)]
      <4>1. k - Len(s) \in RowsOf(t)
        BY <3>1, <3>3 DEF RowsOf
      <4>2. k = (k - Len(s)) + Len(s)
        BY <1>1, <3>1
      <4>. QED  BY <4>1, <4>2
    <3>. QED  BY <1>1, <3>1, <3>2, <3>3
  <2>2. ASSUME NEW k \in RowsOf(s) PROVE k \in RowsOf(s \o t)
    <3>1. k \in 1..Len(s) /\ s[k].kind = "row"
      BY DEF RowsOf
    <3>2. k \in 1..Len(s \o t) /\ (s \o t)[k] = s[k]
      BY <1>1, <3>1
    <3>. QED  BY <3>1, <3>2 DEF RowsOf
  <2>3. ASSUME NEW k \in RowsOf(t) PROVE k + Len(s) \in RowsOf(s \o t)
    <3>1. k \in 1..Len(t) /\ t[k].kind = "row"
      BY DEF RowsOf
    <3>2. k + Len(s) \in 1..Len(s \o t) /\ k + Len(s) = Len(s) + k
      BY <1>1, <3>1
    <3>3. (s \o t)[k + Len(s)] = t[k]
      BY <1>1, <3>1, <3>2
    <3>. QED  BY <3>1, <3>2, <3>3 DEF RowsOf
  <2>. QED  BY <2>1, <2>2, <2>3
<1>3. /\ IsFiniteSet(RowsOf(s)) /\ Arriving(s) \in Nat /\ RowsOf(s) \in SUBSET (1..Len(s))
      /\ IsFiniteSet(RowsOf(t)) /\ Arriving(t) \in Nat /\ RowsOf(t) \in SUBSET (1..Len(t))
  BY Counted
<1>4. IsFiniteSet(T) /\ Cardinality(T) = Cardinality(RowsOf(t))
  <2>1. RowsOf(t) \in SUBSET Nat
    BY <1>1, <1>3
  <2>. QED  BY <1>1, <1>3, <2>1, Moved
<1>5. RowsOf(s) \cap T = {}
  <2>1. ASSUME NEW k \in RowsOf(t) PROVE k + Len(s) \notin RowsOf(s)
    <3>1. k \in 1..Len(t)
      BY <1>3
    <3>2. k + Len(s) \notin 1..Len(s)
      BY <1>1, <3>1
    <3>. QED  BY <1>3, <3>2
  <2>. QED  BY <2>1
<1>. HIDE DEF T
<1>6. Cardinality(RowsOf(s) \cup T) = Cardinality(RowsOf(s)) + Cardinality(T)
  <2>1. Cardinality(RowsOf(s) \cap T) = 0
    BY <1>5, FS_EmptySet
  <2>2. Cardinality(RowsOf(s)) \in Nat /\ Cardinality(T) \in Nat
    BY <1>3, <1>4 DEF Arriving
  <2>3. Cardinality(RowsOf(s) \cup T)
          = Cardinality(RowsOf(s)) + Cardinality(T) - Cardinality(RowsOf(s) \cap T)
    BY <1>3, <1>4, FS_Union
  <2>. QED  BY <2>1, <2>2, <2>3
<1>. QED  BY <1>2, <1>4, <1>6 DEF Arriving

LEMMA NoRows ==
    ASSUME NEW s, \A k \in 1..Len(s) : s[k].kind # "row"
    PROVE  Arriving(s) = 0
<1>1. RowsOf(s) = {}
  BY DEF RowsOf
<1>. QED  BY <1>1, FS_EmptySet DEF Arriving

LEMMA RowsCounted == ASSUME NEW n \in Nat PROVE Arriving(Rows(n)) = n
<1>1. RowsOf(Rows(n)) = 1..n
  <2>1. Msg("row", "script", "T").kind = "row"
    BY DEF Msg
  <2>. QED  BY <2>1, RowsShape DEF RowsOf
<1>2. Cardinality(1..n) = n
  <2>1. Cardinality(1..n) = IF 1 > n THEN 0 ELSE n - 1 + 1
    BY FS_Interval
  <2>. QED  BY <2>1
<1>. QED  BY <1>1, <1>2 DEF Arriving

\* The client handles a message: a row is one less on its way.
LEMMA OneLess ==
    ASSUME NEW s \in Seq(Message), s # << >>
    PROVE  Arriving(s) = Arriving(Tail(s)) + IF Head(s).kind = "row" THEN 1 ELSE 0
<1>. DEFINE h == << Head(s) >>
<1>1. /\ Head(s) \in Message /\ Tail(s) \in Seq(Message) /\ Len(s) \in Nat \ {0}
      /\ Len(Tail(s)) = Len(s) - 1 /\ Head(s) = s[1]
      /\ \A k \in 1..Len(Tail(s)) : Tail(s)[k] = s[k + 1]
  BY EmptySeq, HeadTailProperties
<1>2. h \in Seq(Message) /\ Len(h) = 1 /\ h[1] = Head(s)
  BY <1>1
<1>3. h \o Tail(s) = s
  <2>1. /\ h \o Tail(s) \in Seq(Message) /\ Len(h \o Tail(s)) = Len(h) + Len(Tail(s))
        /\ \A k \in 1..Len(h) : (h \o Tail(s))[k] = h[k]
        /\ \A k \in 1..Len(Tail(s)) : (h \o Tail(s))[Len(h) + k] = Tail(s)[k]
    BY <1>1, <1>2, Behind
  <2>. HIDE DEF h
  <2>2. Len(h \o Tail(s)) = Len(s)
    BY <1>1, <1>2, <2>1
  <2>3. ASSUME NEW k \in 1..Len(s) PROVE (h \o Tail(s))[k] = s[k]
    <3>1. CASE k = 1
      BY <1>1, <1>2, <2>1, <3>1
    <3>2. CASE k # 1
      <4>1. k - 1 \in 1..Len(Tail(s)) /\ Len(h) + (k - 1) = k /\ (k - 1) + 1 = k
        BY <1>1, <1>2, <3>2
      <4>. QED  BY <1>1, <2>1, <4>1
    <3>. QED  BY <3>1, <3>2
  <2>. QED  BY <2>1, <2>2, <2>3, SeqEqual
<1>4. Arriving(h) = IF Head(s).kind = "row" THEN 1 ELSE 0
  <2>. HIDE DEF h
  <2>1. 1..1 = {1}
    OBVIOUS
  <2>2. CASE Head(s).kind = "row"
    <3>1. RowsOf(h) = {1}
      BY <1>2, <2>1, <2>2 DEF RowsOf
    <3>. QED  BY <2>2, <3>1, FS_Singleton DEF Arriving
  <2>3. CASE Head(s).kind # "row"
    BY <1>2, <2>1, <2>3, NoRows
  <2>. QED  BY <2>2, <2>3
<1>5. Arriving(h \o Tail(s)) = Arriving(h) + Arriving(Tail(s))
  BY <1>1, <1>2, Together
<1>6. Arriving(Tail(s)) \in Nat
  BY <1>1, Counted
<1>7. Arriving(s) = Arriving(h) + Arriving(Tail(s))
  BY <1>3, <1>5
<1>8. CASE Head(s).kind = "row"
  <2>1. Arriving(h) = 1
    BY <1>4, <1>8
  <2>. HIDE DEF h
  <2>. QED  BY <1>6, <1>7, <1>8, <2>1
<1>9. CASE Head(s).kind # "row"
  <2>1. Arriving(h) = 0
    BY <1>4, <1>9
  <2>. HIDE DEF h
  <2>. QED  BY <1>6, <1>7, <1>9, <2>1
<1>. QED  BY <1>8, <1>9

LEMMA RowsStart == Init => RowsInv
<1>. SUFFICES ASSUME Init PROVE RowsInv
  OBVIOUS
<1>1. Len(toClient) = 0
  BY EmptySeq DEF Init
<1>. QED  BY <1>1 DEF Init, RowsInv, Early, Running, Ran, Settled, Fetching, Told

\* The client moves on, or the call ends, with nothing read or produced.
LEMMA MovesKeepRows ==
    ASSUME SessionInv, RowsInv,
           Connect \/ ConnectFails \/ SkipRollback \/ Fetch \/ Close \/ Killed
    PROVE  RowsInv'
<1>1. UNCHANGED << error, cached, toServer, toClient, status, next, produced, call >>
  BY DEF Connect, ConnectFails, SkipRollback, Fetch, Close, Killed, backend
<1>2. CASE ConnectFails \/ Close \/ Killed
  <2>1. pc' = "end" /\ link' # "up"
    BY <1>2 DEF ConnectFails, Close, Killed, SessionInv, Types, Places
  <2>. QED  BY <2>1 DEF RowsInv, Early, Running, Ran, Settled, Fetching, Told
<1>3. CASE Connect
  <2>1. /\ pc = "connect" /\ pc' = "begin" /\ link = "none" /\ link' = "up"
        /\ Len(toClient) = 0 /\ next = 0 /\ UNCHANGED awaiting
    BY <1>3, EmptySeq DEF Connect, SessionInv, Places
  <2>. QED  BY <1>1, <2>1 DEF RowsInv, Early, Running, Ran, Settled, Fetching, Told
<1>4. CASE SkipRollback \/ Fetch
  <2>1. /\ pc' = "close" /\ pc \in {"rollback", "fetch"} /\ ~awaiting /\ UNCHANGED link
        /\ result' = "true" => pc = "fetch"
        /\ result' # "none"
    BY <1>4 DEF SkipRollback, Fetch, SessionInv, Places, Commands
  <2>2. \A k \in 1..Len(toClient) : toClient[k].kind # "ready"
    BY <2>1 DEF SessionInv, ReadyMeans, ReadyAt
  <2>3. Early' /\ Told'
    BY <2>1 DEF Early, Told
  <2>4. Running'
    BY <1>1, <2>1 DEF RowsInv, Running, NoError
  <2>5. Ran'
    BY <1>1, <2>2 DEF Ran
  <2>6. Settled'
    BY <1>1, <2>1 DEF RowsInv, Settled, Fetching, Sent
  <2>. QED  BY <2>3, <2>4, <2>5, <2>6 DEF RowsInv
<1>. QED  BY <1>2, <1>3, <1>4

\* The cursor is cleared before the script runs, and not by the commit.
LEMMA SendKeepsRows ==
    ASSUME SessionInv, RowsInv, SendNext
    PROVE  RowsInv'
<1>1. PICK c \in Commands : pc = c /\ Send(c)
  BY DEF SendNext, Commands
<1>2. /\ ~awaiting /\ awaiting' = TRUE /\ error' = FALSE
      /\ cached' = IF pc \in {"begin", "script"} THEN 0 ELSE cached
      /\ UNCHANGED << call, pc, inTx, result, link, toClient, status, next, produced >>
  BY <1>1 DEF Send, Clears, backend
<1>3. toServer' = << pc >> \/ toServer' = toServer
  <2>1. link = "up" => toServer = << >>
    BY <1>2 DEF SessionInv, InTouch
  <2>2. Append(<< >>, c) = << c >>
    OBVIOUS
  <2>. QED  BY <1>1, <2>1, <2>2 DEF Send
<1>4. pc \in Commands /\ (link = "up" => next = 0)
      /\ \A k \in 1..Len(toClient) : toClient[k].kind # "ready"
  BY <1>1, <1>2 DEF SessionInv, InTouch, ReadyMeans, ReadyAt, Commands
<1>5. Early'
  BY <1>2 DEF RowsInv, Early
<1>6. Running' /\ Ran'
  BY <1>2, <1>4 DEF Running, Ran
<1>7. Settled'
  <2>. SUFFICES ASSUME Fetching' PROVE Settled'
    BY DEF Settled
  <2>1. Fetching /\ pc = "commit"
    BY <1>2, <1>4 DEF Fetching, Commands
  <2>2. toServer' # << "script" >>
    <3>1. << "commit" >> # << "script" >>
      OBVIOUS
    <3>. QED  BY <1>3, <2>1, <3>1 DEF RowsInv, Settled, Sent
  <2>. QED  BY <1>2, <2>1, <2>2 DEF RowsInv, Settled, Sent
<1>8. Told'
  BY <1>2, <1>4 DEF Told, Commands
<1>. QED  BY <1>5, <1>6, <1>7, <1>8 DEF RowsInv

\* A row that is read goes from the way into the cursor.
LEMMA ReadKeepsRows ==
    ASSUME SessionInv, RowsInv, Read
    PROVE  RowsInv'
<1>. DEFINE m == Head(toClient)
<1>1. /\ awaiting /\ toClient # << >> /\ m.kind # "ready" /\ toClient' = Tail(toClient)
      /\ cached' = IF m.kind = "row" THEN cached + 1 ELSE cached
      /\ error' = (error \/ m.kind = "error")
      /\ UNCHANGED << call, pc, awaiting, result, link, toServer, status, next, produced >>
  BY DEF Read, backend
<1>2. /\ Len(toClient) \in Nat \ {0} /\ m = toClient[1]
      /\ toClient' \in Seq(Message) /\ Len(toClient') = Len(toClient) - 1
      /\ \A k \in 1..Len(toClient') :
            k + 1 \in 1..Len(toClient) /\ toClient'[k] = toClient[k + 1]
  BY <1>1, Shifted
<1>3. Arriving(toClient) = Arriving(toClient') + IF m.kind = "row" THEN 1 ELSE 0
  BY <1>1, OneLess DEF SessionInv, Types
<1>. HIDE DEF m
<1>4. cached' + Arriving(toClient') = cached + Arriving(toClient)
  <2>1. cached \in Nat /\ Arriving(toClient') \in Nat
    BY <1>2, Counted DEF SessionInv, Types
  <2>2. CASE m.kind = "row"
    <3>1. cached' = cached + 1 /\ Arriving(toClient) = Arriving(toClient') + 1
      BY <1>1, <1>3, <2>2
    <3>. QED  BY <2>1, <3>1
  <2>3. CASE m.kind # "row"
    <3>1. cached' = cached /\ Arriving(toClient) = Arriving(toClient') + 0
      BY <1>1, <1>3, <2>3
    <3>. QED  BY <2>1, <3>1
  <2>. QED  BY <2>2, <2>3
<1>5. pc \in Commands /\ (link = "up" => toServer = << >>)
  BY <1>1 DEF SessionInv, Places, InTouch
<1>6. error' <=> (error \/ m.kind = "error")
  BY <1>1, Zenon
<1>7. 1 \in 1..Len(toClient)
  BY <1>2
<1>8. Early'
  BY <1>1, <1>5 DEF RowsInv, Early
<1>9. Running'
  <2>1. ASSUME NoError' PROVE NoError
    <3>1. ~error /\ m.kind # "error"
      BY <1>6, <2>1 DEF NoError
    <3>2. ASSUME NEW k \in 1..Len(toClient), k # 1 PROVE toClient[k].kind # "error"
      <4>1. k - 1 \in 1..Len(toClient') /\ (k - 1) + 1 = k
        BY <1>2, <3>2
      <4>. QED  BY <1>2, <2>1, <4>1 DEF NoError
    <3>. QED  BY <1>2, <3>1, <3>2 DEF NoError
  <2>. QED  BY <1>1, <1>4, <2>1 DEF RowsInv, Running
<1>10. Ran'
  <2>. SUFFICES ASSUME pc # "end", NEW k \in 1..Len(toClient'), toClient'[k].kind = "ready"
                PROVE  RanAt(k)'
    BY <1>1 DEF Ran
  <2>1. k + 1 \in 1..Len(toClient) /\ toClient[k + 1].kind = "ready" /\ k \in Nat
    BY <1>2
  <2>2. RanAt(k + 1)
    BY <2>1 DEF RowsInv, Ran
  <2>3. ASSUME Clean(k)' PROVE Clean(k + 1)
    <3>1. ~error /\ m.kind # "error"
      BY <1>6, <2>3 DEF Clean
    <3>2. ASSUME NEW j \in 1..((k + 1) - 1), j # 1 PROVE toClient[j].kind # "error"
      <4>1. j - 1 \in 1..(k - 1) /\ j - 1 \in 1..Len(toClient') /\ (j - 1) + 1 = j
        BY <1>2, <2>1, <3>2
      <4>. QED  BY <1>2, <2>3, <4>1 DEF Clean
    <3>. QED  BY <1>2, <3>1, <3>2 DEF Clean
  <2>4. ASSUME NEW j \in 1..Len(toClient'), j > k PROVE toClient'[j].kind # "row"
    <3>1. j + 1 \in 1..Len(toClient) /\ j + 1 > k + 1 /\ toClient'[j] = toClient[j + 1]
      BY <1>2, <2>1, <2>4
    <3>. QED  BY <2>2, <3>1 DEF RanAt
  <2>. QED  BY <1>1, <1>4, <2>2, <2>3, <2>4 DEF RanAt
<1>11. Settled'
  <2>. SUFFICES ASSUME Fetching PROVE Settled'
    BY <1>1 DEF Settled, Fetching
  <2>1. m.kind # "row" /\ \A k \in 1..Len(toClient') : toClient'[k].kind # "row"
    BY <1>2, <1>7 DEF RowsInv, Settled
  <2>. QED  BY <1>1, <2>1 DEF RowsInv, Settled, Sent
<1>12. Told'
  BY <1>1, <1>5 DEF Told, Commands
<1>. QED  BY <1>8, <1>9, <1>10, <1>11, <1>12 DEF RowsInv

\* When the READY_FOR_QUERY of the script is read without an error, no row is on
\* its way any more.
LEMMA ReadyKeepsRows ==
    ASSUME SessionInv, RowsInv, Ready
    PROVE  RowsInv'
<1>1. /\ awaiting /\ toClient # << >> /\ Head(toClient).kind = "ready"
      /\ toClient' = Tail(toClient) /\ awaiting' = FALSE /\ result' = Outcome(error)
      /\ pc' = IF ~error THEN AfterOk ELSE IF pc = "rollback" THEN "close" ELSE "rollback"
      /\ UNCHANGED << call, error, cached, link, toServer, status, next, produced >>
  BY DEF Ready, backend
<1>2. /\ Len(toClient) \in Nat \ {0} /\ toClient[1].kind = "ready"
      /\ toClient' \in Seq(Message) /\ Len(toClient') = Len(toClient) - 1
      /\ \A k \in 1..Len(toClient') :
            k + 1 \in 1..Len(toClient) /\ toClient'[k] = toClient[k + 1]
  BY <1>1, Shifted
<1>3. pc \in Commands /\ result = "none" /\ pc # "end"
  BY <1>1 DEF SessionInv, Places, Honest, Commands
<1>4. 1 \in 1..Len(toClient) /\ ReadyAt(1) /\ RanAt(1)
  BY <1>2, <1>3 DEF SessionInv, ReadyMeans, RowsInv, Ran
<1>5. toServer = << >> /\ next = 0
      /\ \A j \in 1..Len(toClient) : toClient[j].kind = "ready" => j = 1
  BY <1>2, <1>4 DEF ReadyAt
<1>6. \A k \in 1..Len(toClient') : k + 1 > 1 /\ k + 1 # 1
  BY <1>2
<1>7. \A k \in 1..Len(toClient') : toClient'[k].kind \notin {"ready", "row"}
  BY <1>2, <1>4, <1>5, <1>6 DEF RanAt
<1>8. /\ pc' = "script" => pc = "begin"
      /\ pc' = "commit" => pc = "script" /\ ~error
      /\ pc' = "fetch" \/ (pc' = "close" /\ result' = "true") => pc = "commit"
      /\ pc' = "close" /\ call = "query" /\ result' = "none" => error
      /\ pc' \notin {"connect", "begin"}
  BY <1>1, <1>3 DEF AfterOk, Outcome, Commands
<1>9. Early'
  BY <1>1, <1>5, <1>8 DEF RowsInv, Early
<1>10. Running' /\ Ran'
  BY <1>1, <1>5, <1>7 DEF Running, Ran
<1>11. pc = "script" /\ ~error => cached = produced
  <2>. SUFFICES ASSUME pc = "script", ~error PROVE cached = produced
    OBVIOUS
  <2>1. Clean(1)
    BY DEF Clean
  <2>2. Arriving(toClient) = 0
    <3>1. ASSUME NEW j \in 1..Len(toClient) PROVE toClient[j].kind # "row"
      <4>1. j = 1 \/ j > 1
        BY <1>2
      <4>. QED  BY <1>2, <1>4, <4>1 DEF RanAt
    <3>. QED  BY <3>1, NoRows
  <2>3. cached + Arriving(toClient) = produced
    BY <1>4, <2>1 DEF RanAt
  <2>. QED  BY <2>2, <2>3 DEF SessionInv, Types
<1>12. Settled'
  <2>. SUFFICES ASSUME Fetching' PROVE Settled'
    BY DEF Settled
  <2>1. cached = produced
    BY <1>8, <1>11 DEF Fetching, RowsInv, Settled
  <2>2. toServer' = << >> /\ << >> # << "script" >>
    BY <1>1, <1>5
  <2>. QED  BY <1>1, <1>5, <1>7, <2>1, <2>2 DEF Settled, Sent
<1>13. Told'
  BY <1>1, <1>8 DEF Told
<1>. QED  BY <1>9, <1>10, <1>12, <1>13 DEF RowsInv

LEMMA BrokenKeepsRows ==
    ASSUME SessionInv, RowsInv, ReadBroken
    PROVE  RowsInv'
<1>1. /\ awaiting /\ toClient = << >> /\ link = "down" /\ error' = TRUE
      /\ pc' \in {"close", "rollback"}
      /\ UNCHANGED << result, cached, call, link, toServer, toClient, next, produced >>
  BY DEF ReadBroken, backend
<1>2. result = "none" /\ Len(toClient) = 0
  BY <1>1, EmptySeq DEF SessionInv, Places, Honest, Commands
<1>. QED  BY <1>1, <1>2 DEF RowsInv, Early, Running, Ran, Settled, Fetching, Told

\* A command other than the script is carried out: no row moves.
LEMMA ShortKeepsRows ==
    ASSUME SessionInv, RowsInv, NEW c \in {"begin", "commit", "rollback"},
           NEW kind \in {"complete", "error"}, NEW s,
           Received(c), Reply(<< Msg(kind, c, s), Msg("ready", c, s) >>),
           s \in {"I", "T"}, UNCHANGED << client, link, next, produced >>
    PROVE  RowsInv'
<1>. DEFINE m1 == Msg(kind, c, s)
            m2 == Msg("ready", c, s)
<1>1. /\ toServer = << c >> /\ toServer' = << >> /\ next = 0
      /\ toClient' = IF link = "up" THEN toClient \o << m1, m2 >> ELSE toClient
      /\ UNCHANGED << call, pc, awaiting, error, cached, result >>
  <2>1. c \in Commands
    BY DEF Commands
  <2>. QED  BY <2>1, Taken DEF Reply, client
<1>2. /\ m1 \in Message /\ m2 \in Message /\ m1.kind = kind /\ m2.kind = "ready"
  BY DEF Msg, Message, Commands
<1>. HIDE DEF m1, m2
<1>3. link = "up" => toClient' = << m1, m2 >> /\ Len(toClient') = 2 /\ pc = c
  <2>1. link = "up" => toClient = << >> /\ pc = c
    BY <1>1 DEF SessionInv, InTouch, Sent
  <2>. QED  BY <1>1, <1>2, <2>1, Answered
<1>4. link = "up" => \A k \in 1..Len(toClient') :
          toClient'[k].kind # "row" /\ (toClient'[k].kind = "ready" => k = 2)
  <2>. SUFFICES ASSUME link = "up", NEW k \in 1..Len(toClient')
                PROVE  toClient'[k].kind # "row" /\ (toClient'[k].kind = "ready" => k = 2)
    OBVIOUS
  <2>1. k = 1 \/ k = 2
    BY <1>3
  <2>2. toClient'[1] = m1 /\ toClient'[2] = m2
    BY <1>3
  <2>. QED  BY <1>2, <2>1, <2>2
<1>5. Early'
  BY <1>1 DEF RowsInv, Early
<1>6. Running'
  BY <1>1 DEF Running
<1>7. Ran'
  <2>1. CASE link = "up"
    BY <1>1, <1>3, <1>4, <2>1 DEF Ran, RanAt
  <2>2. CASE link # "up"
    BY <1>1, <2>2 DEF RowsInv, Ran, RanAt, Clean
  <2>. QED  BY <2>1, <2>2
<1>8. Settled'
  <2>. SUFFICES ASSUME Fetching PROVE Settled'
    BY <1>1 DEF Settled, Fetching
  <2>1. \A k \in 1..Len(toClient') : toClient'[k].kind # "row"
    BY <1>1, <1>4 DEF RowsInv, Settled
  <2>2. << >> # << "script" >>
    OBVIOUS
  <2>. QED  BY <1>1, <2>1, <2>2 DEF RowsInv, Settled, Sent
<1>9. Told'
  BY <1>1 DEF RowsInv, Told
<1>. QED  BY <1>5, <1>6, <1>7, <1>8, <1>9 DEF RowsInv

\* The script starts with nothing cached and nothing produced.
LEMMA TakeKeepsRows ==
    ASSUME SessionInv, RowsInv, TakeScript
    PROVE  RowsInv'
<1>1. /\ toServer = << "script" >> /\ toServer' = << >> /\ next = 0 /\ next' = 1
      /\ UNCHANGED << call, pc, awaiting, error, cached, result, link, toClient, produced >>
  BY Taken DEF TakeScript, Commands, client
<1>2. link = "up" => pc = "script" /\ toClient = << >>
  BY <1>1 DEF SessionInv, InTouch, Sent
<1>3. Running'
  <2>1. toClient = << >> => Arriving(toClient) = 0
    BY EmptySeq, NoRows
  <2>2. link = "up" => cached = 0 /\ produced = 0
    BY <1>1, <1>2 DEF RowsInv, Early
  <2>. QED  BY <1>1, <1>2, <2>1, <2>2 DEF Running
<1>4. ~Fetching
  BY <1>1 DEF RowsInv, Settled, Sent
<1>5. Early' /\ Ran' /\ Settled' /\ Told'
  BY <1>1, <1>4 DEF RowsInv, Early, Ran, RanAt, Clean, Settled, Fetching, Told
<1>. QED  BY <1>3, <1>5 DEF RowsInv

\* What a statement has to show to keep the account.
LEMMA StatementAccount ==
    ASSUME SessionInv, RowsInv, next # 0,
           UNCHANGED << client, link, toServer >>, Running', Ran'
    PROVE  RowsInv'
<1>1. UNCHANGED << call, pc, awaiting, error, cached, result >>
  BY DEF client
<1>2. link = "down" \/ (link = "up" /\ pc = "script" /\ awaiting /\ toServer = << >>)
  BY Unheard DEF SessionInv, InTouch
<1>3. Early'
  BY <1>1, <1>2 DEF Early
<1>4. ~Fetching
  BY DEF RowsInv, Settled
<1>5. Settled' /\ Told'
  BY <1>1, <1>4 DEF RowsInv, Settled, Fetching, Told
<1>. QED  BY <1>3, <1>5 DEF RowsInv

LEMMA StatementKeepsRows ==
    ASSUME SessionInv, RowsInv, DoStatement, SessionInv'
    PROVE  RowsInv'
<1>. DEFINE done == Msg("complete", "script", "T")
<1>1. PICK n \in Nat : /\ produced' = produced + n
                       /\ Reply(Rows(n) \o << done >>)
  <2>1. PICK n \in IF Script[next] = "select" THEN 0..MaxRows ELSE {0} :
               /\ produced' = produced + n
               /\ Reply(Rows(n) \o << done >>)
    BY DEF DoStatement, Rows
  <2>2. n \in Nat
    BY <2>1, SessionAssumption
  <2>. QED  BY <2>1, <2>2
<1>. DEFINE t == Rows(n) \o << done >>
<1>2. /\ next # 0 /\ next' # 0
      /\ toClient' = IF link = "up" THEN toClient \o t ELSE toClient
      /\ UNCHANGED << client, link, toServer, status >>
  <2>1. next \in 1..Len(Script) /\ next' = next + 1
    BY DEF DoStatement
  <2>2. next # 0 /\ next' # 0
    BY <2>1, ScriptLength
  <2>. QED  BY <1>1, <2>2 DEF DoStatement, Reply
<1>3. t \in Seq(Message) /\ Arriving(t) = n
  <2>1. done \in Message /\ done.kind # "row"
    BY DEF Msg, Message, Commands
  <2>. HIDE DEF done
  <2>2. << done >> \in Seq(Message) /\ Len(<< done >>) = 1 /\ << done >>[1] = done
    BY <2>1
  <2>3. Arriving(<< done >>) = 0
    <3>1. \A k \in 1..Len(<< done >>) : << done >>[k].kind # "row"
      BY <2>1, <2>2
    <3>. QED  BY <3>1, NoRows
  <2>4. Arriving(t) = Arriving(Rows(n)) + Arriving(<< done >>)
    BY <2>2, RowsShape, Together
  <2>5. t \in Seq(Message)
    BY <2>2, RowsShape, Behind
  <2>. QED  BY <2>3, <2>4, <2>5, RowsCounted
<1>. HIDE DEF t, done
<1>4. toClient \in Seq(Message) /\ cached \in Nat /\ produced \in Nat /\ Arriving(toClient) \in Nat
  BY Counted DEF SessionInv, Types
<1>5. Running'
  <2>. SUFFICES ASSUME link = "up", NoError' PROVE cached' + Arriving(toClient') = produced'
    BY <1>2 DEF Running
  <2>1. toClient' = toClient \o t
    BY <1>2
  <2>2. NoError
    <3>1. ASSUME NEW k \in 1..Len(toClient) PROVE toClient[k].kind # "error"
      <4>1. k \in 1..Len(toClient') /\ toClient'[k] = toClient[k]
        BY <1>3, <1>4, <2>1, Behind
      <4>. QED  BY <4>1 DEF NoError
    <3>. QED  BY <1>2, <3>1 DEF NoError, client
  <2>3. cached + Arriving(toClient) = produced
    BY <1>2, <2>2 DEF RowsInv, Running
  <2>4. Arriving(toClient') = Arriving(toClient) + n
    BY <1>3, <1>4, <2>1, Together
  <2>5. cached' = cached /\ produced' = produced + n
    BY <1>1, <1>2 DEF client
  <2>6. cached + (Arriving(toClient) + n) = (cached + Arriving(toClient)) + n
    BY <1>4
  <2>. QED  BY <2>3, <2>4, <2>5, <2>6
<1>6. Ran'
  <2>1. link = "up" => NoReady(toClient')
    BY <1>2 DEF SessionInv, InTouch
  <2>2. link # "up" /\ pc # "end" => NoReady(toClient')
    BY <1>2, Unheard
  <2>. QED  BY <1>2, <2>1, <2>2 DEF Ran, NoReady, client
<1>. QED  BY <1>2, <1>5, <1>6, StatementAccount

\* A script that failed sends its READY_FOR_QUERY after an error.
LEMMA FailKeepsRows ==
    ASSUME SessionInv, RowsInv, FailStatement, SessionInv'
    PROVE  RowsInv'
<1>1. /\ next # 0 /\ next' = 0 /\ status' = "E"
      /\ link # "up" => toClient' = toClient
      /\ UNCHANGED << client, link, toServer >>
  BY ScriptLength DEF FailStatement, Reply
<1>2. Running'
  BY <1>1 DEF Running
<1>3. Ran'
  <2>. SUFFICES ASSUME pc # "end", NEW k \in 1..Len(toClient'), toClient'[k].kind = "ready"
                PROVE  RanAt(k)'
    BY <1>1 DEF Ran, client
  <2>1. ReadyAt(k)' /\ pc' = pc /\ link' = link
    BY <1>1 DEF SessionInv, ReadyMeans, client
  <2>2. CASE link = "up"
    <3>1. k = Len(toClient') /\ ~(pc' = "script" /\ Clean(k)')
      BY <1>1, <2>1, <2>2 DEF ReadyAt
    <3>2. \A j \in 1..Len(toClient') : ~(j > k)
      BY <3>1
    <3>. QED  BY <3>1, <3>2 DEF RanAt
  <2>3. CASE link # "up"
    BY <1>1, <2>3, Unheard DEF NoReady
  <2>. QED  BY <2>2, <2>3
<1>. QED  BY <1>1, <1>2, <1>3, StatementAccount

\* One that did not has sent every row before it.
LEMMA EndKeepsRows ==
    ASSUME SessionInv, RowsInv, EndScript, SessionInv'
    PROVE  RowsInv'
<1>. DEFINE m == Msg("ready", "script", "T")
<1>1. /\ next # 0 /\ next' = 0
      /\ toClient' = IF link = "up" THEN toClient \o << m >> ELSE toClient
      /\ UNCHANGED << client, link, toServer, produced >>
  BY ScriptLength DEF EndScript, Reply
<1>2. << m >> \in Seq(Message) /\ Len(<< m >>) = 1 /\ Arriving(<< m >>) = 0
  <2>1. m \in Message /\ m.kind # "row"
    BY DEF Msg, Message, Commands
  <2>. HIDE DEF m
  <2>2. << m >> \in Seq(Message) /\ Len(<< m >>) = 1 /\ << m >>[1] = m
    BY <2>1
  <2>3. \A k \in 1..Len(<< m >>) : << m >>[k].kind # "row"
    BY <2>1, <2>2
  <2>. QED  BY <2>2, <2>3, NoRows
<1>. HIDE DEF m
<1>3. toClient \in Seq(Message) /\ cached \in Nat /\ Arriving(toClient) \in Nat
  BY Counted DEF SessionInv, Types
<1>4. Running'
  BY <1>1 DEF Running
<1>5. Ran'
  <2>. SUFFICES ASSUME pc # "end", NEW k \in 1..Len(toClient'), toClient'[k].kind = "ready"
                PROVE  RanAt(k)'
    BY <1>1 DEF Ran, client
  <2>1. ReadyAt(k)' /\ pc' = pc /\ link' = link
    BY <1>1 DEF SessionInv, ReadyMeans, client
  <2>2. CASE link = "up"
    <3>1. k = Len(toClient') /\ toClient' = toClient \o << m >>
      BY <1>1, <2>1, <2>2 DEF ReadyAt
    <3>2. \A j \in 1..Len(toClient') : ~(j > k)
      BY <3>1
    <3>3. /\ Len(toClient') = Len(toClient) + 1 /\ Len(toClient) \in Nat
          /\ \A j \in 1..Len(toClient) : toClient'[j] = toClient[j]
      BY <1>2, <1>3, <3>1, Behind
    <3>4. ASSUME Clean(k)' PROVE NoError
      <4>1. ASSUME NEW j \in 1..Len(toClient) PROVE toClient[j].kind # "error"
        <5>1. j \in 1..(k - 1)
          BY <3>1, <3>3
        <5>. QED  BY <3>3, <3>4, <5>1 DEF Clean
      <4>. QED  BY <1>1, <3>4, <4>1 DEF Clean, NoError, client
    <3>5. Arriving(toClient') = Arriving(toClient)
      <4>1. Arriving(toClient') = Arriving(toClient) + Arriving(<< m >>)
        BY <1>2, <1>3, <3>1, Together
      <4>. QED  BY <1>2, <1>3, <4>1
    <3>6. NoError => cached + Arriving(toClient) = produced
      BY <1>1, <2>2 DEF RowsInv, Running
    <3>. QED  BY <1>1, <3>2, <3>4, <3>5, <3>6 DEF RanAt, client
  <2>3. CASE link # "up"
    BY <1>1, <2>3, Unheard DEF NoReady
  <2>. QED  BY <2>2, <2>3
<1>. QED  BY <1>1, <1>4, <1>5, StatementAccount

LEMMA DisconnectedKeepsRows ==
    ASSUME SessionInv, RowsInv, Disconnected
    PROVE  RowsInv'
<1>1. /\ link = "down" /\ next' = 0 /\ toServer' = << >>
      /\ UNCHANGED << call, pc, awaiting, error, cached, result, link, toClient, produced >>
  BY DEF Disconnected, client
<1>2. << >> # << "script" >>
  OBVIOUS
<1>. QED  BY <1>1, <1>2 DEF RowsInv, Early, Running, Ran, RanAt, Clean, Settled, Fetching, Sent, Told

\* A connection that breaks does not lose a row the client goes on to count: if
\* the READY_FOR_QUERY arrives, all that was sent before it does.
LEMMA BreakKeepsRows ==
    ASSUME SessionInv, RowsInv, Break
    PROVE  RowsInv'
<1>. DEFINE fatal == Msg("error", "script", "T")
<1>1. PICK n \in 0..Len(toClient), last \in {<< >>, << fatal >>} :
          toClient' = SubSeq(toClient, 1, n) \o last
  BY DEF Break
<1>2. link' = "down" /\ link = "up"
      /\ UNCHANGED << call, pc, awaiting, error, cached, result, toServer, next, produced >>
  BY DEF Break, client, backend
<1>3. last \in Seq(Message) /\ Arriving(last) = 0
      /\ \A k \in 1..Len(last) : last[k].kind \notin {"ready", "row"}
  <2>1. fatal \in Message /\ fatal.kind = "error"
    BY DEF Msg, Message, Commands
  <2>. HIDE DEF fatal
  <2>2. last \in Seq(Message) /\ \A k \in 1..Len(last) : last[k].kind \notin {"ready", "row"}
    <3>1. CASE last = << >>
      BY <3>1
    <3>2. CASE last = << fatal >>
      BY <2>1, <3>2
    <3>. QED  BY <3>1, <3>2
  <2>. QED  BY <2>2, NoRows
<1>. HIDE DEF fatal
<1>. DEFINE s == SubSeq(toClient, 1, n)
<1>4. /\ toClient \in Seq(Message) /\ Len(toClient) \in Nat /\ cached \in Nat
      /\ s \in Seq(Message) /\ Len(s) = n /\ n \in Nat /\ n <= Len(toClient)
      /\ \A k \in 1..n : s[k] = toClient[k]
  <2>1. toClient \in Seq(Message) /\ Len(toClient) \in Nat /\ cached \in Nat
    BY LenProperties DEF SessionInv, Types
  <2>2. \A k \in 1..n : toClient[k] \in Message
    BY <2>1, ElementOfSeq
  <2>3. /\ s \in Seq(Message) /\ Len(s) = IF 1 <= n THEN n - 1 + 1 ELSE 0
        /\ \A k \in 1..(n - 1 + 1) : s[k] = toClient[1 + k - 1]
    BY <2>2, SubSeqProperties
  <2>. HIDE DEF s
  <2>. QED  BY <2>1, <2>3
<1>5. toClient' = s \o last
  BY <1>1
<1>. HIDE DEF s
<1>6. /\ \A k \in 1..n : toClient'[k] = toClient[k]
      /\ \A k \in 1..Len(toClient') :
            \/ k \in 1..n
            \/ toClient'[k].kind \notin {"ready", "row"}
      /\ n <= Len(toClient')
  <2>1. /\ Len(s \o last) = n + Len(last) /\ Len(last) \in Nat
        /\ \A k \in 1..n : (s \o last)[k] = s[k]
        /\ \A k \in 1..Len(s \o last) :
              \/ k \in 1..n
              \/ k - n \in 1..Len(last) /\ (s \o last)[k] = last[k - n]
    <3>1. /\ Len(s \o last) = Len(s) + Len(last) /\ Len(last) \in Nat
          /\ \A k \in 1..Len(s) : (s \o last)[k] = s[k]
          /\ \A k \in 1..Len(s \o last) :
                \/ k \in 1..Len(s)
                \/ k - Len(s) \in 1..Len(last) /\ (s \o last)[k] = last[k - Len(s)]
      <4>1. s \in Seq(Message) /\ last \in Seq(Message)
        BY <1>3, <1>4
      <4>. QED  BY <4>1, Behind
    <3>. QED  BY <1>4, <3>1
  <2>2. \A k \in 1..Len(s \o last) : k \in 1..n \/ (s \o last)[k].kind \notin {"ready", "row"}
    BY <1>3, <2>1
  <2>3. \A k \in 1..n : (s \o last)[k] = toClient[k]
    BY <1>4, <2>1
  <2>4. n <= Len(s \o last)
    BY <1>4, <2>1
  <2>. QED  BY <1>5, <2>2, <2>3, <2>4
<1>7. Early' /\ Running' /\ Told'
  BY <1>2 DEF RowsInv, Early, Running, Told
<1>8. Ran'
  <2>. SUFFICES ASSUME pc # "end", NEW k \in 1..Len(toClient'), toClient'[k].kind = "ready"
                PROVE  RanAt(k)'
    BY <1>2 DEF Ran
  <2>1. k \in 1..n /\ k \in 1..Len(toClient) /\ toClient[k].kind = "ready"
    BY <1>4, <1>6
  <2>2. RanAt(k) /\ k = Len(toClient) /\ n = k
    BY <1>2, <1>4, <2>1 DEF RowsInv, Ran, SessionInv, ReadyMeans, ReadyAt
  <2>3. s = toClient
    BY <1>4, <2>2, SeqEqual
  <2>4. Arriving(toClient') = Arriving(toClient)
    <3>1. Arriving(s \o last) = Arriving(s) + Arriving(last) /\ Arriving(s) \in Nat
      BY <1>3, <1>4, Together, Counted
    <3>. QED  BY <1>3, <1>5, <2>3, <3>1
  <2>5. Clean(k)' => Clean(k)
    <3>1. \A j \in 1..(k - 1) : toClient'[j] = toClient[j]
      BY <1>4, <1>6, <2>1
    <3>. QED  BY <1>2, <3>1 DEF Clean
  <2>6. \A j \in 1..Len(toClient') : j > k => toClient'[j].kind # "row"
    BY <1>4, <1>6, <2>2
  <2>. QED  BY <1>2, <2>2, <2>4, <2>5, <2>6 DEF RanAt
<1>9. Settled'
  <2>. SUFFICES ASSUME Fetching PROVE Settled'
    BY <1>2 DEF Settled, Fetching
  <2>1. \A k \in 1..Len(toClient') : toClient'[k].kind # "row"
    <3>1. \A k \in 1..n : k \in 1..Len(toClient)
      BY <1>4
    <3>. QED  BY <1>6, <3>1 DEF RowsInv, Settled
  <2>. QED  BY <1>2, <2>1 DEF RowsInv, Settled, Sent
<1>. QED  BY <1>7, <1>8, <1>9 DEF RowsInv

LEMMA RowsKeptByAll == SessionInv /\ RowsInv /\ [Next]_vars => RowsInv'
<1>. SUFFICES ASSUME SessionInv, RowsInv, [Next]_vars PROVE RowsInv'
  OBVIOUS
<1>1. SessionInv'
  BY Kept
<1>2. CASE Connect \/ ConnectFails \/ SkipRollback \/ Fetch \/ Close \/ Killed
  BY <1>2, MovesKeepRows
<1>3. CASE SendNext \/ Read \/ Ready \/ ReadBroken
  BY <1>3, SendKeepsRows, ReadKeepsRows, ReadyKeepsRows, BrokenKeepsRows
<1>4. CASE DoBegin
  BY <1>4, ShortKeepsRows DEF DoBegin
<1>5. CASE DoCommit
  BY <1>5, ShortKeepsRows DEF DoCommit
<1>6. CASE FailCommit
  BY <1>6, ShortKeepsRows DEF FailCommit
<1>7. CASE DoRollback
  BY <1>7, ShortKeepsRows DEF DoRollback
<1>8. CASE TakeScript \/ DoStatement \/ FailStatement \/ EndScript \/ Disconnected \/ Break
  BY <1>1, <1>8, TakeKeepsRows, StatementKeepsRows, FailKeepsRows, EndKeepsRows,
     DisconnectedKeepsRows, BreakKeepsRows
<1>9. CASE Finished \/ UNCHANGED vars
  <2>1. UNCHANGED << call, pc, awaiting, error, cached, result, link, toServer,
                     toClient, next, produced >>
    BY <1>9 DEF Finished, vars, client, backend
  <2>. QED  BY <2>1 DEF RowsInv, Early, Running, NoError, Ran, RanAt, Clean, Settled, Fetching, Sent,
                        Told
<1>. QED  BY <1>2, <1>3, <1>4, <1>5, <1>6, <1>7, <1>8, <1>9 DEF Next, ClientStep, ServerStep

\* execute_query fetches the rows its script returned, no more and no less, for
\* any script and any number of rows: its commit uses another cursor, and an error
\* between is told (postgres_utils.py:46-61; pg8000 core.py, handle_messages,
\* execute_unnamed).
THEOREM RowsFetched == Spec => []RowsKept
<1>1. SessionInv /\ RowsInv => RowsKept
  BY DEF SessionInv, Types, RowsInv, Settled, Fetching, Told, RowsKept
<1>. QED  BY <1>1, Start, RowsStart, Kept, RowsKeptByAll, PTL DEF Spec
=============================================================================
