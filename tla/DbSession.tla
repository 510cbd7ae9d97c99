------------------------------ MODULE DbSession ------------------------------
(***************************************************************************)
(* One call of run_update or run_query: postgres_utils and the part of     *)
(* pg8000 it reaches, message by message, with the backend it talks to.    *)
(* The script runs between a "begin transaction" that pg8000 sends on its  *)
(* own and a commit; the connection may break and the function may be      *)
(* killed at any moment.  This is what SnapCollector takes for granted of  *)
(* a script: all or nothing, and an honest answer.                         *)
(***************************************************************************)
EXTENDS Naturals, Sequences

CONSTANTS
    Calls,   \* the calls considered: "update" is run_update, "query" run_query
    Script,  \* the statements of the script: "select" or "insert"
    MaxRows  \* bound: rows a select returns

ASSUME SessionAssumption ==
    /\ Calls \subseteq {"update", "query"}
    /\ Script \in Seq({"select", "insert"}) /\ Script # << >>
    /\ MaxRows \in Nat

\* What is queried returns columns, as every script the handlers give to
\* run_query does: without any, fetchall raises after the commit and [] is
\* returned for a script that took effect (pg8000/core.py:480).
ASSUME QueryAssumption ==
    "query" \in Calls => \E i \in DOMAIN Script : Script[i] = "select"

VARIABLES
    call,      \* which of the two was called
    pc,        \* where the client stands
    awaiting,  \* in handle_messages, before READY_FOR_QUERY
    error,     \* con.error, or a broken read
    inTx,      \* con.in_transaction
    cached,    \* cur._cached_rows
    result,    \* what the function is about to return
    answer,    \* how the call ended: "returned", "raised" or not yet
    link,      \* the connection: "none", "up", "down"
    toServer,  \* the query message in flight
    toClient,  \* the backend messages in flight
    status,    \* transaction status of the backend: "I", "T", "E"
    next,      \* statement of the script the backend is at; 0: none
    durable,   \* the effects of the script are committed
    produced   \* history: the rows the script's selects returned

client  == << call, pc, awaiting, error, inTx, cached, result, answer >>
backend == << status, next, durable, produced >>
vars    == << client, link, toServer, toClient, backend >>

Commands == {"begin", "script", "commit", "rollback"}
Message  == [kind : {"row", "complete", "error", "ready"}, of : Commands, status : {"I", "T", "E"}]
Msg(k, c, s) == [kind |-> k, of |-> c, status |-> s]

-----------------------------------------------------------------------------

Init ==
    /\ call \in Calls
    /\ pc = "connect" /\ awaiting = FALSE /\ error = FALSE /\ inTx = FALSE
    /\ cached = 0 /\ result = "none" /\ answer = "none"
    /\ link = "none" /\ toServer = << >> /\ toClient = << >>
    /\ status = "I" /\ next = 0 /\ durable = FALSE /\ produced = 0

\* get_conn: connected and authenticated, up to the first READY_FOR_QUERY ...
Connect ==
    /\ pc = "connect"
    /\ pc' = "begin" /\ link' = "up"
    /\ UNCHANGED << call, awaiting, error, inTx, cached, result, answer,
                    toServer, toClient, backend >>

\* ... or not, and the exception leaves run_update before its try.
ConnectFails ==
    /\ pc = "connect"
    /\ pc' = "end" /\ answer' = "raised"
    /\ UNCHANGED << call, awaiting, error, inTx, cached, result,
                    link, toServer, toClient, backend >>

\* Mutant: commit and rollback on the caller's cursor, which they would clear.
ClearsAll(c) == TRUE

\* execute_unnamed clears the rows of its cursor; commit and rollback have one
\* of their own, con._cursor.
Clears(c) == c \in {"begin", "script"}

\* execute_unnamed up to handle_messages; a message into a broken connection is
\* lost.
Send(c) ==
    /\ ~awaiting
    /\ awaiting' = TRUE /\ error' = FALSE
    /\ cached' = IF Clears(c) THEN 0 ELSE cached
    /\ toServer' = IF link = "up" THEN Append(toServer, c) ELSE toServer
    /\ UNCHANGED << call, pc, inTx, result, answer, link, toClient, backend >>

\* rollback(): "if not self.in_transaction: return"
NeedsRollback == inTx

SendNext ==
    \/ pc = "begin"    /\ Send("begin")
    \/ pc = "script"   /\ Send("script")
    \/ pc = "commit"   /\ Send("commit")
    \/ pc = "rollback" /\ NeedsRollback /\ Send("rollback")

\* Mutant: the loop ends at ERROR_RESPONSE too, as the one of the startup does.
ReadRaises ==
    /\ awaiting /\ toClient # << >> /\ Head(toClient).kind # "ready"
    /\ LET m == Head(toClient) IN
          /\ cached' = IF m.kind = "row" THEN cached + 1 ELSE cached
          /\ error'  = (m.kind = "error")
          /\ awaiting' = (m.kind # "error")
          /\ pc' = IF m.kind # "error" THEN pc ELSE IF pc = "rollback" THEN "close" ELSE "rollback"
    /\ toClient' = Tail(toClient)
    /\ UNCHANGED << call, inTx, result, answer, link, toServer, backend >>

\* handle_messages: one message is read and handled.
Read ==
    /\ awaiting /\ toClient # << >> /\ Head(toClient).kind # "ready"
    /\ LET m == Head(toClient) IN
          /\ cached' = IF m.kind = "row" THEN cached + 1 ELSE cached
          /\ error'  = (error \/ m.kind = "error")
    /\ toClient' = Tail(toClient)
    /\ UNCHANGED << call, pc, awaiting, inTx, result, answer, link, toServer, backend >>

\* handle_READY_FOR_QUERY
FlagAfter(m) == m.status # "I"

\* What follows a command that did not raise.
AfterOk == IF pc = "begin" THEN "script"
           ELSE IF pc = "script" THEN "commit"
           ELSE IF pc = "commit" /\ call = "query" THEN "fetch"
           ELSE "close"

\* Mutant: the except clause of execute_update without the result.
OutcomeTrue(failed) == IF pc \in {"commit", "rollback"} THEN "true" ELSE result

\* result = True after the commit, result = False after the rollback; an
\* exception in the except clause leaves it unset.
Outcome(failed) == IF failed THEN result
                   ELSE IF pc = "commit" /\ call = "update" THEN "true"
                   ELSE IF pc = "rollback" THEN "false"
                   ELSE result

\* handle_messages is over: it raises the error it met, or returns.  What raises
\* in the try goes to the except clause, what raises there to the finally.
Ready ==
    /\ awaiting /\ toClient # << >> /\ Head(toClient).kind = "ready"
    /\ awaiting' = FALSE
    /\ inTx' = FlagAfter(Head(toClient))
    /\ toClient' = Tail(toClient)
    /\ pc' = IF ~error THEN AfterOk ELSE IF pc = "rollback" THEN "close" ELSE "rollback"
    /\ result' = Outcome(error)
    /\ UNCHANGED << call, error, cached, answer, link, toServer, backend >>

\* The read of a broken connection raises, in handle_messages.
ReadBroken ==
    /\ awaiting /\ toClient = << >> /\ link = "down"
    /\ awaiting' = FALSE /\ error' = TRUE
    /\ pc' = IF pc = "rollback" THEN "close" ELSE "rollback"
    /\ UNCHANGED << call, inTx, cached, result, answer, link, toServer, toClient, backend >>

\* rollback() outside of a transaction sends nothing.
SkipRollback ==
    /\ pc = "rollback" /\ ~awaiting /\ ~NeedsRollback
    /\ pc' = "close" /\ result' = "false"
    /\ UNCHANGED << call, awaiting, error, inTx, cached, answer, link, toServer, toClient, backend >>

\* execute_query: result = cur.fetchall(), which has columns (QueryAssumption)
Fetch ==
    /\ pc = "fetch"
    /\ pc' = "close" /\ result' = "true"
    /\ UNCHANGED << call, awaiting, error, inTx, cached, answer, link, toServer, toClient, backend >>

\* Mutant: no "finally: con.close()".
CloseNot ==
    /\ pc = "close"
    /\ pc' = "end"
    /\ answer' = IF result = "none" THEN "raised" ELSE "returned"
    /\ UNCHANGED << call, awaiting, error, inTx, cached, result, link, toServer, toClient, backend >>

\* con.close(), and the function returns, or raises what the rollback raised.
Close ==
    /\ pc = "close"
    /\ pc' = "end"
    /\ answer' = IF result = "none" THEN "raised" ELSE "returned"
    /\ link' = "down"
    /\ UNCHANGED << call, awaiting, error, inTx, cached, result, toServer, toClient, backend >>

\* The function reaches its timeout: the process is gone, and with it its end of
\* the connection.
Killed ==
    /\ pc # "end"
    /\ pc' = "end" /\ answer' = "raised" /\ awaiting' = FALSE
    /\ link' = IF link = "up" THEN "down" ELSE link
    /\ UNCHANGED << call, error, inTx, cached, result, toServer, toClient, backend >>

-----------------------------------------------------------------------------

\* The backend takes a query message it received, and, a statement after the
\* other, carries it out.  One that arrived may be carried out though the client
\* is gone by then.

Reply(msgs) == toClient' = IF link = "up" THEN toClient \o msgs ELSE toClient

Received(c) ==
    /\ toServer # << >> /\ Head(toServer) = c /\ next = 0
    /\ toServer' = Tail(toServer)

DoBegin ==
    /\ Received("begin")
    /\ status' = "T"
    /\ Reply(<< Msg("complete", "begin", "T"), Msg("ready", "begin", "T") >>)
    /\ UNCHANGED << client, link, next, durable, produced >>

TakeScript ==
    /\ Received("script")
    /\ next' = 1
    /\ UNCHANGED << client, link, toClient, status, durable, produced >>

\* A statement succeeds; a select has sent its rows.
DoStatement ==
    /\ next \in 1..Len(Script)
    /\ \E n \in IF Script[next] = "select" THEN 0..MaxRows ELSE {0} :
          /\ produced' = produced + n
          /\ Reply([k \in 1..n |-> Msg("row", "script", "T")]
                      \o << Msg("complete", "script", "T") >>)
    /\ next' = next + 1
    /\ UNCHANGED << client, link, toServer, status, durable >>

\* A statement fails, a select perhaps after some rows: the rest of the script
\* is skipped and the transaction is aborted.
FailStatement ==
    /\ next \in 1..Len(Script)
    /\ \E n \in IF Script[next] = "select" THEN 0..MaxRows ELSE {0} :
          Reply([k \in 1..n |-> Msg("row", "script", "T")]
                   \o << Msg("error", "script", "T"), Msg("ready", "script", "E") >>)
    /\ next' = 0 /\ status' = "E"
    /\ UNCHANGED << client, link, toServer, durable, produced >>

EndScript ==
    /\ next = Len(Script) + 1
    /\ next' = 0
    /\ Reply(<< Msg("ready", "script", "T") >>)
    /\ UNCHANGED << client, link, toServer, status, durable, produced >>

\* A commit takes effect in a transaction that is not aborted.
DoCommit ==
    /\ Received("commit")
    /\ status' = "I"
    /\ durable' = (durable \/ status = "T")
    /\ Reply(<< Msg("complete", "commit", "I"), Msg("ready", "commit", "I") >>)
    /\ UNCHANGED << client, link, next, produced >>

\* A deferred check fails it.
FailCommit ==
    /\ Received("commit")
    /\ status' = "I"
    /\ Reply(<< Msg("error", "commit", "I"), Msg("ready", "commit", "I") >>)
    /\ UNCHANGED << client, link, next, durable, produced >>

DoRollback ==
    /\ Received("rollback")
    /\ status' = "I"
    /\ Reply(<< Msg("complete", "rollback", "I"), Msg("ready", "rollback", "I") >>)
    /\ UNCHANGED << client, link, next, durable, produced >>

\* The backend notices that the connection is gone (TERMINATE, or a failed read
\* or write) and undoes the open transaction; a query message that had arrived
\* may or may not have been taken before.
Disconnected ==
    /\ link = "down" /\ (status # "I" \/ next # 0 \/ toServer # << >>)
    /\ status' = "I" /\ next' = 0 /\ toServer' = << >>
    /\ UNCHANGED << client, link, toClient, durable, produced >>

\* The connection breaks.  Of what is in flight to the client a part arrives;
\* the backend may have sent a last, fatal error.
Break ==
    /\ link = "up"
    /\ link' = "down"
    /\ \E k \in 0..Len(toClient) : \E last \in {<< >>, << Msg("error", "script", "T") >>} :
          toClient' = SubSeq(toClient, 1, k) \o last
    /\ UNCHANGED << client, toServer, backend >>

-----------------------------------------------------------------------------

Finished ==
    /\ pc = "end" /\ status = "I" /\ next = 0 /\ toServer = << >>
    /\ UNCHANGED vars

ClientStep == Connect \/ SendNext \/ Read \/ Ready \/ ReadBroken \/ SkipRollback \/ Fetch \/ Close
ServerStep == DoBegin \/ TakeScript \/ DoStatement \/ FailStatement \/ EndScript
                \/ DoCommit \/ FailCommit \/ DoRollback \/ Disconnected

Next == ClientStep \/ ServerStep \/ ConnectFails \/ Killed \/ Break \/ Finished

Spec == Init /\ [][Next]_vars

\* Client and backend keep running; nothing has to break.
Fairness == WF_vars(ClientStep) /\ WF_vars(ServerStep)
FairSpec == Spec /\ Fairness

-----------------------------------------------------------------------------

\* The values each variable ranges over.
TypeOK ==
    /\ call \in Calls
    /\ pc \in {"connect", "fetch", "close", "end"} \cup Commands
    /\ awaiting \in BOOLEAN /\ error \in BOOLEAN /\ inTx \in BOOLEAN
    /\ cached \in Nat /\ produced \in Nat
    /\ result \in {"none", "true", "false"}
    /\ answer \in {"none", "returned", "raised"}
    /\ link \in {"none", "up", "down"}
    /\ toServer \in Seq(Commands) /\ Len(toServer) =< 1
    /\ toClient \in Seq(Message)
    /\ status \in {"I", "T", "E"}
    /\ next \in 0..(Len(Script) + 1)
    /\ durable \in BOOLEAN

\* Client and backend stay in step.  What the client reads answers the command
\* it sent last, also after an error, and nothing is left to read when it sends
\* the next.  (A connection that broke may leave a last error.)  Between commands
\* in_transaction says what the backend's transaction status is: rollback()
\* looks at nothing else when it decides to send nothing.
InStep ==
    /\ TypeOK
    /\ link = "up" => \A k \in 1..Len(toClient) : awaiting /\ toClient[k].of = pc
    /\ link = "up" /\ ~awaiting /\ pc # "connect" => (inTx <=> status # "I")

\* execute_query fetches its rows after the commit; they are those the query
\* returned, no more and no less.
RowsKept ==
    pc \in {"fetch", "close"} /\ call = "query" /\ result # "false" /\ ~error
        => cached = produced

\* Every call ends, its connection is closed, and no transaction it opened stays
\* open, through a rollback() that raises in the except clause too.
SessionEnds == <>[](pc = "end" /\ link # "up" /\ status = "I")

-----------------------------------------------------------------------------

\* A call in the abstract.
Call == INSTANCE AtomicCall WITH
           done <- durable,
           told <- IF answer = "returned" THEN result
                   ELSE IF answer = "raised" THEN "raised" ELSE "none"

\* The session implements a call that happens entirely or not at all.  Of
\* execute_update: it returns True only if the script is committed, and False
\* only if it never will be.  A lost reply to the commit raises instead, because
\* the rollback of the except clause meets the broken connection too.
ImplementsCall == Call!Spec

=============================================================================
