------------------------------ MODULE PgClient ------------------------------
(***************************************************************************)
(* pg8000's Connection, Cursor and PreparedStatement in use: statements    *)
(* with and without parameters, statements prepared and cached by name,    *)
(* fetching, transactions and two-phase commit, and the backend that       *)
(* answers.  A method call is a list of exchanges; each sends up to a      *)
(* Query or Sync and reads messages up to READY_FOR_QUERY.  A handler that *)
(* raises in the middle leaves the rest of the answer unread, and later    *)
(* calls read it as theirs.  Messages whose handlers do nothing are left   *)
(* out.                                                                    *)
(***************************************************************************)
EXTENDS Naturals, Sequences, SequencesExt, FiniteSets

CONSTANTS
    Cursors,    \* cursors the application executes statements on
    Operations, \* kinds of statement the application executes
    Statements, \* PreparedStatement objects, and
    KindOf,     \* the kind of statement of each
    Oids,       \* tuples of parameter types they are run with
    Gids,       \* global transaction identifiers
    Forms,      \* whether an xid is (0, gid, ''), as tpc_recover makes them
    None,
    MaxCalls    \* bound: calls on the connection, autocommit's setter among them

ASSUME PgClientAssumption ==
    /\ Operations \subseteq {"select", "update", "failing", "broken", "odd", "copy out"}
    /\ KindOf \in [Statements -> {"select", "update", "failing"}]
    /\ Forms \subseteq BOOLEAN
    /\ {"own", "list"} \cap Cursors = {}
    /\ None \notin {"empty", "own", "other"}
    /\ \A k \in Operations : [k |-> k, g |-> None] # None
    /\ \A D \in SUBSET Oids :
          None \notin [D -> [n : Nat, desc : {None, "empty", "own", "other"}]]
    /\ MaxCalls \in Nat

VARIABLES
    conn,     \* the Connection's attributes, and a BIND not yet flushed
    cursor,   \* the Cursors, _run_cursor ("run"), _cursor ("own") and tpc_recover's
    cache,    \* name_map of the PreparedStatements; None when closed
    unread,   \* messages of the server the client has not read
    server,   \* the backend
    todo,     \* the exchanges left of the current call
    calls,    \* calls begun
    past      \* history: see Init

vars == <<conn, cursor, cache, unread, server, todo, calls, past>>

AllCursors == Cursors \cup {"run", "own", "list"}

SQL(kind) == [k |-> kind, g |-> None]
On(kind, gid) == [k |-> kind, g |-> gid]
Message(kind) == [k |-> kind, own |-> TRUE, v |-> None]
ReturnsRows(sql) == sql.k \in {"select", "odd", "list"}

-----------------------------------------------------------------------------
(***************************************************************************)
(* The backend: what a statement does to the transaction and what it says. *)
(***************************************************************************)
Fails(sv, sql) ==
    \/ sv.status = "E" /\ sql.k \notin {"commit", "rollback", "prepare"}
    \/ sql.k \in {"failing", "broken"}
    \/ sql.k = "prepare" /\ sv.status = "T" /\ sql.g \in DOMAIN sv.prepared
    \/ /\ sql.k \in {"commit prepared", "rollback prepared"}
       /\ sv.status # "I" \/ sql.g \notin DOMAIN sv.prepared

Forget(f, d) == [e \in DOMAIN f \ {d} |-> f[e]]
Known(f, d, v) == [e \in DOMAIN f \cup {d} |-> IF e = d THEN v ELSE f[e]]

Aborted(sv, sql) ==
    IF sql.k = "prepare" \/ sv.status = "I"
    THEN [sv EXCEPT !.status = "I", !.work = {}]
    ELSE [sv EXCEPT !.status = "E"]

Ended(sv) == [sv EXCEPT !.status = "I", !.work = {}]

Ran(sv, sql) ==
    IF Fails(sv, sql) THEN Aborted(sv, sql)
    ELSE CASE sql.k = "update" ->
                IF sv.status = "I" THEN [sv EXCEPT !.durable = @ \cup {calls}]
                                   ELSE [sv EXCEPT !.work = @ \cup {calls}]
           [] sql.k = "begin" -> [sv EXCEPT !.status = "T"]
           [] sql.k = "commit" ->
                IF sv.status = "T" THEN Ended([sv EXCEPT !.durable = @ \cup sv.work])
                                   ELSE Ended(sv)
           [] sql.k = "prepare" ->
                IF sv.status = "T" THEN Ended([sv EXCEPT !.prepared = Known(@, sql.g, sv.work)])
                                   ELSE Ended(sv)
           [] sql.k = "commit prepared" ->
                [sv EXCEPT !.durable = @ \cup sv.prepared[sql.g], !.prepared = Forget(@, sql.g)]
           [] sql.k = "rollback prepared" -> [sv EXCEPT !.prepared = Forget(@, sql.g)]
           [] sql.k = "rollback" -> Ended(sv)
           [] OTHER -> sv

Rows(sv, sql) ==
    CASE sql.k = "select" -> <<Message("D")>>
      [] sql.k = "odd" -> <<Message("unreadable D"), Message("D")>>
      [] sql.k = "copy out" -> <<Message("H"), Message("d")>>
      [] sql.k = "list" ->
           [i \in 1..Cardinality(DOMAIN sv.prepared) |->
               [Message("D") EXCEPT !.v = SetToSeq(DOMAIN sv.prepared)[i]]]
      [] OTHER -> <<>>

Describes(sql) == IF ReturnsRows(sql) THEN <<Message("T")>> ELSE <<Message("n")>>
Ready(sv) == <<[Message("Z") EXCEPT !.v = sv.status]>>

(* The answer to a Query, and to BIND and EXECUTE.                         *)
AnswerToExecute(sv, sql) ==
    IF Fails(sv, sql) THEN <<Message("E")>>
    ELSE Rows(sv, sql) \o <<[Message("C") EXCEPT !.v = sql.k]>>
AnswerToQuery(sv, sql) ==
    IF ReturnsRows(sql) /\ ~Fails(sv, sql)
    THEN Describes(sql) \o AnswerToExecute(sv, sql) ELSE AnswerToExecute(sv, sql)

(* PARSE looks at the text only, but not in a transaction that has failed. *)
ParseFails(sv, sql) == sv.status = "E" \/ sql.k = "broken"
ParseError(sv) == [sv EXCEPT !.status = IF @ = "I" THEN "I" ELSE "E"]

-----------------------------------------------------------------------------
(***************************************************************************)
(* handle_messages: reads up to READY_FOR_QUERY, or to the first message   *)
(* whose handler raises for cursor cu.                                     *)
(***************************************************************************)
HandlerRaises(cu, q, i) ==
    \/ q[i].k = "unreadable D"
    \/ q[i].k = "D" /\ ~cu.funcs /\ \A j \in 1..(i - 1) : q[j].k # "T"
    \/ q[i].k \in {"H", "d"} /\ ~cu.stream

\* Mutant: an error ends the reading.
ReadToError(cu, q) ==
    CHOOSE i \in 1..Len(q) :
        /\ q[i].k \in {"Z", "E"} \/ HandlerRaises(cu, q, i)
        /\ \A j \in 1..(i - 1) : ~(q[j].k \in {"Z", "E"} \/ HandlerRaises(cu, q, j))
ReadTo(cu, q) ==
    CHOOSE i \in 1..Len(q) :
        /\ q[i].k = "Z" \/ HandlerRaises(cu, q, i)
        /\ \A j \in 1..(i - 1) : ~(q[j].k = "Z" \/ HandlerRaises(cu, q, j))

Has(q, kind) == \E i \in DOMAIN q : q[i].k = kind
Where(q, kinds) == {i \in DOMAIN q : q[i].k \in kinds}
Of(q, kinds) ==
    LET S == Where(q, kinds)
    IN [n \in 1..Cardinality(S) |-> q[CHOOSE i \in S : Cardinality({j \in S : j =< i}) = n]]

(* _row_count: -1 (None here) until a command that counts has completed.   *)
Counts(m) == m.k = "C" /\ (m.v = "update" \/ ReturnsRows(SQL(m.v)))
Counted(cu, q) ==
    IF \A i \in DOMAIN q : ~Counts(q[i]) THEN cu.count
    ELSE IF \A i \in DOMAIN q : Counts(q[i]) => q[i].own THEN "own" ELSE "other"

Described(cu, q) ==
    LET S == Where(q, {"T", "n"})
        last == q[CHOOSE i \in S : \A j \in S : j =< i]
    IN IF S = {} THEN cu.desc
       ELSE IF last.k = "n" THEN "empty"
       ELSE IF last.own THEN "own" ELSE "other"

After(cu, q) ==
    [cu EXCEPT !.rows = @ \o Of(q, {"D"}),
               !.desc = Described(cu, q),
               !.funcs = @ \/ Has(q, "T"),
               !.count = Counted(cu, q)]

Cleared(cu, stream) == [cu EXCEPT !.rows = <<>>, !.count = None, !.stream = stream]
Emptied(cu) == [cu EXCEPT !.desc = "empty"]

Raised(cu, q) == LET i == ReadTo(cu, q) IN q[i].k # "Z" \/ Has(SubSeq(q, 1, i), "E")

(***************************************************************************)
(* One exchange on cursor c, which has become cu: the server has become sv *)
(* and said answer.  An exception ends the method; finally clauses put     *)
(* autocommit back.  An answer that never ends is waited for.              *)
(***************************************************************************)
Restored(cn) == [cn EXCEPT !.auto = past.auto]

Exchange(c, cu, sv, answer, cn, then) ==
    LET q == unread \o answer
        i == ReadTo(cu, q)
        read == SubSeq(q, 1, i)
        raised == q[i].k # "Z" \/ Has(read, "E")
        after == IF q[i].k = "Z" THEN [cn EXCEPT !.inTx = q[i].v # "I"] ELSE cn
    IN /\ server' = sv
       /\ IF \E j \in DOMAIN q : q[j].k = "Z" \/ HandlerRaises(cu, q, j)
          THEN /\ unread' = SubSeq(q, i + 1, Len(q))
               /\ cursor' = [cursor EXCEPT ![c] = After(cu, read)]
               /\ conn' = IF raised THEN Restored(after) ELSE after
               /\ todo' = IF raised THEN <<>> ELSE then
               /\ past' = [past EXCEPT !.derailed = @ \/ HandlerRaises(cu, q, i),
                                       !.failed = @ \/ raised]
          ELSE /\ unread' = q
               /\ todo' = <<[do |-> "wait for ever"]>>
               /\ UNCHANGED <<cursor, conn, past>>
       /\ UNCHANGED <<cache, calls>>

Step(kind) == todo # <<>> /\ Head(todo).do = kind

Begins == [do |-> "query", c |-> "run", sql |-> SQL("begin")]
\* Mutant: statements are sent without a transaction.
BeginNever(c) == <<>>
BeginOn(c) ==
    IF conn.inTx \/ conn.auto THEN <<>> ELSE <<[Begins EXCEPT !.c = c]>>

(* A BIND left in the write buffer by a DESCRIBE that raised goes first;   *)
(* when it fails the backend skips everything up to a Sync.                *)
BindLost == conn.held /\ (server.status = "E" \/ server.unnamed = None)
Flushed == [conn EXCEPT !.held = FALSE]
UpToSync(sv, answer) ==
    IF BindLost THEN <<Message("E")>> \o Ready(ParseError(server)) ELSE answer \o Ready(sv)
Unless(lost, sv) == IF BindLost THEN lost ELSE sv

(* execute_unnamed without parameters.                                     *)
SimpleQuery ==
    /\ Step("query")
    /\ LET st == Head(todo)
           sv == [Ran(server, st.sql) EXCEPT !.unnamed = None]
       IN Exchange(st.c, Emptied(Cleared(cursor[st.c], FALSE)),
                   Unless(ParseError(server), sv),
                   IF BindLost THEN <<Message("E")>>
                   ELSE AnswerToQuery(server, st.sql) \o Ready(sv),
                   Flushed, Tail(todo))

(* execute_unnamed with parameters or a stream: three exchanges.           *)
ParseUnnamed ==
    /\ Step("parse")
    /\ LET st == Head(todo)
           fails == ParseFails(server, st.sql)
           sv == IF fails THEN [ParseError(server) EXCEPT !.unnamed = None]
                 ELSE [server EXCEPT !.unnamed = st.sql]
       IN Exchange(st.c, Cleared(cursor[st.c], st.stream), Unless(ParseError(server), sv),
                   UpToSync(sv, IF fails THEN <<Message("E")>> ELSE <<>>),
                   Flushed, Tail(todo))

DescribeUnnamed ==
    /\ Step("describe")
    /\ LET st == Head(todo)
           fails == server.unnamed = None \/ (server.status = "E" /\ ReturnsRows(server.unnamed))
           sv == IF fails THEN ParseError(server) ELSE server
       IN Exchange(st.c, cursor[st.c], sv,
                   (IF fails THEN <<Message("E")>> ELSE Describes(server.unnamed)) \o Ready(sv),
                   [conn EXCEPT !.held = TRUE], Tail(todo))

BindExecute ==
    /\ Step("execute")
    /\ LET st == Head(todo)
           sv == IF BindLost THEN ParseError(server) ELSE Ran(server, server.unnamed)
       IN Exchange(st.c, cursor[st.c], sv,
                   UpToSync(sv, AnswerToExecute(server, server.unnamed)),
                   Flushed, Tail(todo))

(***************************************************************************)
(* prepare_statement: the lowest free number becomes the name before the   *)
(* server is asked, and stays taken when it refuses.  It returns the run   *)
(* cursor's input_funcs, which no constructor sets.  On success the run    *)
(* goes on, with a begin if one is needed then.                            *)
(***************************************************************************)
FreeName == CHOOSE n \in 0..Cardinality(conn.nums) :
                n \notin conn.nums /\ \A m \in 0..(n - 1) : m \in conn.nums

PrepareNamed ==
    /\ Step("prepare")
    /\ LET st == Head(todo)
           n == FreeName
           fails == ParseFails(server, SQL(KindOf[st.p])) \/ n \in DOMAIN server.named
           sv == IF fails THEN ParseError(server)
                 ELSE [server EXCEPT !.named = Known(@, n, <<st.p, st.o>>)]
       IN Exchange("run", cursor["run"], Unless(ParseError(server), sv),
                   UpToSync(sv, IF fails THEN <<Message("E")>>
                                ELSE Describes(SQL(KindOf[st.p]))),
                   [Flushed EXCEPT !.nums = @ \cup {n}],
                   <<[st EXCEPT !.do = "prepared", !.n = n]>> \o Tail(todo))

KeepPrepared ==
    /\ Step("prepared")
    /\ LET st == Head(todo)
       IN IF cursor["run"].funcs
          THEN /\ cache' = [cache EXCEPT ![st.p] =
                              Known(@, st.o, [n |-> st.n, desc |-> cursor["run"].desc])]
               /\ todo' = BeginOn("run") \o <<[st EXCEPT !.do = "run"]>> \o Tail(todo)
               /\ UNCHANGED past
          ELSE todo' = <<>> /\ past' = [past EXCEPT !.failed = TRUE] /\ UNCHANGED cache
    /\ UNCHANGED <<conn, cursor, unread, server, calls>>

(* execute_named, with the description kept when it was prepared.          *)
ExecuteNamed ==
    /\ Step("run")
    /\ LET st == Head(todo)
           kept == cache[st.p][st.o]
           found == kept.n \in DOMAIN server.named
           sql == SQL(KindOf[server.named[kept.n][1]])
           sv == IF found THEN Ran(server, sql) ELSE ParseError(server)
       IN Exchange("run", [Cleared(cursor["run"], FALSE) EXCEPT !.desc = kept.desc],
                   Unless(ParseError(server), sv),
                   UpToSync(sv, IF found THEN AnswerToExecute(server, sql) ELSE <<Message("E")>>),
                   Flushed, Tail(todo))

(* close_prepared_statement, for one name; the number is free again.       *)
\* Mutant: the server is not told.
CloseQuietly ==
    /\ Step("close")
    /\ conn' = [conn EXCEPT !.nums = @ \ {Head(todo).n}]
    /\ todo' = Tail(todo)
    /\ UNCHANGED <<cursor, cache, unread, server, calls, past>>
CloseNamed ==
    /\ Step("close")
    /\ LET n == Head(todo).n
           sv == [server EXCEPT !.named = Forget(@, n)]
       IN Exchange("own", cursor["own"], Unless(ParseError(server), sv), UpToSync(sv, <<>>),
                   Flushed, <<[do |-> "closed", n |-> n]>> \o Tail(todo))
FreeNumber ==
    /\ Step("closed")
    /\ conn' = [conn EXCEPT !.nums = @ \ {Head(todo).n}]
    /\ todo' = Tail(todo)
    /\ UNCHANGED <<cursor, cache, unread, server, calls, past>>

-----------------------------------------------------------------------------
(***************************************************************************)
(* The methods.  What an earlier call left unread is not this call's.      *)
(***************************************************************************)
Call(steps) ==
    /\ todo = <<>> /\ conn.open
    /\ calls < MaxCalls
    /\ calls' = calls + 1
    /\ todo' = steps
    /\ unread' = [i \in DOMAIN unread |-> [unread[i] EXCEPT !.own = FALSE]]
    /\ past' = [past EXCEPT !.ended = None]

Returns(method, sql, id) == <<[do |-> "return", of |-> method, sql |-> sql, id |-> id]>>
Asks(c, sql) == <<[do |-> "query", c |-> c, sql |-> sql]>>
AsksInThree(c, sql, stream) ==
    [i \in 1..3 |-> [do |-> <<"parse", "describe", "execute">>[i], c |-> c, sql |-> sql,
                     stream |-> stream]]

(* startup: up to READY_FOR_QUERY or an error.  The server may ask for a   *)
(* password in a way the client does not know, or one it was not given.    *)
CanAnswer(auth, password) ==
    auth = "trust" \/ (auth \in {"cleartext", "md5", "scram"} /\ password # "none")
Connect(auth, password) ==
    /\ ~conn.open /\ ~past.started
    /\ past' = [past EXCEPT !.started = TRUE]
    /\ conn' = [conn EXCEPT !.open = CanAnswer(auth, password)
                                      /\ (auth = "trust" \/ password = "right")]
    /\ UNCHANGED <<cursor, cache, unread, server, todo, calls>>

(* Cursor.execute, and Connection.run on the run cursor.                   *)
Execute(c, sql, params, stream) ==
    /\ Call(BeginOn(c)
              \o (IF params \/ stream THEN AsksInThree(c, sql, stream) ELSE Asks(c, sql))
              \o Returns("execute", sql, None))
    /\ UNCHANGED <<conn, cursor, cache, server>>

RunPrepared(p, o) ==
    /\ cache[p] # None
    /\ LET st == [do |-> "run", p |-> p, o |-> o, n |-> 0]
       IN Call((IF o \in DOMAIN cache[p] THEN BeginOn("run") \o <<st>>
                ELSE <<[st EXCEPT !.do = "prepare"]>>)
                 \o Returns("execute", SQL(KindOf[p]), None))
    /\ UNCHANGED <<conn, cursor, cache, server>>

ClosePrepared(p) ==
    /\ cache[p] # None
    /\ LET names == SetToSeq({cache[p][o].n : o \in DOMAIN cache[p]})
       IN Call([i \in DOMAIN names |-> [do |-> "close", n |-> names[i]]]
                 \o Returns("close", SQL("none"), p))
    /\ UNCHANGED <<conn, cursor, cache, server>>

\* Mutant: with autocommit on there is nothing to commit.
CommitIfManual ==
    /\ Call((IF conn.auto THEN <<>> ELSE Asks("own", SQL("commit")))
              \o Returns("commit", SQL("commit"), None))
    /\ UNCHANGED <<conn, cursor, cache, server>>
Commit ==
    /\ Call(Asks("own", SQL("commit")) \o Returns("commit", SQL("commit"), None))
    /\ UNCHANGED <<conn, cursor, cache, server>>

Rollback ==
    /\ Call((IF conn.inTx THEN Asks("own", SQL("rollback")) ELSE <<>>)
              \o Returns("rollback", SQL("rollback"), None))
    /\ UNCHANGED <<conn, cursor, cache, server>>

SetAutocommit ==
    /\ todo = <<>> /\ conn.open /\ calls < MaxCalls
    /\ calls' = calls + 1
    /\ conn' = [conn EXCEPT !.auto = ~@]
    /\ past' = [past EXCEPT !.auto = ~@, !.ended = None]
    /\ UNCHANGED <<cursor, cache, unread, server, todo>>

TpcBegin(gid, form) ==
    /\ Call(IF conn.auto THEN Asks("own", SQL("begin")) ELSE <<>>)
    /\ conn' = [conn EXCEPT !.xid = [gid |-> gid, form |-> form]]
    /\ UNCHANGED <<cursor, cache, server>>

TpcPrepare ==
    /\ conn.xid # None
    /\ Call(Asks("own", On("prepare", conn.xid.gid))
              \o Returns("prepare", SQL("none"), conn.xid.gid))
    /\ UNCHANGED <<conn, cursor, cache, server>>

(* tpc_commit and tpc_rollback: with autocommit on, tpc_recover lists the  *)
(* prepared transactions on a new cursor, as xids of the form (0, gid, '').*)
NewCursor == [rows |-> <<>>, desc |-> None, funcs |-> FALSE, count |-> None, stream |-> FALSE]

Tpc(method, xid) ==
    /\ Call(Asks("list", SQL("list")) \o <<[do |-> "choose", of |-> method, xid |-> xid]>>
              \o Returns("tpc", SQL(method), xid.gid))
    /\ conn' = [conn EXCEPT !.auto = TRUE]
    /\ cursor' = [cursor EXCEPT !["list"] = NewCursor]
    /\ UNCHANGED <<cache, server>>

Finish(method, gid) ==
    On(IF method = "commit" THEN "commit prepared" ELSE "rollback prepared", gid)
Listed(xid) ==
    xid.form /\ \E i \in DOMAIN cursor["list"].rows : cursor["list"].rows[i].v = xid.gid

\* Mutant: a transaction that was listed is committed as if it were open.
ChooseOpen ==
    /\ Step("choose")
    /\ LET st == Head(todo)
       IN todo' = (IF st.of = "commit" \/ conn.inTx THEN Asks("own", SQL(st.of)) ELSE <<>>)
                  \o Tail(todo)
    /\ UNCHANGED <<conn, cursor, cache, unread, server, calls, past>>
Choose ==
    /\ Step("choose")
    /\ LET st == Head(todo)
       IN todo' = (IF Listed(st.xid) THEN Asks("own", Finish(st.of, st.xid.gid))
                   ELSE IF st.of = "commit" \/ conn.inTx THEN Asks("own", SQL(st.of)) ELSE <<>>)
                  \o Tail(todo)
    /\ UNCHANGED <<conn, cursor, cache, unread, server, calls, past>>

(***************************************************************************)
(* A call returns.  What it promises: commit, and tpc_commit after a       *)
(* tpc_prepare, that the updates whose calls returned are there to stay,   *)
(* when no call of the transaction raised.                                 *)
(***************************************************************************)
Sound == IF past.failed THEN {} ELSE past.acked
Over == [past EXCEPT !.acked = {}, !.failed = FALSE]
Promised(gid) == IF gid \in DOMAIN past.pending THEN past.pending[gid] ELSE {}

Return ==
    /\ Step("return")
    /\ LET st == Head(todo)
       IN /\ past' =
               CASE st.of = "execute" /\ st.sql.k = "update" ->
                      [past EXCEPT !.acked = @ \cup {calls}]
                 [] st.of = "commit" -> [Over EXCEPT !.due = @ \cup Sound]
                 [] st.of = "rollback" -> Over
                 [] st.of = "prepare" -> [Over EXCEPT !.pending = Known(@, st.id, Sound)]
                 [] st.of = "tpc" /\ st.sql.k = "commit" ->
                      [Over EXCEPT !.due = @ \cup Sound \cup Promised(st.id), !.ended = st.id,
                                   !.pending = Forget(@, st.id)]
                 [] st.of = "tpc" /\ st.sql.k = "rollback" ->
                      [Over EXCEPT !.ended = st.id, !.pending = Forget(@, st.id)]
                 [] OTHER -> past
          /\ conn' = IF st.of = "tpc" THEN [Restored(conn) EXCEPT !.xid = None] ELSE conn
          /\ cache' = IF st.of = "close" THEN [cache EXCEPT ![st.id] = None] ELSE cache
    /\ todo' = <<>>
    /\ UNCHANGED <<cursor, unread, server, calls>>

(* fetchone, and fetchall and fetchmany as repeated.                       *)
Fetch(c) ==
    /\ todo = <<>> /\ cursor[c].rows # <<>>
    /\ cursor' = [cursor EXCEPT ![c].rows = Tail(@)]
    /\ UNCHANGED <<conn, cache, unread, server, todo, calls, past>>

(* close: the backend ends, and its open transaction with it.              *)
Close ==
    /\ todo = <<>> /\ conn.open /\ calls < MaxCalls
    /\ calls' = calls + 1
    /\ conn' = [conn EXCEPT !.open = FALSE]
    /\ server' = Ended(server)
    /\ UNCHANGED <<cursor, cache, unread, todo, past>>

(* Another session commits a prepared transaction at any time.             *)
OtherCommits(gid) ==
    /\ gid \in DOMAIN server.prepared
    /\ server' = [server EXCEPT !.durable = @ \cup server.prepared[gid],
                                !.prepared = Forget(@, gid)]
    /\ UNCHANGED <<conn, cursor, cache, unread, todo, calls, past>>

-----------------------------------------------------------------------------

Init ==
    /\ conn = [open |-> FALSE, auto |-> FALSE, inTx |-> FALSE, xid |-> None, nums |-> {},
               held |-> FALSE]
    /\ cursor = [c \in AllCursors |-> NewCursor]
    /\ cache = [p \in Statements |-> <<>>]
    /\ unread = <<>>
    /\ server = [status |-> "I", work |-> {}, durable |-> {}, prepared |-> <<>>,
                 named |-> <<>>, unnamed |-> None]
    /\ todo = <<>>
    /\ calls = 0
    /\ past = [started |-> FALSE,   \* connecting was tried
               auto |-> FALSE,      \* what the application set autocommit to
               derailed |-> FALSE,  \* a handler has raised before READY_FOR_QUERY
               failed |-> FALSE,    \* a call of the transaction raised
               acked |-> {},        \* updates of it whose call returned
               pending |-> <<>>,    \* gid -> updates promised once it is committed
               due |-> {},          \* updates promised
               ended |-> None]      \* gid of a tpc call that just returned

Next ==
    \/ \E auth \in {"trust", "cleartext", "md5", "scram", "gss"}, w \in {"none", "right", "wrong"} :
          Connect(auth, w)
    \/ \E c \in Cursors, k \in Operations, params, stream \in BOOLEAN :
          /\ stream => k = "copy out" /\ params
          /\ Execute(c, SQL(k), params, stream)
    \/ \E p \in Statements : ClosePrepared(p) \/ \E o \in Oids : RunPrepared(p, o)
    \/ SimpleQuery \/ ParseUnnamed \/ DescribeUnnamed \/ BindExecute
    \/ PrepareNamed \/ KeepPrepared \/ ExecuteNamed \/ CloseNamed \/ FreeNumber
    \/ Commit \/ Rollback \/ SetAutocommit
    \/ \E gid \in Gids, form \in Forms : TpcBegin(gid, form)
    \/ TpcPrepare
    \/ \E method \in {"commit", "rollback"} :
          \/ conn.xid # None /\ Tpc(method, conn.xid)
          \/ \E gid \in Gids, form \in Forms : Tpc(method, [gid |-> gid, form |-> form])
    \/ Choose \/ Return
    \/ \E c \in Cursors \cup {"run"} : Fetch(c)
    \/ Close
    \/ \E gid \in Gids : OtherCommits(gid)

Spec == Init /\ [][Next]_vars

-----------------------------------------------------------------------------

Quiet == todo = <<>> /\ conn.open

\* The state is well formed; a BIND waits in the buffer only for its EXECUTE.
TypeOK ==
    /\ server.status \in {"I", "T", "E"}
    /\ server.status = "I" => server.work = {}
    /\ \A c \in AllCursors : cursor[c].desc \in {None, "empty", "own", "other"}
    /\ conn.nums \subseteq Nat
    /\ conn.held /\ ~past.derailed => Step("execute")
    /\ calls \in 0..MaxCalls

\* The state is well formed.  Between calls nothing is left unread and every row
\* and description a cursor holds came in answer to its own statement, unless a
\* handler has raised in the middle of an answer: an error, in whichever
\* exchange, is no exception.
InStep ==
    /\ TypeOK
    /\ Quiet /\ ~past.derailed =>
         /\ unread = <<>>
         /\ conn.inTx <=> (server.status # "I")
         /\ \A c \in AllCursors :
              /\ "other" \notin {cursor[c].desc, cursor[c].count}
              /\ \A i \in DOMAIN cursor[c].rows : cursor[c].rows[i].own

\* A name the server knows is not given again, whatever raised in between, and
\* the statement cached under a name is the one the server has prepared.
NamesAgree ==
    ~past.derailed =>
      /\ DOMAIN server.named \subseteq conn.nums
      /\ Quiet => \A p \in Statements : cache[p] # None =>
           \A o \in DOMAIN cache[p] :
             cache[p][o].n \in DOMAIN server.named /\ server.named[cache[p][o].n] = <<p, o>>

\* commit, or tpc_prepare and then tpc_commit with an xid as tpc_recover forms
\* it, keeps every update acknowledged since the transaction began.
CommitHonest == Quiet /\ ~past.derailed => past.due \subseteq server.durable

\* A step of this connection that makes an update durable, autocommit off, commits.
DurableByCommit ==
    server.durable' # server.durable /\ ~past.derailed /\ todo' # todo =>
       \/ past.auto
       \/ Head(todo).sql.k \in {"commit", "commit prepared"}

\* While autocommit is off an update becomes durable by a commit only: every
\* statement runs inside a transaction that was begun for it.
NoStrayWork == [][DurableByCommit]_vars

\* "On return, the TPC transaction is ended" (core.py:1481): it is no longer
\* prepared on the server.  tpc_commit and tpc_rollback leave autocommit as the
\* application set it, also when they raise.
TpcEnds ==
    /\ past.ended # None /\ ~past.derailed => past.ended \notin DOMAIN server.prepared
    /\ Quiet => conn.auto = past.auto
=============================================================================
