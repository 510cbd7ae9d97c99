# postgres-perfstats in TLA+

This directory holds a verification development of postgres-perfstats: modules
that model the program, TLC configurations that check them on small instances,
and proofs for every value of the constants. Paths of the form `file:line`
refer to the repository.

## 1. The system

postgres-perfstats gives an Aurora PostgreSQL cluster what Oracle calls AWR: a
history of the server's statistics, and reports on the difference between two
points of that history. Two Lambda functions on a schedule write the history
into the schema `perfstat` of the cluster's writer; psql scripts report on it.

    EventBridge --every 15 min--> create_perfstat_snap   --\
                --every minute--> create_perfstat_sample ---+-- run_update / run_query
                (Lambda repeats a failed event)             |   (postgres_utils, pg8000)
                                                            v
        CloudWatch metrics --(host statistics)--->  schema perfstat on the writer
        readers --(foreign tables)--------------->  (partitions kept by pg_partman)
                                                            |
                                     awrrpt.sql, awrsqlrpt.sql, ashrpt.sql, chk_*.sql

### Components

**Snapshot collector** (`create_perfstat_snap.py`, `create_perfstat_snap.sql`,
`create_perfstat_snap_for_ro.sql`).
State: rows of `perfstat.snap` and of the `*_hist` tables; the handler's local
variables. One delivery of an event is a series of transactions, each on a
connection of its own: the snap script (a new row of `perfstat.snap` and the
statistics of the writer), a query for the writer's name, the writer's host
metrics, a query for the readers, and for each reader its script and its host
metrics. Every statement but the first files its rows under "the newest
snapshot", which it looks up again. A failed script is printed and ignored; an
exception outside of the scripts fails the delivery, and Lambda repeats it.
Hard: overlapping runs, retries, a failover between two transactions, the
newest snapshot changing under a run. Correct when: numbers have no gap and,
without overlap, no duplicate and follow the times; a snapshot has the
statistics of its writer in full; rows refer to a snapshot that exists, never
to one older than their run's own; no run waits for ever.

**Sample collector** (`create_perfstat_sample.py` and its two scripts).
State: rows of `perfstat.pg_stat_activity_sample`. The same shape, with one
insert per script and no key. Correct when: a delivery samples an instance once,
readers are sampled, every event ends.

**Database session** (`postgres_utils.py`, the part of `pg8000/core.py` under
`Cursor.execute`, `commit`, `rollback`, `close`).
State: the connection, pg8000's `in_transaction` and `error`, the cursor's rows,
the messages in flight, the backend's transaction. Hard: errors end a command
but not its messages, the reply to a commit may be lost, `rollback()` may itself
raise, rows are fetched after the commit. Correct when: an answer is true, the
exchange stays in step, the connection ends closed and nothing stays open.

**Schema and retention** (`create_perfstat_schema.sql`,
`change_awr_retention.sql`, the `run_maintenance` calls of the scripts).
State: partitions and retention of ten tables, each on its own. Correct when:
rows expire when they should, and snapshots together with their statistics.

**AWR report** (`awrrpt.sql`; `awrrpt_no_input.sql` and
`awrrpt_batch_by_time.sql` drive the same text). Reads only. It takes two
snapshots and an instance, refuses if an instance restarted in between, and
shows differences of cumulative counters. Correct when: what it shows is what
happened, and it refuses when, and only when, it has to.

Two variants: `awrrpt12.sql`, for servers of version 12, joins the
two snapshots differently and checks nothing; `awrrpt_batch_by_time.sql`
takes two times and turns them into snapshots.

**Other reports** (`awrsqlrpt.sql`, `ashrpt.sql`, `chk_*.sql`,
`list_snap.sql`): read-only queries over the same tables.

**Foreign tables of the readers** (`create_perfstat_foreign_table.sql`): run by
hand for each reader; what it leaves is the set of readers the collectors see.

**Deployment** (`create_*.sh`, `create_postgresi_user.sql`): the schedule, the
900 s timeout, roles and permissions.

**pg8000** (`pg8000/core.py`, shipped with the functions). `Connection`, `Cursor`,
`PreparedStatement`. State: `in_transaction`, `autocommit`, the xid of a two-phase
transaction, the numbers of the statements prepared, each cursor's description and
rows, and the messages not read yet. Hard: a call is several exchanges and each may
raise; names are shared with the server; a handler that raises in the middle leaves
an answer behind. `convert_paramstyle` rewrites the text of every statement that
has parameters, one character at a time. Correct when: a call reads its own answer,
a name means the same on both sides, a commit is honest, quoted text is left
alone.

**scramp** (`scramp/core.py`): the client's and the server's side of SCRAM as two
stage machines, driven by whoever calls their methods. Correct when: the last
stage is passed only by someone who knows the password, for this exchange, and an
honest login never fails.

**asn1crypto**: about 300 ASN.1 types declared as tables
(`algos.py`, `keys.py`, `x509.py`, `cms.py`, `ocsp.py`, `crl.py`, `csr.py`,
`tsp.py`, `pkcs12.py`, `pdf.py`) and one lazy decoder for all of them (`core.py`).
State: per value its bytes, cached header, built children and cached native value.
Hard: the tables decide what may be skipped; five copies of one value. Correct
when: what is written is read back, nothing is lost or misplaced, and a value that
was only read dumps to the bytes it came from.

### How they interact

Everything goes through the database. The collectors share `perfstat.snap`; the
snap script also does the maintenance of `host_stat_hist`, which other scripts
fill; the reports depend on what the collectors guarantee: `snap_id` alone
identifies a snapshot, consecutive numbers are consecutive snapshots
(`chk_*_all.sql` join on `b.snap_id = a.snap_id + 1`), numbers follow times
(`awrrpt_batch_by_time.sql` turns times into numbers by min and max).
`postgres_utils` reaches the database through pg8000, which logs in with scramp;
asn1crypto comes with them.

## 2. Modules

| Module | Models | Grain |
|---|---|---|
| `SnapCollector` | snapshot collector | statement by statement, any number of runs |
| `SnapshotLog` | its abstract specification | a log of snapshots |
| `SampleCollector` | sample collector | script by script |
| `DbSession` | one `run_update` or `run_query` | message by message, with the backend |
| `AtomicCall` | its abstract specification | happens or not; an answer tells which |
| `Retention` | partitions and retention | the snap script as one step |
| `AwrReport` | the report's check and sums | over a history with restarts |
| `PgClient` | pg8000's objects in use, with a backend | exchange by exchange |
| `ParamScan` | `convert_paramstyle` | character by character |
| `ScramExchange` | scramp's client and server | method by method |
| `Asn1Types`, `AlgosSchema`, `KeysSchema`, `X509Schema`, `CmsSchema`, `PkixSchema` | the types of asn1crypto | a record per type |
| `FieldDecoder` | how elements are assigned to fields | element by element |
| `Asn1Value` | lazily decoded values | accessor by accessor |
| `*Proofs` | theorems of the module named | |
| `MC*` | constants and bounds for TLC | |

The models divide the work by the level of detail. `DbSession` establishes what
a script is for the others: it happens entirely or not at all, and `run_update`
says which or raises. `SnapCollector` takes that for granted and asks what
overlapping runs make of their transactions; `SnapshotLog` says what is left
for a reader when runs do not overlap. `Retention` and `AwrReport` start from
there: they take snapshots as single steps, and ask what expiry and reports make
of them. `PgClient` has everything an application may call where `DbSession` has
one path and a connection that breaks. `FieldDecoder` asks which element is which
field, `Asn1Value` what becomes of a field afterwards.

### SnapCollector

A run is an event of the schedule; `attempt` counts its deliveries. `phase` is
the line of `lambda_handler` it stands at: `snap` (277-282), `askWriter`
(284-289), `whost` (290-296), `askReaders` (298-303), `loop` (304), `ro` and
`rhost` (the body of the loop); `idle`, `retry`, `done` and `dead` are states of
the event at Lambda. `stmt` is the next statement of the open transaction.
Rows a transaction wrote are in `txSnap` and `txHist` until `Commit` adds them to
`snap` and `hist`. A batch stands for all rows one insert statement writes.

Isolation is READ COMMITTED: `Visible` is what is committed now and the
transaction's own rows. The primary key of `instance_hist` is modelled with its
waiting (`Wait`, `WaitOver`, `KeyViolation`); `pg_stat_statements_hist` has a
key that goes down to the query, and a clash there is a `StatementFails`.
`ReplyLost` is a commit whose reply was lost; it takes effect at that moment
(`DbSession` also has the commit that takes effect later, after the
connection broke). `Raise` is every exception that leaves the handler, and the
timeout. A failover cuts the open sessions and changes who the writer is.
Order of `now()`: `Begin` draws a new time, which is stored by `InsertSnap`.

### SampleCollector

The same events, phases and failures. A script is one insert with no key, so it
is one step, and runs do not wait for each other. `faults` is a history
variable: the delivery met a failed script or query.

### DbSession

`pc` is the command the client is at: `begin`, `script`, `commit`, `rollback`,
then `fetch`, `close`, `end`. `Send` is `execute_unnamed` up to
`handle_messages`; `Read` and `Ready` are rounds of its loop; `ReadBroken` is the
read that fails. `error`, `inTx`, `cached` are `con.error`,
`con.in_transaction`, `cur._cached_rows`. The backend (external) takes the query
message, executes the statements of the script one by one, and answers. `Break`
loses the connection with any suffix of what was in flight; `Killed` is the
timeout. Sending and flushing into a broken connection is one failure with the
read that follows: both raise in the same place. Type conversion of a row does
not fail: the queries return text. What is given to run_query has a select
(`QueryAssumption`): for a script that returns no columns fetchall raises after the
commit (pg8000/core.py:480), and [] is returned for what took effect.

### Retention

Days, partitions per table, rows of `perfstat.snap` and batches of the other
tables. `TakeSnap` is the whole of `create_perfstat_snap.sql`: maintenance of
each table, then its rows. `Days` is `partman.run_maintenance` (external):
partitions up to tomorrow are made, those older than the retention dropped.
`SaveHost` is any later script that files rows of `host_stat_hist` under the newest
snapshot, however old. Reader rows go to tables and days that have the writer's
already and are not told apart. The transaction of the snap script is one
step here, and runs do not overlap.

### AwrReport

Instances spend time on queries and restart; `counter` is
`pg_stat_statements`, `start` is `pg_postmaster_start_time()`; `spent` is what
really happened and is read by properties only. `TakeSnap` saves the writer,
`SaveReader` a reader later and under the snapshot's time. The report is a set of
operators, each a query of `awrrpt.sql`: `CheckPasses` (37-44), `BeginTime` and
`TimeOf` (the right join of 71-82), `TotalTime` (378-397). `DbTime12` is the inner
join of `awrrpt12.sql`, `Bounds` the period `awrrpt_batch_by_time.sql` makes of two
times. Roles are fixed, and `pg_stat_statements` neither evicts nor is reset
by hand.

### PgClient

`conn` holds the attributes of `Connection`, `cursor` those of each `Cursor` (the
application's, the one `run` and `commit` use, the one `tpc_recover` makes), `cache`
the `name_map` of each `PreparedStatement`. A call puts its exchanges
into `todo`; an action takes the first: it sends, the backend (external) answers at
once, and the handlers run. A handler that raises ends the call: `todo` is
emptied and what was not read stays in `unread`, where the next call finds
it. `server` is the transaction's status and work, what is durable, what is prepared
for two-phase commit, and the statements by name. `past` is history for the
properties. `OtherCommits` is another session that ends a prepared transaction.

What the model shows of the code beside its properties:

- a handler that raises (a row that cannot be converted) leaves the connection
  one answer behind for good, which is why the properties hold up to `derailed`;
- the first prepare of a statement that returns no rows raises `AttributeError`,
  and its name is never used again;
- `commit()` inside a two-phase transaction is not refused, `tpc_prepare()`
  outside of one raises `TypeError`, and `PREPARE TRANSACTION` of a failed
  transaction rolls back and says nothing;
- a failed start leaves the socket open; a `BIND` stays in the write buffer if
  `DESCRIBE` raises; SASL without a password raises `AttributeError`.

### ParamScan

One step is one turn of the scanner's loop: the character read, one of lookahead,
one remembered, and the six states of the scanner. The text is chosen as it is
read, so every text up to `MaxLen` is scanned. `Lex` is the reference: what
PostgreSQL takes the character for. It knows only what a text needs that the scanner
can follow; from the first place on where the server has a rule the scanner lacks,
the text is `Odd` and the properties say nothing of it. Such places are: a quote
that begins an escape string for one of the two only (`e'...'`, a longer word that ends in
E, an escape string continued after blanks and comments: `Joins`); in an escape string
two backslashes or a doubled quote; a dollar sign (`$$` quotes, `$1`) and the start of a
block comment outside of quotes; a carriage return in a comment; and placeholders
that name nothing, as in an array slice `a[1:2]`. Signs beyond ASCII that are neither
letters nor digits are not considered. A text that ends in ":" raises `TypeError`; in style `pyformat` a "%%" turns the style
to `format` (core.py:127).

### ScramExchange

`client` and `server` are the attributes of `ScramClient` and `ScramServer`, one
action per method; `wire` is every message there has been, those of an earlier
exchange of some account included, and a `set_` method takes any of them.
Hashes, HMAC and exclusive or are terms. A call that is out of turn raises and
changes nothing (it raises `TypeError`, because `_check_stage`, 41-43, builds its
message wrongly); one in turn that fails has advanced the stage already and cannot
be repeated. `saslprep` is a table; the characters it refuses are left out. `Cut`
is `_parse_message`, which splits at commas: a user name that has one is cut (203).

### Asn1Types, the schemas, FieldDecoder

A type is the record the decoder works from: identifiers, fields with their use
(required, optional, default), alternatives, the OID that decides another
field's type, names. The schema modules translate the class bodies of the source
one by one. `FieldDecoder` writes any type of the catalogue with any choice of its
optional fields, damages the encoding in one place, and reads it with the loop of
`Sequence._parse_children`, the map of `Set._parse_children`, the alternatives of
`Choice` and the names of `ValueMap`. What is inside an element is the business of
its own type, which is in the catalogue too.

Fields excluded by name (`Unclear` in the MC module): those of two structures whose
optional fields share an identifier (x509.py:1227 and 1399). `EDIPartyName` can
never be written (x509.py:1407). A set with an absent optional field raises
`TypeError` in `dump()` (core.py:4746-4776).

### Asn1Value

An object is a tree of nodes with the places a value may be held in: the bytes, the
children, built or not, the cached header, the cached native value. Actions are what
a caller does: read a field at any depth, assign, delete, append, `set()` on a
child, `native`, `dump()`, `dump(force=True)`, `copy()`. `value` is the history: what
was loaded or last written. Which edits a plain `dump()` does not see is part of the
properties, with `past` as their memory: `set()` on a child, edits beneath a
Choice or in what an octet string was decoded to. An explicitly tagged Choice keeps a
stale header (1341-1346); `ParsableOctetString.set` after parsing is undone by
`dump(force=True)` (2747, 2882); native values go stale where 592-593 return the
cached one.

A header whose last byte is 80 is taken for an indefinite one (631-632, 1337, 4112,
4584), a definite long one too (30 82 00 80 before 128 bytes), and encoded again
(`EndsIn80`). Sizes are modelled for this, and so that a header that outlived its
contents shows (`Fits`, `Outgrown`); the wide value of the run makes 128 bytes.

A Choice is decoded from the header and contents of its alternative without what
follows them (5531), so an alternative of indefinite length raises (`Refused`): not in
`load()` of the structure around it, which does not decode it, but in each later call
that does. A call that raises leaves what it did before that: the children in front of
the refused one are built, or encoded, the structure's own bytes are not (`Visited`). The
properties hold after such calls too, and `ForcedExact` and `NativeExact` say that these
calls raise exactly as long as a refused alternative is in the tree; it can be
replaced. Calls are made on objects only whose bytes yet to be decoded state their lengths
(`Legible`): a copy made of a structure with an outgrown header may have others, and
what the parser makes of them is not modelled.


## 3. Runs

| Run | Question | Instance |
|---|---|---|
| `snap_serial` | What do failed scripts, failed runs, lost replies, retries and a failover leave, when runs do not overlap? Does the collector implement `SnapshotLog`? | two events, three deliveries in all, two instances, one failover |
| `snap_overlap` | What survives when two runs interleave statement by statement, and does each end, with keys to wait for and no timeout to help? | two events at once, two instances |
| `sample` | Is an instance sampled once per delivery, and does every event end? | two events, two deliveries each, three instances, one failover |
| `sample_readers` | violation, see Findings | one event, one delivery |
| `session` | Is the answer of `run_update` true, does the exchange stay in step, does the session end and implement `AtomicCall`? | a script of a select (up to two rows) and an insert, everything may break |
| `retention` | Do snapshots and statistics expire together, at the right time? | two tables beside `snap` and `host_stat_hist`, six days, four snapshots, retention 0 to 3 days |
| `report` | Is a report that passes its check exact, and is a refusal justified? What do the variants show? | writer and reader, two queries, three snapshots, two restarts |
| `client` | Does each call read its own answer, do names agree, are commits honest, whatever the order of calls? | five calls of any methods, two prepared statements, one xid |
| `params` | Are quotes left alone and is every placeholder found? | every text of up to seven characters, five styles |
| `scram` | Who can pass the last stage, and does an honest login ever fail? | nine calls in any order, two accounts, three users, an earlier exchange |
| `asn1_read` | Does each type read what it wrote; what does a damaged encoding leave? | 296 types, every choice of optional fields, five kinds of damage |
| `asn1_value` | Do reads, dumps and native values agree with what was written? | three calls, five structures, five mixes of header forms, values of 1 and 125 bytes |

Why the bounds are enough.

- `snap_serial`: a delivery that goes wrong, one that goes wrong in another way and
  one that meets what both left; the same event twice with the other before,
  between or after. Scripts are shortened to one table with a key, one without
  behind it, and one host insert. One failover lies before, between or after any
  two transactions.
- `snap_overlap`: the snap script ends after the table with the key. All races are
  between the statements of two runs; a third adds more of the same competitors,
  and `OverlapSafe` is proved for any number. Without faults a waiting insert has
  exactly one holder to wait for, so two runs show a cycle if there is one.
- `retention`: the whole retention passes twice and changes in either direction.
- `report`: every pair of snapshots is reported on in every state, so three
  snapshots hold pairs with and without one in between.
- `client`: five calls are: connect, begin or prepare, an update, a call that fails, and
  a commit or a second use of what was cached. One more call changed no
  result. `OtherCommits` costs no call.
- `params`: an alphabet has the characters of its style's placeholders and some of
  those of quotes and comments, so that between them the five have all the scanner tests
  for (`"` and `E` are in that of `qmark`, `E` and `\` in that of `named`, `=` in that of
  `numeric`, a newline in that of `qmark`); no single one has all. `$`, `/*`
  and `e` are there to reach `Odd`. Seven characters are enough for a quote that is
  opened, escaped and closed with a placeholder inside and one behind it. The proofs
  cover all characters together.
- `scram`: a complete exchange has eight calls; nine leave room for one too many.
- `asn1_read`: structures of up to five elements are damaged; longer ones are only
  written and read. The skip rule looks at two neighbours.
- `asn1_value`: four structures have each one way for a child to hide from its parent
  (nesting, a list, a Choice, an octet string), the fifth stands alone for the header
  that ends in 80; the three calls are one to build or cache, one to edit, one to
  observe. Both forms of an indefinite header, outside and inside, are among the
  mixes, with a Choice as the one that is refused.

`CHECK_DEADLOCK FALSE` is used where the bounds or the end of a call sequence end
the run (`AwrReport`, `Retention`, `PgClient`, `ScramExchange`, `ParamScan`,
`Asn1Value`); elsewhere a `Finished` step stands for the end and any other state
without a successor is an error.

Symmetry: the events in `snap_serial`, the queries in `report`. Runs with a
liveness property use none.

### What the properties say

A type invariant is a property of its own in `snap_serial` and `report`; in the
other modules it is the first conjunct of the property named.

- `CollectorInv` (with `GaplessIds`, `HistRefersToSnap`), `NeverOlder`: with
  overlap and rollbacks numbers are still 1, 2, 3, ...; no foreign key is declared,
  and each statement looks the newest snapshot up again, yet rows always have a
  snapshot, and never one older than their run's own.
- `IdsInOrder`, `SnapComplete`, `OneSource`: what the reports assume; they hold
  without overlap only (and are proved then). With overlap two runs commit the same number, in
  either order of their times (add `IdsInOrder` to `MCSnapOverlap.cfg`).
- `ImplementsLog`: without overlap every step is a step of `SnapshotLog`, through
  every failure.
- `EveryEventEnds`: a waiting insert always gets its turn or its violation.
- `OncePerDelivery`: no key protects the sample table; the order of the handler
  does, except for a reader promoted in its course.
- `ImplementsCall`: True means committed, False means never; a lost reply raises
  because the rollback meets the broken connection too.
- `DbSession!InStep`, `RowsKept`, `SessionEnds`: an error ends a command but not its
  messages, rows are fetched after the commit, `rollback()` may itself raise.
- `ExpireTogether`, `RetentionInv`, `KeepsWhatItShould`: ten tables that expire on
  their own behave as one.
- `ReportExact`, `RefusalJustified`: the check of start times is enough for the
  difference of counters to be exact, for the writer always and for a reader
  unless it restarts before its late rows are saved.
- `Awr12LeavesNew`: the version 12 report leaves out what queries new in the period
  took, and nothing else.
- `WindowExact`: a period of times is turned into the snapshots inside of it; a
  period without one runs backwards, from the snapshot after it to the one before,
  and no check stops that report.
- `PgClient!InStep`, `NamesAgree`, `CommitHonest`, `NoStrayWork`, `TpcEnds`: see
  the comments in the module; all but the second half of `TpcEnds` hold up to
  the first handler that raises.
- `QuotesKept`, `EachFound`, `WritesBack`: scanner and server agree on what is
  quoted; each placeholder outside of it is a slot; the text can be restored.
- `ServerTrustsHolder`, `ClientTrustsServer`, `HonestSucceeds`: old messages prove
  nothing, in whatever order methods are called, and there is no false alarm.
- `RoundTrip`, `ReadIsComplete`, `NothingLost`: for each type.
- `AccessorsExact`, `DumpExact`, `ForcedExact`, `NativeExact`: decoding on demand
  never undoes an edit, and no call that raises does; what was not edited keeps the
  bytes a signature is over, unless its header ends in 80.

Each property has a mutant, a definition changed the way a bug would change the
code, under which its run fails; they stand before the definition they replace.

### Fairness

`SnapCollector` and `SampleCollector`: weak fairness of each run's `Fire`
(EventBridge and Lambda deliver) and `Progress` (a handler that can take a step
takes one). No fault is ever forced, so the results do not lean on the 900 s
timeout. `DbSession`: weak fairness of the client and of the backend; the network
does not have to break. A wait for a key is not progress until its holder ends,
and the holder has its own fairness. The other modules have no liveness
property: their steps are calls, which nobody has to make.

### Findings

- `sample_readers`: the query for readers selects the writer
  (`create_perfstat_sample.py:27`), so readers are never sampled.

### Claims the code does not keep

These are stated as definitions beside the properties and are violated by what the
code does. They have no run of their own; add the definition as an `INVARIANT` to
the configuration to see the behaviour.

| Definition | Claim | What happens | Configuration |
|---|---|---|---|
| `OneSnapshotPerRun` | README.md:68 "as one snapshot" | after a failed snap script a run files its rows under the snapshot of an earlier run | `MCSnapSerial.cfg` |
| `PassMeansNoRestart` | awrrpt.sql:39 | a reader that restarts between the snapshot's time and the saving of its rows passes the check | `MCAwrReport.cfg` |
| `RefusalMeansRestart` | awrrpt.sql:39 | the check counts restarts of all instances | `MCAwrReport.cfg` |
| `TotalTimeIsDbTime` | awrrpt.sql:378 "total time" | a new query is shown two milliseconds short (381, coalesce to 2) | `MCAwrReport.cfg` |
| `StrayReported` | core.py:3931, the error message | an element after the last field is accepted silently; the branch is not reached | `MCFieldDecoder.cfg` |
| `LoadedIsRead` | asn1crypto/core.py:210, 1048 "Loads a BER/DER-encoded byte string" | a Choice whose alternative has an indefinite length raises when it is read: 5531 leaves out the two bytes it ends with | `MCAsn1Value.cfg` |
| `DumpFits` | asn1crypto/core.py:1334 "A byte string of the DER-encoded value" | after a change inside an explicitly tagged Choice and another beside it, the Choice's old header (1341) states the old length | `MCAsn1Value.cfg` |
| `TpcEnds` | core.py:1481 "On return, the TPC transaction is ended" | `tpc_commit` with an xid of another form than `tpc_recover` gives leaves it prepared (1496) | `MCPgClient.cfg` with `Forms = {TRUE, FALSE}` |

## 4. Proofs

Assumptions are those of the modules (`ScriptAssumption`, `InstanceAssumption`,
`BoundAssumption`, `ReportAssumption`, `RetentionAssumption`, `SampleAssumption`,
`SessionAssumption`, `PgClientAssumption`, `ScramAssumption`, `DamageAssumption`,
`CatalogAssumption`, `ParamScanAssumption`),
checked by TLC on each instance. All theorems hold for any sets of runs, instances,
queries, tables, users, scripts and types; the bounds only occur as natural numbers.
Every inductive invariant named here was an invariant of a TLC run before it was
proved.

- `SnapCollectorProofs`. `TypeCorrect`: the type invariant, by one step per
  action. `CollectorInvariant`, and from it `OverlapSafe`: `GaplessIds`,
  `HistRefersToSnap` and `NeverOlder` for any number of overlapping runs. None is
  inductive: what is committed comes from transactions, so `CollectorInv` says the
  same of what they hold (`GaplessTx`, `RefersTx`), that a closed one holds nothing
  (`TxShape`), and that what an attempt has written carries its name (`Authorship`),
  without which `NeverOlder` could be broken by an attempt that finds rows of its own
  name already there. The lemmas follow the actions: a step that leaves the tables
  and transactions alone (`QuietStep`), a new delivery, the insert of a snapshot, the
  insert of a batch, the end of a transaction, the commit.
  The second half has one run at a time (`NoOverlap`, which also says that both
  scripts save `instance_hist` and that host metrics have a table of their own, as
  the source's do). Then hold `NumbersFollowTimes`, `SnapshotsComplete` and
  `StatisticsFromOneRun` (`IdsInOrder`, `SnapComplete`, `OneSource`), and
  `LogImplemented`, the refinement of `SnapshotLog`. `SerialInv`: the numbers are 1 to
  the number of snapshots (`Numbered`), the open script is younger than all of them
  (`Times`, `NewSnap`), a transaction holds exactly the rows of the statements it has
  been through (`TxRows`), and where there are statistics there is the row of
  `instance_hist` whose key turns a second transaction away (`Keys`). The commit is
  the only step that shows in the log.
- `DbSessionProofs`. `StaysInStep`: the client reads the answer to its own command.
  `CallImplemented`: the refinement of `AtomicCall`. `SessionInv` ties the two ends
  together: where each side may be (`Places`), that what is in flight answers the
  command in hand (`InTouch`), what a READY_FOR_QUERY on its way says of the backend
  (`ReadyMeans`), what each stage of the call implies about the transaction (`Stage`),
  what is certain once the link is down (`Lost`), and that an answer is true
  (`Honest`). `ReadyMeans` is the heart: a message that is late must still say what is
  the case when it is read. `RowsFetched` counts: a row the script returned is either
  cached or on its way (`RowsInv`: `Running` while the script runs, `Ran` once its
  READY_FOR_QUERY is on the way, `Settled` from the commit to the fetch), and a row
  that is taken from the head of the queue, or cut off with the link, is counted once.
- `PerfstatProofs`, of the tables two components fill and one empties. `RetentionInvariant`, and from it `ExpirySafe` and
  `RetentionKept`. The invariant says that all tables agree on partitions and
  retention, that days do not decrease with the numbers, and that some partition is
  not in the future, which is what maintenance makes the others from.
  `SampledOnce`, of the samples. `SampleInv` adds to the types where in its
  loop an attempt can be (`LoopShape`), that samples carry the name of a delivery
  that was made (`Deliveries`), and, per instance, how the samples taken and
  the place in the script go together (`Counted`): what is still to come was
  not sampled yet.
- `AwrReportProofs`. `TypeCorrect`; `ReportsExact` and `RefusalsJustified`. The
  invariant `ReportInv` has the keys of the tables (`RowsShape`), that start times
  follow the snapshots (`StartsInOrder`) and that between restarts counter and truth
  differ by a constant (`CountersExact`); the check then excludes a restart, and
  exactness follows. `WindowsExact`: numbers and times of snapshots run together
  (`WindowInv`), so the least number of a period is the first one in it, and the batch
  by times, which takes least and greatest numbers of two subqueries, is exact.
  `NewQueriesLeftOut` is about sums: the DB time of awrrpt12.sql is a sum over the rows
  of a join, what was spent a sum over queries, and both are folds over a set whose
  order is chosen. The lemmas say that such a sum exists, is the same in any order
  and under a renaming (`SumsExist`, `SumsAny`, `SumsRenamed`), by induction over the
  number of elements; the join has one pair for each query the begin snapshot has seen
  (`PairFacts`), and each pair carries what the query took (`InvAwr12`). The set of
  queries is assumed finite.
- `ScramExchangeProofs`. `HolderTrusted`, `ServerTrusted`. `ScramInv` has the shape of
  both objects by stage (`Fields`, `ClientOk`, `ServerOk`), who made each message on
  the wire (`WireOk`: a final message is of the earlier exchange or was made by its
  owner in this one), and what trust rests on (`Trust`). `ProofOpens` is the algebra:
  the proof opens to the stored key only under the signature it was made with.
  `HonestGetsIn` needs the converse, that nothing which is required is missing:
  `HonestInv` says that, called in turn, both objects are at the same stage and have
  the same nonces, salt and keys (`Together`, `ClientHas`, `ServerHas`), so that every
  check a method makes succeeds.
- `PgClientProofs`. `StaysInStep`, `NamesStayAgreed`, `CommitsHonest`, `TpcsEnd`,
  `WorkNeverStrays`, for any cursors, statements, types, transaction identifiers and
  orders of calls, whatever another session commits. All follow from
  `ClientInvariant`. `ClientInv` has two halves. What holds in whatever state the
  connection is (`Always`): types, that the exchanges left of a call are ones that may
  follow each other (`Chain`), and that autocommit is lent by a tpc method only. And
  what holds until a handler raises in the middle of an answer: nothing is unread
  (`Talking`), a row was sent for its cursor (`OwnRows`), a statement of the
  application runs in a transaction (`Begun`), the names in the caches, the numbers
  taken and the server's statements agree at each step of preparing and closing
  (`NamesNow`), and what each step still to come owes to the updates acknowledged so
  far (`Promises`). The heart is `ExchangeInStep`: reading stops at the READY_FOR_QUERY
  of the answer and not before, whatever errors are in it. `RanRight` says what a
  statement may do to the backend's state, and each method and each exchange then has
  a lemma of its own (`CommitKeeps`, `BindExecuteKeeps`, ...). `CommitsHonest` and
  `TpcsEnd` assume that xids have the form tpc_recover makes: of another form none
  is found among the prepared ones, and tpc_commit commits something else
  (`AutocommitRestored` needs no such assumption). `PgClientAssumption` also says that
  `None` is none of the values it stands in for.
- `FieldDecoderProofs`, for any catalogue of well-formed types. `Complete`,
  `NoElementLost`: the children read so far are the elements up to the pointer, in
  order, and only fields that may be absent were passed over (`DecoderInvariant`:
  `InPlace`, `ChildShape`, `BuiltShape`), however the encoding was damaged. The place
  of a child is a fold, about which the library's induction says nothing here; the
  lemmas (`Induction`, over a set of numbers and from the well-foundedness of `<`)
  supply what is needed. `ReadsBack` adds that without damage the children equal what
  was written (`RoundInv`): where a field was left out, the next element has an
  identifier the field cannot have. That is `CatalogAssumption`, the rule of X.680 that
  makes a type unambiguous; TLC evaluates it for all types of the repository but
  the ones `Ambiguous` names.
- `ParamScanProofs`. `QuotesKeptAlways`, `WritesBackAlways`, `EachFoundAlways`, for
  statements of any length over any characters, whichever a name may have, as long as
  none of them is a sign of the scanner, and up to the first place that is `Odd`: they
  do not speak of texts with an `e'...'`, a dollar sign or a block comment (section 2). `ScanInv` is the invariant, of all texts but
  those in `Odd`: the two readers stand together at each character, one of lookahead
  ahead (`InStep`); the complete names are different and used, and every slot is one of
  them or was counted (`NamesInv`); slots and the name being read are as many as the
  placeholders seen (`FoundInv`); and the output, written back, is the text but for
  what is owed of a placeholder whose token is yet to come (`TextInv`, `Owed`; the token
  of a `%s` is written before its s is read, `Ahead`). The lemmas `StepOutside`,
  `StepInside` and `StepName` sort the branches of the scanner by what they do to the
  output (a character is copied, a placeholder taken, a name begun, continued or ended,
  a percent sign doubled), and each part of the invariant is then kept by each of these
  few effects. `FlattenAppend` is the fact about putting sequences together that
  `WritesBack` needs.

Only model-checked:

- `Asn1Value`, all four properties: the values are trees, and the operators on them
  recursive, which the proof system does not reach.
- All liveness (`EveryEventEnds`, `SessionEnds`): fairness and ENABLED are out of
  the proof system's reach.

## 5. Not modelled, and why

In the system's own code:

- Table locks of `run_maintenance`, which may deadlock with a run that overlaps;
  the database then fails one script, which is a `StatementFails`.
- Eviction from `pg_stat_statements` and a reset by hand: no code here notices.
- Values of the statistics other than execution time; text and layout of reports.
- The sections of the reports after the first list, which repeat its join;
  `awrsqlrpt.sql`, `ashrpt.sql`, `chk_*.sql`: queries that keep nothing and decide
  nothing. What they assume of the tables is `CollectorInv` and `IdsInOrder`. The
  history of plans, and with it the lookup of `awrsqlrpt.sql:111`, is not modelled.
- A failover while a report is written, and in `AwrReport` any change of roles.
- Shell scripts, `create_perfstat_foreign_table.sql`, the column lists built from
  the catalog: run by hand, once.

In the libraries:

- pg8000: `executemany`, `setinputsizes`, COPY into the server without a stream,
  calls on a closed connection, `DEALLOCATE` and `DISCARD` by the application.
  A connection that is lost is in `DbSession`. Conversion of values is formats.
- scramp: the characters `saslprep` prohibits.
- asn1crypto: `Any` and `Concat` as values, the ordering of a set's elements, strings
  sent in chunks, the check for required fields in `dump()`, tag overrides in
  `Asn1Value`; the properties that compute (key sizes, fingerprints, comparison
  of names); `util.py`, `_inet.py`, `_iri.py` and the other helpers, which are
  conversions without state. In the schemas, the tags of their own that `CountryName` and
  `AdministrationDomainName` declare (x509.py:1175, 1185): an element with such a
  tag, which no type writes, is skipped in the model where the code takes and refuses it.
- The two `core.py.*` copies a local patch was made from, sample reports, archives.
