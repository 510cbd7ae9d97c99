--------------------------- MODULE PgClientProofs ---------------------------
(***************************************************************************)
(* pg8000 and the backend stay in step for any statements, cursors, names  *)
(* and orders of calls, as long as no handler raises in the middle of an   *)
(* answer: an error does not.  From there on everything else follows the   *)
(* calls: what a step of one means for the transaction (Promises), which   *)
(* names are whose (Names), and that no statement runs outside of a        *)
(* transaction (Begun).                                                    *)
(***************************************************************************)
EXTENDS PgClient, FiniteSetTheorems, SequenceTheorems, TLAPS

\* Functions on some of A into B.
Partials(A, B) == UNION {[D -> B] : D \in SUBSET A}

\* Sets of updates, by the calls that made them.
Updates == SUBSET Nat

Ids == Gids \cup {None}
Texts == {"select", "update", "failing", "broken", "odd", "copy out", "begin", "commit",
          "rollback", "prepare", "commit prepared", "rollback prepared", "list", "none"}
Sqls == {s \in [k : Texts, g : Ids] : s.k = "prepare" => s.g \in Gids}
Asked == {SQL(k) : k \in Operations}
Messages == [k : {"Z", "T", "n", "D", "unreadable D", "H", "d", "C", "E"}, own : BOOLEAN,
             v : Texts \cup {"I", "T", "E"} \cup Ids]
Descs == {None, "empty", "own", "other"}
CursorStates == [rows : Seq(Messages), desc : Descs, funcs : BOOLEAN,
                 count : {None, "own", "other"}, stream : BOOLEAN]
Entry == [n : Nat, desc : Descs]
Cached == {f \in Partials(Oids, Entry) : IsFiniteSet(DOMAIN f)}
Xids == [gid : Gids, form : Forms]
Conns == {cn \in [open : BOOLEAN, auto : BOOLEAN, inTx : BOOLEAN, xid : Xids \cup {None},
                  nums : SUBSET Nat, held : BOOLEAN] : IsFiniteSet(cn.nums)}
Servers == {sv \in [status : {"I", "T", "E"}, work : SUBSET Nat, durable : SUBSET Nat,
                    prepared : Partials(Gids, Updates),
                    named : Partials(Nat, Statements \X Oids), unnamed : Sqls \cup {None}] :
               /\ IsFiniteSet(DOMAIN sv.prepared)
               /\ sv.status = "I" => sv.work = {}}
Pasts == [started : BOOLEAN, auto : BOOLEAN, derailed : BOOLEAN, failed : BOOLEAN,
          acked : SUBSET Nat, pending : Partials(Gids, Updates), due : SUBSET Nat, ended : Ids]

\* The steps of a call.
Steps ==
    [do : {"query"}, c : AllCursors, sql : Sqls]
      \cup [do : {"parse", "describe", "execute"}, c : AllCursors, sql : Asked, stream : BOOLEAN]
      \cup [do : {"prepare", "prepared", "run"}, p : Statements, o : Oids, n : Nat]
      \cup [do : {"close", "closed"}, n : Nat]
      \cup [do : {"choose"}, of : {"commit", "rollback"}, xid : Xids]
      \cup [do : {"return"}, of : {"execute", "commit", "rollback"}, sql : Sqls, id : {None}]
      \cup [do : {"return"}, of : {"prepare", "tpc"}, sql : Sqls, id : Gids]
      \cup [do : {"return"}, of : {"close"}, sql : Sqls, id : Statements]
      \cup [do : {"wait for ever"}]

Types ==
    /\ conn \in Conns
    /\ cursor \in [AllCursors -> CursorStates]
    /\ cache \in [Statements -> Cached \cup {None}]
    /\ unread \in Seq(Messages)
    /\ server \in Servers
    /\ todo \in Seq(Steps)
    /\ calls \in 0..MaxCalls
    /\ past \in Pasts

\* The step executes a statement of the application.
Executes(s) ==
    \/ s.do \in {"parse", "describe", "execute", "run"}
    \/ s.do = "query" /\ s.sql.k \in Operations

\* What may follow a step in a call.
FollowsQuery(a, b) ==
    LET k == a.sql.k
    IN /\ k \in Operations \cup {"begin", "commit", "rollback", "prepare", "list",
                                 "commit prepared", "rollback prepared"}
       /\ k = "begin" => Executes(b) /\ b.do \notin {"describe", "execute"}
       /\ k \in Operations => b.do = "return" /\ b.of = "execute" /\ b.sql = a.sql
       /\ k \in {"commit", "rollback"} =>
            b.do = "return" /\ (b.of = k \/ (b.of = "tpc" /\ b.sql = a.sql))
       /\ k = "prepare" => b.do = "return" /\ b.of = "prepare" /\ b.id = a.sql.g
       /\ k = "list" => b.do = "choose" /\ a.c = "list"
       /\ k \in {"commit prepared", "rollback prepared"} =>
            /\ b.do = "return" /\ b.of = "tpc" /\ b.id = a.sql.g
            /\ b.sql.k = (IF k = "commit prepared" THEN "commit" ELSE "rollback")
Follows(a, b) ==
    /\ a.do \notin {"return", "wait for ever"}
    /\ a.do = "query" => FollowsQuery(a, b)
    /\ a.do = "parse" => b.do = "describe" /\ b.sql = a.sql
    /\ a.do = "describe" => b.do = "execute" /\ b.sql = a.sql
    /\ a.do = "execute" => b.do = "return" /\ b.of = "execute" /\ b.sql = a.sql
    /\ a.do \in {"prepare", "prepared", "run"} =>
         b.do = "return" /\ b.of = "execute" /\ b.sql = SQL(KindOf[a.p])
    /\ a.do \in {"close", "closed"} => b.do = "close" \/ (b.do = "return" /\ b.of = "close")
    /\ a.do = "choose" =>
         b.do = "return" /\ b.of = "tpc" /\ b.sql = SQL(a.of) /\ b.id = a.xid.gid
Ends(a) == a.do \in {"return", "wait for ever"} \/ (a.do = "query" /\ a.sql.k = "begin")
Linked(t) == \A i \in 1..(Len(t) - 1) : Follows(t[i], t[i + 1])
Chain(t) == Linked(t) /\ (t # <<>> => Ends(t[Len(t)]))

At(kind) == Step("return") /\ Head(todo).of = kind
Ending(kind) == todo # <<>> /\ todo[Len(todo)].do = "return" /\ todo[Len(todo)].of = kind

\* The statements a call means are not closed.
KeptFor(s) ==
    /\ s.do \in {"prepare", "prepared", "run"} => cache[s.p] # None
    /\ s.do = "run" => s.o \in DOMAIN cache[s.p]
Kept == \A i \in 1..Len(todo) : KeptFor(todo[i])

\* In whatever state the connection is.
Always ==
    /\ Types /\ Chain(todo) /\ Kept
    /\ Step("execute") => conn.held
    /\ conn.auto = past.auto \/ Step("wait for ever") \/ Ending("tpc")
    /\ todo # <<>> => conn.open /\ past.ended = None
    /\ conn.open => past.started
    /\ past.started \/ past.acked = {}

\* Statement p is being closed: its names disappear one by one.
Closing(p) == (Step("close") \/ Step("closed") \/ At("close")) /\ todo[Len(todo)].id = p
Entered(p, o) ==
    /\ cache[p][o].n \in DOMAIN server.named /\ server.named[cache[p][o].n] = <<p, o>>
NamesNow ==
    /\ DOMAIN server.named \subseteq conn.nums
    /\ \A p \in Statements : cache[p] # None => \A o \in DOMAIN cache[p] :
          /\ cache[p][o].n \in DOMAIN server.named \/ ~Closing(p) => Entered(p, o)
          /\ cache[p][o].desc # "other"
    /\ \A i \in 1..Len(todo) : todo[i].do = "close" =>
          \E p \in Statements :
             /\ cache[p] # None /\ todo[Len(todo)].id = p
             /\ \E o \in DOMAIN cache[p] : cache[p][o].n = todo[i].n
    /\ Step("prepared") =>
          /\ Head(todo).n \in DOMAIN server.named
          /\ server.named[Head(todo).n] = <<Head(todo).p, Head(todo).o>>
    /\ Step("closed") => Head(todo).n \notin DOMAIN server.named

OwnRows ==
    \A c \in AllCursors :
        /\ cursor[c].desc # "other" /\ cursor[c].count # "other"
        /\ \A i \in 1..Len(cursor[c].rows) : cursor[c].rows[i].own

Talking ==
    /\ unread = <<>>
    /\ conn.open \/ ~past.started => (conn.inTx <=> server.status # "I")
    /\ conn.held => Step("execute")
    /\ Step("describe") \/ Step("execute") =>
          server.unnamed = Head(todo).sql /\ server.status # "E"
    /\ Step("choose") => \A g \in DOMAIN server.prepared :
          \E i \in 1..Len(cursor["list"].rows) : cursor["list"].rows[i].v = g

Begun == todo # <<>> /\ Executes(Head(todo)) => past.auto \/ server.status # "I"

Formed == FALSE \notin Forms
Held(sv, g) == IF g \in DOMAIN sv.prepared THEN sv.prepared[g] ELSE {}
Undone == At("rollback") \/ At("prepare") \/ (At("tpc") /\ Head(todo).sql.k = "rollback")
\* The call of a tpc method has found its transaction not, or no longer, prepared.
Elsewhere == Ending("tpc") /\ \/ Step("return")
                              \/ Step("query") /\ Head(todo).sql.k \in {"commit", "rollback"}
Promises ==
    /\ server.status = "E" => past.failed
    /\ conn.open /\ ~past.failed /\ ~Undone => past.acked \subseteq server.work \cup server.durable
    /\ \A g \in DOMAIN past.pending :
          \/ past.pending[g] \subseteq server.durable \cup Held(server, g)
          \/ At("tpc") /\ Head(todo).sql.k = "rollback" /\ Head(todo).id = g
    /\ At("execute") /\ Head(todo).sql.k = "update" => calls \in server.work \cup server.durable
    /\ At("commit") \/ At("rollback") \/ At("prepare") \/ At("tpc") => server.status = "I"
    /\ At("prepare") /\ ~past.failed => past.acked \subseteq server.durable \cup Held(server, Head(todo).id)
    /\ Formed => /\ Elsewhere => todo[Len(todo)].id \notin DOMAIN server.prepared
                 /\ past.ended # None => past.ended \notin DOMAIN server.prepared
                 /\ past.due \subseteq server.durable

ClientInv == Always /\ (~past.derailed => NamesNow /\ OwnRows /\ Talking /\ Begun /\ Promises)

-----------------------------------------------------------------------------
(***************************************************************************)
(* Numbers, sequences and functions.                                       *)
(***************************************************************************)

Less == {p \in Nat \X Nat : p[1] < p[2]}
LEMMA LessWellFounded == IsWellFoundedOn(Less, Nat)
<1>1. IsWellFoundedOn(OpToRel(<, Nat), Nat)
  BY NatLessThanWellFounded
<1>2. OpToRel(<, Nat) = Less
  BY DEF OpToRel, Less
<1>. QED  BY <1>1, <1>2

LEMMA LeastOf ==
    ASSUME NEW S, S \subseteq Nat, S # {}
    PROVE  \E n \in S : \A m \in S : n =< m
<1>1. \E n \in S : \A m \in S : ~(<<m, n>> \in Less)
  BY LessWellFounded, WFMin
<1>2. PICK n \in S : \A m \in S : ~(<<m, n>> \in Less)
  BY <1>1
<1>3. \A m \in S : ~(m < n)
  BY <1>2 DEF Less
<1>. QED  BY <1>2, <1>3

LEMMA GreatestOf ==
    ASSUME NEW b \in Nat, NEW S, S \subseteq 1..b, S # {}
    PROVE  \E m \in S : \A n \in S : n =< m
<1>. DEFINE Left == {b - n : n \in S}
<1>1. Left \subseteq Nat /\ Left # {}
  <2>1. PICK n \in S : TRUE
    OBVIOUS
  <2>2. b - n \in Left
    BY <2>1
  <2>. QED  BY <2>2
<1>2. PICK l \in Left : \A k \in Left : l =< k
  <2>. HIDE DEF Left
  <2>. QED  BY <1>1, LeastOf
<1>3. PICK m \in S : l = b - m
  BY <1>2
<1>4. \A n \in S : b - n \in Left
  OBVIOUS
<1>5. \A n \in S : n =< m
  <2>. TAKE n \in S
  <2>1. l =< b - n
    BY <1>2, <1>4
  <2>2. n \in Nat /\ m \in Nat
    BY <1>3
  <2>. QED  BY <1>3, <2>1, <2>2
<1>. QED  BY <1>5

\* Numbers in a finite set are told apart by how many are not larger, and
\* counted by it.
Rank(S, i) == Cardinality({j \in S : j =< i})
LEMMA Ranks ==
    ASSUME NEW S, S \subseteq Nat, IsFiniteSet(S)
    PROVE  /\ Cardinality(S) \in Nat
           /\ \A i \in S : Rank(S, i) \in 1..Cardinality(S)
           /\ \A i, j \in S : Rank(S, i) = Rank(S, j) => i = j
           /\ \A n \in 1..Cardinality(S) : \E i \in S : Rank(S, i) = n
<1>1. Cardinality(S) \in Nat
  BY FS_CardinalityType
<1>2. ASSUME NEW i \in S
      PROVE  IsFiniteSet({j \in S : j =< i}) /\ Rank(S, i) \in 1..Cardinality(S)
  <2>1. {j \in S : j =< i} \in SUBSET S
    OBVIOUS
  <2>2. IsFiniteSet({j \in S : j =< i}) /\ Rank(S, i) =< Cardinality(S) /\ Rank(S, i) \in Nat
    BY <2>1, FS_Subset, FS_CardinalityType DEF Rank
  <2>3. {j \in S : j =< i} # {}
    <3>1. i =< i
      OBVIOUS
    <3>. QED  BY <3>1
  <2>4. Rank(S, i) # 0
    BY <2>2, <2>3, FS_EmptySet DEF Rank
  <2>. QED  BY <1>1, <2>2, <2>4
<1>3. ASSUME NEW i \in S, NEW j \in S, i < j PROVE Rank(S, i) # Rank(S, j)
  <2>1. {k \in S : k =< i} \in SUBSET {k \in S : k =< j}
    <3>1. \A k \in S : k =< i => k =< j
      BY <1>3
    <3>. QED  BY <3>1
  <2>2. {k \in S : k =< i} # {k \in S : k =< j}
    <3>1. j =< j /\ ~(j =< i)
      BY <1>3
    <3>. QED  BY <3>1
  <2>3. IsFiniteSet({k \in S : k =< j})
    BY <1>2
  <2>. QED  BY <2>1, <2>2, <2>3, FS_Subset DEF Rank
<1>4. \A i, j \in S : Rank(S, i) = Rank(S, j) => i = j
  <2>1. \A i, j \in S : i = j \/ i < j \/ j < i
    OBVIOUS
  <2>. QED  BY <1>3, <2>1
<1>5. ASSUME NEW n \in 1..Cardinality(S) PROVE \E i \in S : Rank(S, i) = n
  <2>. DEFINE f == [i \in S |-> Rank(S, i)]
  <2>1. f \in [S -> 1..Cardinality(S)] /\ IsInjective(f)
    BY <1>2, <1>4 DEF IsInjective
  <2>2. f \in Injection(S, 1..Cardinality(S))
    BY <2>1 DEF Injection
  <2>3. IsFiniteSet(1..Cardinality(S)) /\ Cardinality(1..Cardinality(S)) = Cardinality(S)
    <3>1. /\ IsFiniteSet(1..Cardinality(S))
          /\ Cardinality(1..Cardinality(S))
               = IF 1 > Cardinality(S) THEN 0 ELSE Cardinality(S) - 1 + 1
      BY <1>1, FS_Interval
    <3>. QED  BY <1>1, <3>1
  <2>4. f \in Surjection(S, 1..Cardinality(S))
    BY <2>2, <2>3, FS_Injection
  <2>. QED  BY <2>4 DEF Surjection
<1>. QED  BY <1>1, <1>2, <1>4, <1>5

\* SetToSeq lists a finite set.
LEMMA Listing ==
    ASSUME NEW S, IsFiniteSet(S)
    PROVE  /\ Cardinality(S) \in Nat
           /\ SetToSeq(S) \in [1..Cardinality(S) -> S]
           /\ \A x \in S : \E i \in 1..Cardinality(S) : SetToSeq(S)[i] = x
<1>. DEFINE n == Cardinality(S)
<1>1. n \in Nat /\ ExistsBijection(1..n, S)
  BY FS_CardinalityType
<1>2. \E f \in [1..n -> S] : IsInjective(f)
  BY <1>1 DEF ExistsBijection, Bijection, Injection
<1>3. SetToSeq(S) \in [1..n -> S] /\ IsInjective(SetToSeq(S))
  BY <1>2 DEF SetToSeq
<1>4. SetToSeq(S) \in Injection(1..n, S)
  BY <1>3 DEF Injection
<1>5. Cardinality(1..n) = n
  <2>1. Cardinality(1..n) = IF 1 > n THEN 0 ELSE n - 1 + 1
    BY <1>1, FS_Interval
  <2>. QED  BY <1>1, <2>1
<1>6. SetToSeq(S) \in Surjection(1..n, S)
  BY <1>1, <1>4, <1>5, FS_Injection
<1>. QED  BY <1>1, <1>3, <1>6 DEF Surjection

LEMMA Joined ==
    ASSUME NEW V, NEW s \in Seq(V), NEW t \in Seq(V)
    PROVE  /\ s \o t \in Seq(V) /\ Len(s) \in Nat /\ Len(t) \in Nat
           /\ Len(s \o t) = Len(s) + Len(t)
           /\ \A k \in 1..Len(s) : k \in 1..Len(s \o t) /\ (s \o t)[k] = s[k]
           /\ \A k \in 1..Len(t) : Len(s) + k \in 1..Len(s \o t) /\ (s \o t)[Len(s) + k] = t[k]
           /\ \A k \in 1..Len(s \o t) :
                 \/ k \in 1..Len(s) /\ (s \o t)[k] = s[k]
                 \/ k - Len(s) \in 1..Len(t) /\ (s \o t)[k] = t[k - Len(s)]
<1>1. /\ s \o t \in Seq(V) /\ Len(s) \in Nat /\ Len(t) \in Nat
      /\ Len(s \o t) = Len(s) + Len(t)
  BY ConcatProperties, LenProperties
<1>2. \A k \in 1..Len(s) + Len(t) :
         (s \o t)[k] = IF k <= Len(s) THEN s[k] ELSE t[k - Len(s)]
  BY ConcatProperties
<1>. QED  BY <1>1, <1>2

LEMMA InPartials ==
    ASSUME NEW A, NEW B, NEW f
    PROVE  f \in Partials(A, B) <=> f \in [DOMAIN f -> B] /\ DOMAIN f \subseteq A
<1>1. ASSUME f \in Partials(A, B) PROVE f \in [DOMAIN f -> B] /\ DOMAIN f \subseteq A
  <2>1. PICK D \in SUBSET A : f \in [D -> B]
    BY <1>1 DEF Partials
  <2>. QED  BY <2>1
<1>2. ASSUME f \in [DOMAIN f -> B], DOMAIN f \subseteq A PROVE f \in Partials(A, B)
  BY <1>2 DEF Partials
<1>. QED  BY <1>1, <1>2

\* One value more, one less.
LEMMA Extended ==
    ASSUME NEW A, NEW B, NEW f \in Partials(A, B), NEW d \in A, NEW v \in B
    PROVE  /\ Known(f, d, v) \in Partials(A, B)
           /\ DOMAIN Known(f, d, v) = DOMAIN f \cup {d}
           /\ IsFiniteSet(DOMAIN f) => IsFiniteSet(DOMAIN Known(f, d, v))
<1>1. f \in [DOMAIN f -> B] /\ DOMAIN f \subseteq A
  BY InPartials
<1>2. Known(f, d, v) \in [DOMAIN f \cup {d} -> B]
  BY <1>1 DEF Known
<1>3. DOMAIN Known(f, d, v) = DOMAIN f \cup {d}
  BY DEF Known
<1>4. Known(f, d, v) \in Partials(A, B)
  BY <1>1, <1>2, <1>3, InPartials
<1>. QED  BY <1>3, <1>4, FS_AddElement

LEMMA Reduced ==
    ASSUME NEW A, NEW B, NEW f \in Partials(A, B), NEW d
    PROVE  /\ Forget(f, d) \in Partials(A, B)
           /\ DOMAIN Forget(f, d) = DOMAIN f \ {d}
           /\ IsFiniteSet(DOMAIN f) => IsFiniteSet(DOMAIN Forget(f, d))
<1>1. f \in [DOMAIN f -> B] /\ DOMAIN f \subseteq A
  BY InPartials
<1>2. Forget(f, d) \in [DOMAIN f \ {d} -> B]
  BY <1>1 DEF Forget
<1>3. DOMAIN Forget(f, d) = DOMAIN f \ {d}
  BY DEF Forget
<1>4. Forget(f, d) \in Partials(A, B)
  BY <1>1, <1>2, <1>3, InPartials
<1>. QED  BY <1>3, <1>4, FS_RemoveElement

-----------------------------------------------------------------------------
(***************************************************************************)
(* Reading.                                                                *)
(***************************************************************************)

Stops(cu, q) == {i \in 1..Len(q) : q[i].k = "Z" \/ HandlerRaises(cu, q, i)}

LEMMA StopsAtFirst ==
    ASSUME NEW cu, NEW q \in Seq(Messages), Stops(cu, q) # {}
    PROVE  /\ ReadTo(cu, q) \in Stops(cu, q)
           /\ \A j \in 1..(ReadTo(cu, q) - 1) : j \notin Stops(cu, q)
<1>1. Len(q) \in Nat /\ Stops(cu, q) \subseteq Nat
  BY LenProperties DEF Stops
<1>2. PICK i \in Stops(cu, q) : \A m \in Stops(cu, q) : i =< m
  BY <1>1, LeastOf
<1>3. i \in 1..Len(q) /\ (q[i].k = "Z" \/ HandlerRaises(cu, q, i))
  BY <1>2 DEF Stops
<1>4. \A j \in 1..(i - 1) : j \notin Stops(cu, q) /\ j \in 1..Len(q)
  <2>. TAKE j \in 1..(i - 1)
  <2>1. ~(i =< j) /\ j \in 1..Len(q)
    BY <1>1, <1>3
  <2>. QED  BY <1>2, <2>1
<1>5. \A j \in 1..(i - 1) : ~(q[j].k = "Z" \/ HandlerRaises(cu, q, j))
  BY <1>4 DEF Stops
<1>6. \E n \in 1..Len(q) :
        /\ q[n].k = "Z" \/ HandlerRaises(cu, q, n)
        /\ \A j \in 1..(n - 1) : ~(q[j].k = "Z" \/ HandlerRaises(cu, q, j))
  BY <1>3, <1>5
<1>7. /\ ReadTo(cu, q) \in 1..Len(q)
      /\ q[ReadTo(cu, q)].k = "Z" \/ HandlerRaises(cu, q, ReadTo(cu, q))
      /\ \A j \in 1..(ReadTo(cu, q) - 1) : ~(q[j].k = "Z" \/ HandlerRaises(cu, q, j))
  <2>. HIDE DEF HandlerRaises
  <2>. QED  BY <1>6 DEF ReadTo
<1>. QED  BY <1>7 DEF Stops

\* Of picks elements of q, and all of the kinds given.
LEMMA Picked ==
    ASSUME NEW q \in Seq(Messages), NEW kinds
    PROVE  /\ Of(q, kinds) \in Seq(Messages)
           /\ \A n \in 1..Len(Of(q, kinds)) : \E i \in 1..Len(q) : Of(q, kinds)[n] = q[i]
           /\ \A i \in 1..Len(q) : q[i].k \in kinds =>
                \E n \in 1..Len(Of(q, kinds)) : Of(q, kinds)[n] = q[i]
<1>. DEFINE S == Where(q, kinds)
            at(n) == CHOOSE i \in S : Cardinality({j \in S : j =< i}) = n
<1>1. Len(q) \in Nat /\ DOMAIN q = 1..Len(q) /\ q \in [1..Len(q) -> Messages]
  BY LenProperties
<1>2. S \in SUBSET (1..Len(q)) /\ S \subseteq Nat
  BY <1>1 DEF Where
<1>3. IsFiniteSet(1..Len(q))
  BY <1>1, FS_Interval
<1>4. IsFiniteSet(S)
  BY <1>2, <1>3, FS_Subset
<1>. HIDE DEF S
<1>5. /\ Cardinality(S) \in Nat
      /\ \A i \in S : Rank(S, i) \in 1..Cardinality(S)
      /\ \A i, j \in S : Rank(S, i) = Rank(S, j) => i = j
      /\ \A n \in 1..Cardinality(S) : \E i \in S : Rank(S, i) = n
  BY <1>2, <1>4, Ranks
<1>6. \A n \in 1..Cardinality(S) : at(n) \in S /\ Rank(S, at(n)) = n
  BY <1>5 DEF Rank
<1>7. Of(q, kinds) = [n \in 1..Cardinality(S) |-> q[at(n)]]
  BY DEF Of, S
<1>. HIDE DEF at
<1>8. \A n \in 1..Cardinality(S) : q[at(n)] \in Messages /\ at(n) \in 1..Len(q)
  BY <1>1, <1>2, <1>6
<1>9. Of(q, kinds) \in [1..Cardinality(S) -> Messages]
  BY <1>7, <1>8
<1>10. Of(q, kinds) \in Seq(Messages) /\ Len(Of(q, kinds)) = Cardinality(S)
  BY <1>5, <1>9, SeqDef, LenProperties
<1>11. \A n \in 1..Len(Of(q, kinds)) : \E i \in 1..Len(q) : Of(q, kinds)[n] = q[i]
  BY <1>7, <1>8, <1>10
<1>12. ASSUME NEW i \in 1..Len(q), q[i].k \in kinds
       PROVE  \E n \in 1..Len(Of(q, kinds)) : Of(q, kinds)[n] = q[i]
  <2>1. i \in S
    BY <1>1, <1>12 DEF S, Where
  <2>2. Rank(S, i) \in 1..Cardinality(S) /\ at(Rank(S, i)) = i
    BY <1>5, <1>6, <2>1
  <2>. QED  BY <1>7, <1>10, <2>2
<1>. QED  BY <1>10, <1>11, <1>12

OwnState(cu) ==
    /\ cu.desc # "other" /\ cu.count # "other"
    /\ \A i \in 1..Len(cu.rows) : cu.rows[i].own
AllOwn(q) == \A i \in 1..Len(q) : q[i].own

LEMMA Describing ==
    ASSUME NEW cu \in CursorStates, NEW q \in Seq(Messages)
    PROVE  /\ Described(cu, q) \in Descs
           /\ AllOwn(q) /\ cu.desc # "other" => Described(cu, q) # "other"
<1>. DEFINE S == Where(q, {"T", "n"})
            l == CHOOSE i \in S : \A j \in S : j =< i
<1>1. Len(q) \in Nat /\ DOMAIN q = 1..Len(q) /\ q \in [1..Len(q) -> Messages]
  BY LenProperties
<1>2. S \subseteq 1..Len(q)
  BY <1>1 DEF Where
<1>3. Described(cu, q) = IF S = {} THEN cu.desc
                         ELSE IF q[l].k = "n" THEN "empty"
                         ELSE IF q[l].own THEN "own" ELSE "other"
  BY DEF Described
<1>4. CASE S = {}
  BY <1>3, <1>4 DEF CursorStates
<1>5. CASE S # {}
  <2>. HIDE DEF S
  <2>1. \E i \in S : \A j \in S : j =< i
    BY <1>1, <1>2, <1>5, GreatestOf
  <2>2. l \in S
    BY <2>1
  <2>3. l \in 1..Len(q)
    BY <1>2, <2>2
  <2>. HIDE DEF l
  <2>4. q[l].own \in BOOLEAN
    BY <1>1, <2>3 DEF Messages
  <2>. QED  BY <1>3, <1>5, <2>3, <2>4 DEF Descs, AllOwn
<1>. QED  BY <1>4, <1>5

LEMMA Counting ==
    ASSUME NEW cu \in CursorStates, NEW q \in Seq(Messages)
    PROVE  /\ Counted(cu, q) \in {None, "own", "other"}
           /\ AllOwn(q) /\ cu.count # "other" => Counted(cu, q) # "other"
<1>1. DOMAIN q = 1..Len(q)
  BY LenProperties
<1>2. cu.count \in {None, "own", "other"}
  BY DEF CursorStates
<1>3. AllOwn(q) => \A i \in DOMAIN q : Counts(q[i]) => q[i].own
  BY <1>1 DEF AllOwn
<1>. QED  BY <1>2, <1>3 DEF Counted

\* What a cursor is after reading is well formed, and its own when what it
\* read is.
LEMMA AfterReading ==
    ASSUME NEW cu \in CursorStates, NEW q \in Seq(Messages)
    PROVE  /\ After(cu, q) \in CursorStates
           /\ AllOwn(q) /\ OwnState(cu) => OwnState(After(cu, q))
           /\ \A i \in 1..Len(q) : q[i].k = "D" =>
                \E n \in 1..Len(After(cu, q).rows) : After(cu, q).rows[n] = q[i]
<1>. DEFINE d == Of(q, {"D"})
            r == cu.rows \o d
<1>1. cu.rows \in Seq(Messages) /\ cu.funcs \in BOOLEAN /\ cu.stream \in BOOLEAN
  BY DEF CursorStates
<1>2. /\ d \in Seq(Messages)
      /\ \A n \in 1..Len(d) : \E i \in 1..Len(q) : d[n] = q[i]
      /\ \A i \in 1..Len(q) : q[i].k = "D" => \E n \in 1..Len(d) : d[n] = q[i]
  BY Picked
<1>. HIDE DEF d
<1>3. /\ r \in Seq(Messages) /\ Len(cu.rows) \in Nat /\ Len(d) \in Nat
      /\ Len(r) = Len(cu.rows) + Len(d)
      /\ \A k \in 1..Len(d) : Len(cu.rows) + k \in 1..Len(r) /\ r[Len(cu.rows) + k] = d[k]
      /\ \A k \in 1..Len(r) : \/ k \in 1..Len(cu.rows) /\ r[k] = cu.rows[k]
                              \/ k - Len(cu.rows) \in 1..Len(d) /\ r[k] = d[k - Len(cu.rows)]
  BY <1>1, <1>2, Joined
<1>4. After(cu, q) = [cu EXCEPT !.rows = r, !.desc = Described(cu, q),
                                !.funcs = cu.funcs \/ Has(q, "T"), !.count = Counted(cu, q)]
  BY DEF After, d
<1>. HIDE DEF r
<1>5. Has(q, "T") \in BOOLEAN
  BY DEF Has
<1>6. /\ After(cu, q) \in CursorStates
      /\ After(cu, q).rows = r /\ After(cu, q).desc = Described(cu, q)
      /\ After(cu, q).count = Counted(cu, q)
  <2>1. Described(cu, q) \in Descs /\ Counted(cu, q) \in {None, "own", "other"}
    BY Describing, Counting
  <2>. HIDE DEF Descs
  <2>2. cu.funcs \/ Has(q, "T") \in BOOLEAN
    BY <1>1, <1>5, Zenon
  <2>. QED  BY <1>1, <1>3, <1>4, <2>1, <2>2 DEF CursorStates
<1>7. ASSUME AllOwn(q), OwnState(cu) PROVE OwnState(After(cu, q))
  <2>1. \A k \in 1..Len(r) : r[k].own
    <3>. TAKE k \in 1..Len(r)
    <3>1. CASE k \in 1..Len(cu.rows) /\ r[k] = cu.rows[k]
      BY <1>7, <3>1 DEF OwnState
    <3>2. CASE k - Len(cu.rows) \in 1..Len(d) /\ r[k] = d[k - Len(cu.rows)]
      BY ZenonT(30), <1>2, <1>7, <3>2 DEF AllOwn
    <3>. QED  BY <1>3, <3>1, <3>2
  <2>. QED  BY <1>6, <1>7, <2>1, Describing, Counting DEF OwnState
<1>8. ASSUME NEW i \in 1..Len(q), q[i].k = "D"
      PROVE  \E n \in 1..Len(After(cu, q).rows) : After(cu, q).rows[n] = q[i]
  <2>1. PICK n \in 1..Len(d) : d[n] = q[i]
    BY <1>2, <1>8
  <2>2. Len(cu.rows) + n \in 1..Len(r) /\ r[Len(cu.rows) + n] = q[i]
    BY <1>3, <2>1
  <2>. QED  BY <1>6, <2>2
<1>. QED  BY <1>6, <1>7, <1>8

-----------------------------------------------------------------------------
(***************************************************************************)
(* An exchange.                                                            *)
(***************************************************************************)

Waits == <<[do |-> "wait for ever"]>>

\* Whatever the cursor and the server say, the state stays well formed, and
\* the call goes on, ends or waits.
SamePast ==
    /\ past' \in Pasts
    /\ past'.started = past.started /\ past'.auto = past.auto /\ past'.acked = past.acked
    /\ past'.pending = past.pending /\ past'.due = past.due /\ past'.ended = past.ended
    /\ past.derailed => past'.derailed

Exchanged(sv, cn, then) ==
    /\ server' = sv /\ UNCHANGED <<cache, calls>> /\ SamePast
    /\ unread' \in Seq(Messages) /\ cursor' \in [AllCursors -> CursorStates]
    /\ conn' \in Conns /\ conn'.open = conn.open
    /\ \/ conn'.held = cn.held /\ todo' # Waits
       \/ todo' \in {<<>>, Waits}
    /\ \/ todo' = then /\ conn'.auto = cn.auto
       \/ todo' = <<>> /\ conn'.auto = past.auto
       \/ todo' = Waits /\ conn' = conn

LEMMA ExchangeTyped ==
    ASSUME Types, NEW c \in AllCursors, NEW cu \in CursorStates, NEW sv, NEW then,
           NEW answer \in Seq(Messages), NEW cn \in Conns, cn.open = conn.open,
           Exchange(c, cu, sv, answer, cn, then)
    PROVE  Exchanged(sv, cn, then)
<1>. DEFINE q == unread \o answer
            i == ReadTo(cu, q)
            read == SubSeq(q, 1, i)
            raised == q[i].k # "Z" \/ Has(read, "E")
            after == IF q[i].k = "Z" THEN [cn EXCEPT !.inTx = q[i].v # "I"] ELSE cn
<1>1. q \in Seq(Messages) /\ Len(q) \in Nat /\ DOMAIN q = 1..Len(q)
  BY ConcatProperties, LenProperties DEF Types
<1>. HIDE DEF q
<1>2. /\ server' = sv /\ UNCHANGED <<cache, calls>>
      /\ IF \E j \in DOMAIN q : q[j].k = "Z" \/ HandlerRaises(cu, q, j)
         THEN /\ unread' = SubSeq(q, i + 1, Len(q))
              /\ cursor' = [cursor EXCEPT ![c] = After(cu, read)]
              /\ conn' = IF raised THEN Restored(after) ELSE after
              /\ todo' = IF raised THEN <<>> ELSE then
              /\ past' = [past EXCEPT !.derailed = @ \/ HandlerRaises(cu, q, i),
                                      !.failed = @ \/ raised]
         ELSE /\ unread' = q
              /\ todo' = Waits
              /\ UNCHANGED <<cursor, conn, past>>
  BY DEF Exchange, q, Waits
<1>3. conn \in Conns /\ cursor \in [AllCursors -> CursorStates] /\ past \in Pasts
  BY DEF Types
<1>4. CASE ~ \E j \in DOMAIN q : q[j].k = "Z" \/ HandlerRaises(cu, q, j)
  BY <1>1, <1>2, <1>3, <1>4 DEF SamePast, Exchanged
<1>5. CASE \E j \in DOMAIN q : q[j].k = "Z" \/ HandlerRaises(cu, q, j)
  <2>1. Stops(cu, q) # {}
    BY <1>1, <1>5 DEF Stops
  <2>2. i \in 1..Len(q)
    BY <1>1, <2>1, StopsAtFirst DEF Stops
  <2>3. raised \in BOOLEAN /\ HandlerRaises(cu, q, i) \in BOOLEAN
    BY DEF Has, HandlerRaises
  <2>. HIDE DEF i, raised
  <2>4. /\ unread' = SubSeq(q, i + 1, Len(q))
        /\ cursor' = [cursor EXCEPT ![c] = After(cu, read)]
        /\ conn' = IF raised THEN Restored(after) ELSE after
        /\ todo' = IF raised THEN <<>> ELSE then
        /\ past' = [past EXCEPT !.derailed = @ \/ HandlerRaises(cu, q, i),
                                !.failed = @ \/ raised]
    BY <1>2, <1>5 DEF i, raised
  <2>5. unread' \in Seq(Messages)
    <3>1. \A k \in (i + 1)..Len(q) : q[k] \in Messages
      BY <1>1, <2>2, ElementOfSeq
    <3>2. i + 1 \in Int /\ Len(q) \in Int
      BY <1>1, <2>2
    <3>. QED  BY <2>4, <3>1, <3>2, SubSeqProperties
  <2>6. read \in Seq(Messages)
    <3>1. \A k \in 1..i : q[k] \in Messages
      BY <1>1, <2>2, ElementOfSeq
    <3>. QED  BY <2>2, <3>1, SubSeqProperties
  <2>7. cursor' \in [AllCursors -> CursorStates]
    BY <1>3, <2>4, <2>6, AfterReading
  <2>8. /\ after \in Conns /\ after.open = conn.open /\ after.auto = cn.auto
        /\ after.held = cn.held
    BY DEF Conns
  <2>. HIDE DEF after
  <2>9. /\ Restored(after) \in Conns /\ Restored(after).open = conn.open
        /\ Restored(after).auto = past.auto /\ Restored(after).held = cn.held
    BY <1>3, <2>8 DEF Restored, Conns, Pasts
  <2>10. SamePast
    <3>1. past.derailed \in BOOLEAN /\ past.failed \in BOOLEAN
      BY <1>3 DEF Pasts
    <3>2. /\ (past.derailed \/ HandlerRaises(cu, q, i)) \in BOOLEAN
          /\ (past.failed \/ raised) \in BOOLEAN
      BY <2>3, <3>1, Zenon
    <3>3. past' = [past EXCEPT !.derailed = past.derailed \/ HandlerRaises(cu, q, i),
                               !.failed = past.failed \/ raised]
      BY <2>4
    <3>. HIDE DEF HandlerRaises
    <3>4. past'.derailed = (past.derailed \/ HandlerRaises(cu, q, i))
      BY <1>3, <3>3 DEF Pasts
    <3>5. /\ past' \in Pasts
          /\ past'.started = past.started /\ past'.auto = past.auto
          /\ past'.acked = past.acked /\ past'.pending = past.pending /\ past'.due = past.due
          /\ past'.ended = past.ended
      BY <1>3, <3>2, <3>3 DEF Pasts
    <3>. QED  BY <3>4, <3>5 DEF SamePast
  <2>11. CASE raised
    BY <1>2, <2>4, <2>5, <2>7, <2>9, <2>10, <2>11 DEF Exchanged
  <2>12. CASE ~raised
    <3>1. Waits # <<>>
      BY DEF Waits
    <3>. QED  BY <1>2, <2>4, <2>5, <2>7, <2>8, <2>10, <2>12, <3>1 DEF Exchanged
  <2>. QED  BY <2>11, <2>12
<1>. QED  BY <1>4, <1>5

\* A complete answer: nothing but the last message says READY_FOR_QUERY.
Said(b) == b \in Seq(Messages) /\ \A i \in 1..Len(b) : b[i].own /\ b[i].k # "Z"
Errs(b) == \E i \in 1..Len(b) : b[i].k = "E"

LEMMA Readied ==
    ASSUME NEW b, Said(b), NEW sv \in Servers
    PROVE  /\ b \o Ready(sv) \in Seq(Messages) /\ Len(b \o Ready(sv)) = Len(b) + 1
           /\ Len(b) \in Nat
           /\ AllOwn(b \o Ready(sv))
           /\ \A i \in 1..Len(b) : (b \o Ready(sv))[i] = b[i]
           /\ \A i \in 1..(Len(b) + 1) : (b \o Ready(sv))[i].k = "Z" <=> i = Len(b) + 1
           /\ (b \o Ready(sv))[Len(b) + 1].v = sv.status
<1>. DEFINE z == [Message("Z") EXCEPT !.v = sv.status]
            q == b \o Ready(sv)
<1>1. z \in Messages /\ z.own /\ z.k = "Z" /\ z.v = sv.status
  <2>1. sv.status \in {"I", "T", "E"}
    BY DEF Servers
  <2>2. z.own /\ z.k = "Z" /\ z.v = sv.status
    BY DEF Message
  <2>3. Message("Z") \in Messages
    BY DEF Message, Messages, Ids
  <2>4. z \in Messages
    BY <2>1, <2>3 DEF Messages
  <2>. QED  BY <2>2, <2>4
<1>. HIDE DEF z
<1>2. Ready(sv) = <<z>>
  BY DEF Ready, z
<1>3. b \in Seq(Messages) /\ Len(b) \in Nat
  BY LenProperties DEF Said
<1>4. Ready(sv) \in Seq(Messages) /\ Len(Ready(sv)) = 1 /\ Ready(sv)[1] = z
  BY <1>1, <1>2
<1>5. /\ q \in Seq(Messages) /\ Len(q) = Len(b) + 1
      /\ \A k \in 1..Len(b) : q[k] = b[k]
      /\ q[Len(b) + 1] = z
  <2>. HIDE DEF q
  <2>1. /\ q \in Seq(Messages) /\ Len(q) = Len(b) + Len(Ready(sv))
        /\ \A k \in 1..Len(b) : k \in 1..Len(q) /\ q[k] = b[k]
        /\ \A k \in 1..Len(Ready(sv)) : Len(b) + k \in 1..Len(q) /\ q[Len(b) + k] = Ready(sv)[k]
    <3>1. b \in Seq(Messages) /\ Ready(sv) \in Seq(Messages)
      BY <1>3, <1>4
    <3>. QED  BY <3>1, Joined DEF q
  <2>2. 1 \in 1..Len(Ready(sv))
    BY <1>4
  <2>. QED  BY <1>4, <2>1, <2>2
<1>. HIDE DEF q
<1>6. \A i \in 1..(Len(b) + 1) : i \in 1..Len(b) \/ i = Len(b) + 1
  BY <1>3
<1>7. ~(Len(b) + 1 \in 1..Len(b))
  BY <1>3
<1>8. \A i \in 1..(Len(b) + 1) : q[i].own /\ (q[i].k = "Z" <=> i = Len(b) + 1)
  BY <1>1, <1>5, <1>6, <1>7 DEF Said
<1>. QED  BY <1>1, <1>3, <1>5, <1>8 DEF AllOwn, q

\* In step, an exchange reads exactly the answer to it, errors included.
ReadWhole(c, cu, sv, b, cn, then) ==
    /\ ~past.derailed
    /\ unread' = <<>>
    /\ cursor' = [cursor EXCEPT ![c] = After(cu, b \o Ready(sv))]
    /\ past'.failed = (past.failed \/ Errs(b))
    /\ conn' = IF Errs(b) THEN [cn EXCEPT !.inTx = (sv.status # "I"), !.auto = past.auto]
               ELSE [cn EXCEPT !.inTx = (sv.status # "I")]
    /\ todo' = IF Errs(b) THEN <<>> ELSE then

LEMMA ExchangeInStep ==
    ASSUME Types, NEW c \in AllCursors, NEW cu \in CursorStates, NEW sv \in Servers, NEW then,
           NEW b, Said(b), NEW cn \in Conns, unread = <<>>,
           Exchange(c, cu, sv, b \o Ready(sv), cn, then), ~past'.derailed
    PROVE  ReadWhole(c, cu, sv, b, cn, then)
<1>. DEFINE q == unread \o (b \o Ready(sv))
            i == ReadTo(cu, q)
            read == SubSeq(q, 1, i)
            raised == q[i].k # "Z" \/ Has(read, "E")
            after == IF q[i].k = "Z" THEN [cn EXCEPT !.inTx = q[i].v # "I"] ELSE cn
<1>1. q = b \o Ready(sv)
  BY Readied, ConcatEmptySeq
<1>2. /\ q \in Seq(Messages) /\ Len(q) = Len(b) + 1 /\ Len(b) \in Nat
      /\ \A k \in 1..Len(b) : q[k] = b[k]
      /\ \A k \in 1..(Len(b) + 1) : q[k].k = "Z" <=> k = Len(b) + 1
      /\ q[Len(b) + 1].v = sv.status
  <2>. HIDE DEF q
  <2>. QED  BY <1>1, Readied
<1>. HIDE DEF q
<1>3. DOMAIN q = 1..Len(q)
  BY <1>2, LenProperties
<1>4. past \in Pasts
  BY DEF Types
<1>5. Len(q) \in 1..Len(q) /\ q[Len(q)].k = "Z"
  BY <1>2
<1>6. /\ unread' = SubSeq(q, i + 1, Len(q))
      /\ cursor' = [cursor EXCEPT ![c] = After(cu, read)]
      /\ conn' = IF raised THEN Restored(after) ELSE after
      /\ todo' = IF raised THEN <<>> ELSE then
      /\ past' = [past EXCEPT !.derailed = @ \/ HandlerRaises(cu, q, i),
                              !.failed = @ \/ raised]
  <2>. USE DEF q
  <2>1. IF \E j \in DOMAIN q : q[j].k = "Z" \/ HandlerRaises(cu, q, j)
        THEN /\ unread' = SubSeq(q, i + 1, Len(q))
             /\ cursor' = [cursor EXCEPT ![c] = After(cu, read)]
             /\ conn' = IF raised THEN Restored(after) ELSE after
             /\ todo' = IF raised THEN <<>> ELSE then
             /\ past' = [past EXCEPT !.derailed = @ \/ HandlerRaises(cu, q, i),
                                     !.failed = @ \/ raised]
        ELSE /\ unread' = q
             /\ todo' = Waits
             /\ UNCHANGED <<cursor, conn, past>>
    BY DEF Exchange, Waits
  <2>. HIDE DEF q
  <2>2. \E j \in DOMAIN q : q[j].k = "Z" \/ HandlerRaises(cu, q, j)
    BY <1>3, <1>5
  <2>. QED  BY <2>1, <2>2
<1>. HIDE DEF q
<1>7. Len(q) \in Stops(cu, q)
  BY <1>5 DEF Stops
<1>8. i \in Stops(cu, q)
  BY <1>2, <1>7, StopsAtFirst
<1>. HIDE DEF i
<1>9. past'.derailed = (past.derailed \/ HandlerRaises(cu, q, i))
  <2>. HIDE DEF HandlerRaises
  <2>. QED  BY <1>4, <1>6 DEF Pasts
<1>10. ~past.derailed /\ ~HandlerRaises(cu, q, i)
  BY <1>9
<1>11. i = Len(q)
  <2>1. i \in 1..Len(q) /\ q[i].k = "Z"
    BY <1>8, <1>10 DEF Stops
  <2>. QED  BY <1>2, <2>1
<1>12. read = q
  BY <1>2, <1>11, SubSeqFull
<1>13. unread' = <<>>
  <2>1. i + 1 \in Int /\ Len(q) \in Int /\ Len(q) < i + 1
    BY <1>2, <1>11
  <2>. QED  BY <1>6, <2>1, SubSeqEmpty
<1>14. Has(read, "E") <=> Errs(b)
  <2>1. Has(read, "E") <=> \E k \in 1..Len(q) : q[k].k = "E"
    BY <1>3, <1>12 DEF Has
  <2>2. ASSUME NEW k \in 1..Len(q), q[k].k = "E" PROVE k \in 1..Len(b)
    BY <1>2, <1>5, <2>2
  <2>3. \A k \in 1..Len(b) : k \in 1..Len(q)
    BY <1>2
  <2>. QED  BY <1>2, <2>1, <2>2, <2>3 DEF Errs
<1>15. raised = Errs(b)
  <2>1. raised \in BOOLEAN /\ Errs(b) \in BOOLEAN
    BY DEF Has, Errs
  <2>. QED  BY <1>5, <1>11, <1>14, <2>1, Zenon
<1>16. after = [cn EXCEPT !.inTx = (sv.status # "I")]
  BY <1>2, <1>5, <1>11
<1>. HIDE DEF read, raised, after
<1>17. Restored(after) = [cn EXCEPT !.inTx = (sv.status # "I"), !.auto = past.auto]
  BY <1>16 DEF Restored, Conns
<1>18. past'.failed = (past.failed \/ raised)
  <2>. HIDE DEF HandlerRaises
  <2>. QED  BY <1>4, <1>6 DEF Pasts
<1>. QED
  BY <1>1, <1>6, <1>10, <1>12, <1>13, <1>15, <1>16, <1>17, <1>18 DEF ReadWhole

-----------------------------------------------------------------------------
(***************************************************************************)
(* The backend.                                                            *)
(***************************************************************************)

\* What a statement that ran does: named for what the invariant needs of it.
Changes(sv, sql, r) ==
    /\ sv.durable \subseteq r.durable
    /\ r.status = "E" => Fails(sv, sql) \/ sv.status = "E"
    /\ Fails(sv, sql) => r.durable = sv.durable /\ r.prepared = sv.prepared
    /\ sql.k # "prepare" => DOMAIN r.prepared \subseteq DOMAIN sv.prepared
    /\ \A g \in Gids : Held(sv, g) \subseteq r.durable \cup Held(r, g)
                       \/ (sql.k = "rollback prepared" /\ sql.g = g)
    /\ r.durable # sv.durable => \/ sql.k = "update" /\ sv.status = "I"
                                 \/ sql.k \in {"commit", "commit prepared"}
    /\ ~Fails(sv, sql) =>
         /\ sql.k \notin {"prepare", "rollback"} /\ sv.status # "E" =>
              sv.work \cup sv.durable \subseteq r.work \cup r.durable
         /\ sql.k = "update" => calls \in r.work \cup r.durable
         /\ sql.k \in {"commit", "rollback", "prepare", "commit prepared", "rollback prepared"} =>
              r.status = "I"
         /\ sql.k = "prepare" /\ sv.status # "E" => sv.work \subseteq Held(r, sql.g)
         /\ sql.k \in {"commit prepared", "rollback prepared"} => sql.g \notin DOMAIN r.prepared
         /\ sql.k = "begin" => r.status = "T"
Effects(sv, sql, r) ==
    r.named = sv.named /\ r.unnamed = sv.unnamed /\ Changes(sv, sql, r)

LEMMA ServerFields ==
    ASSUME NEW sv \in Servers
    PROVE  /\ sv.status \in {"I", "T", "E"} /\ sv.work \subseteq Nat /\ sv.durable \subseteq Nat
           /\ sv.prepared \in Partials(Gids, Updates) /\ IsFiniteSet(DOMAIN sv.prepared)
           /\ sv.named \in Partials(Nat, Statements \X Oids)
           /\ sv.unnamed \in Sqls \cup {None}
           /\ sv.status = "I" => sv.work = {}
           /\ DOMAIN sv.prepared \subseteq Gids
           /\ \A g \in DOMAIN sv.prepared : sv.prepared[g] \subseteq Nat
<1>1. /\ sv.status \in {"I", "T", "E"} /\ sv.work \subseteq Nat /\ sv.durable \subseteq Nat
      /\ sv.prepared \in Partials(Gids, Updates) /\ IsFiniteSet(DOMAIN sv.prepared)
      /\ sv.named \in Partials(Nat, Statements \X Oids)
      /\ sv.unnamed \in Sqls \cup {None}
      /\ sv.status = "I" => sv.work = {}
  BY DEF Servers
<1>2. sv.prepared \in [DOMAIN sv.prepared -> Updates] /\ DOMAIN sv.prepared \subseteq Gids
  BY <1>1, InPartials
<1>. QED  BY <1>1, <1>2 DEF Updates

\* The server with some of its fields changed.
With(sv, st, w, d, p) ==
    [sv EXCEPT !.status = st, !.work = w, !.durable = d, !.prepared = p]
LEMMA ServerWith ==
    ASSUME NEW sv \in Servers, NEW st \in {"I", "T", "E"}, NEW w \in SUBSET Nat, NEW d \in SUBSET Nat,
           NEW p \in Partials(Gids, Updates), IsFiniteSet(DOMAIN p), st = "I" => w = {}
    PROVE  /\ With(sv, st, w, d, p) \in Servers
           /\ With(sv, st, w, d, p).status = st /\ With(sv, st, w, d, p).work = w
           /\ With(sv, st, w, d, p).durable = d /\ With(sv, st, w, d, p).prepared = p
           /\ With(sv, st, w, d, p).named = sv.named /\ With(sv, st, w, d, p).unnamed = sv.unnamed
BY DEF Servers, With

LEMMA SqlFields ==
    ASSUME NEW sql \in Sqls
    PROVE  sql.k \in Texts /\ sql.g \in Ids /\ (sql.k = "prepare" => sql.g \in Gids)
BY DEF Sqls

LEMMA RanRight ==
    ASSUME NEW sv \in Servers, NEW sql \in Sqls, calls \in Nat
    PROVE  Ran(sv, sql) \in Servers /\ Effects(sv, sql, Ran(sv, sql))
<1>. DEFINE r == Ran(sv, sql)
            F == Fails(sv, sql)
<1>1. /\ sv.status \in {"I", "T", "E"} /\ sv.work \subseteq Nat /\ sv.durable \subseteq Nat
      /\ sv.prepared \in Partials(Gids, Updates) /\ IsFiniteSet(DOMAIN sv.prepared)
      /\ sv.status = "I" => sv.work = {}
      /\ DOMAIN sv.prepared \subseteq Gids
      /\ \A g \in DOMAIN sv.prepared : sv.prepared[g] \subseteq Nat
  BY ServerFields
<1>2. /\ F => r = Aborted(sv, sql)
      /\ ~F /\ sql.k = "update" =>
           r = IF sv.status = "I" THEN [sv EXCEPT !.durable = @ \cup {calls}]
                                  ELSE [sv EXCEPT !.work = @ \cup {calls}]
      /\ ~F /\ sql.k = "begin" => r = [sv EXCEPT !.status = "T"]
      /\ ~F /\ sql.k = "commit" =>
           r = IF sv.status = "T" THEN Ended([sv EXCEPT !.durable = @ \cup sv.work]) ELSE Ended(sv)
      /\ ~F /\ sql.k = "prepare" =>
           r = IF sv.status = "T" THEN Ended([sv EXCEPT !.prepared = Known(@, sql.g, sv.work)])
                                  ELSE Ended(sv)
      /\ ~F /\ sql.k = "commit prepared" =>
           r = [sv EXCEPT !.durable = @ \cup sv.prepared[sql.g], !.prepared = Forget(@, sql.g)]
      /\ ~F /\ sql.k = "rollback prepared" => r = [sv EXCEPT !.prepared = Forget(@, sql.g)]
      /\ ~F /\ sql.k = "rollback" => r = Ended(sv)
      /\ ~F /\ sql.k \notin {"update", "begin", "commit", "prepare", "commit prepared",
                             "rollback prepared", "rollback"} => r = sv
  <2>1. ASSUME F
       PROVE  r = Aborted(sv, sql)
    BY <2>1 DEF Ran
  <2>2. ASSUME ~F, sql.k = "update"
       PROVE  r = IF sv.status = "I" THEN [sv EXCEPT !.durable = @ \cup {calls}]
                                  ELSE [sv EXCEPT !.work = @ \cup {calls}]
    BY <2>2 DEF Ran
  <2>3. ASSUME ~F, sql.k = "begin"
       PROVE  r = [sv EXCEPT !.status = "T"]
    BY <2>3 DEF Ran
  <2>4. ASSUME ~F, sql.k = "commit"
       PROVE  r = IF sv.status = "T" THEN Ended([sv EXCEPT !.durable = @ \cup sv.work]) ELSE Ended(sv)
    BY <2>4 DEF Ran
  <2>5. ASSUME ~F, sql.k = "prepare"
       PROVE  r = IF sv.status = "T" THEN Ended([sv EXCEPT !.prepared = Known(@, sql.g, sv.work)])
                                  ELSE Ended(sv)
    BY <2>5 DEF Ran
  <2>6. ASSUME ~F, sql.k = "commit prepared"
       PROVE  r = [sv EXCEPT !.durable = @ \cup sv.prepared[sql.g], !.prepared = Forget(@, sql.g)]
    BY <2>6 DEF Ran
  <2>7. ASSUME ~F, sql.k = "rollback prepared"
       PROVE  r = [sv EXCEPT !.prepared = Forget(@, sql.g)]
    BY <2>7 DEF Ran
  <2>8. ASSUME ~F, sql.k = "rollback"
       PROVE  r = Ended(sv)
    BY <2>8 DEF Ran
  <2>9. ASSUME ~F, sql.k \notin {"update", "begin", "commit", "prepare", "commit prepared",
                             "rollback prepared", "rollback"}
       PROVE  r = sv
    BY <2>9 DEF Ran
  <2>. HIDE DEF F, r
  <2>. QED  BY <2>1, <2>2, <2>3, <2>4, <2>5, <2>6, <2>7, <2>8, <2>9
<1>. SUFFICES r \in Servers /\ Effects(sv, sql, r)
  OBVIOUS
<1>. HIDE DEF r
<1>3. /\ sql.k = "prepare" => sql.g \in Gids
  BY SqlFields
<1>4. CASE F
  <2>. DEFINE st == IF sql.k = "prepare" \/ sv.status = "I" THEN "I" ELSE "E"
              w == IF sql.k = "prepare" \/ sv.status = "I" THEN {} ELSE sv.work
  <2>1. r = With(sv, st, w, sv.durable, sv.prepared)
    BY <1>2, <1>4 DEF Aborted, Servers, With
  <2>2. /\ r \in Servers /\ r.status = st /\ r.work = w /\ r.durable = sv.durable
        /\ r.prepared = sv.prepared /\ r.named = sv.named /\ r.unnamed = sv.unnamed
    BY <1>1, <2>1, ServerWith
  <2>. HIDE DEF st, w
  <2>3. \A g \in Gids : Held(sv, g) = Held(r, g)
    BY <2>2 DEF Held
  <2>. QED  BY <1>4, <2>2, <2>3 DEF Effects, Changes
<1>5. CASE ~F /\ sql.k = "update"
  <2>. DEFINE w == IF sv.status = "I" THEN sv.work ELSE sv.work \cup {calls}
              d == IF sv.status = "I" THEN sv.durable \cup {calls} ELSE sv.durable
  <2>1. r = With(sv, sv.status, w, d, sv.prepared)
    BY <1>2, <1>5 DEF Servers, With
  <2>2. /\ r \in Servers /\ r.status = sv.status /\ r.work = w /\ r.durable = d
        /\ r.prepared = sv.prepared /\ r.named = sv.named /\ r.unnamed = sv.unnamed
    BY <1>1, <2>1, ServerWith
  <2>3. \A g \in Gids : Held(sv, g) = Held(r, g)
    BY <2>2 DEF Held
  <2>. QED  BY <1>5, <2>2, <2>3 DEF Effects, Changes
<1>6. CASE ~F /\ sql.k = "begin"
  <2>1. r = With(sv, "T", sv.work, sv.durable, sv.prepared)
    BY <1>2, <1>6 DEF Servers, With
  <2>2. /\ r \in Servers /\ r.status = "T" /\ r.work = sv.work /\ r.durable = sv.durable
        /\ r.prepared = sv.prepared /\ r.named = sv.named /\ r.unnamed = sv.unnamed
    BY <1>1, <2>1, ServerWith
  <2>3. \A g \in Gids : Held(sv, g) = Held(r, g)
    BY <2>2 DEF Held
  <2>. QED  BY <1>6, <2>2, <2>3 DEF Effects, Changes
<1>7. CASE ~F /\ sql.k = "commit"
  <2>. DEFINE d == IF sv.status = "T" THEN sv.durable \cup sv.work ELSE sv.durable
  <2>1. r = With(sv, "I", {}, d, sv.prepared)
    <3>1. CASE sv.status = "T"
      <4>1. r = Ended([sv EXCEPT !.durable = sv.durable \cup sv.work]) /\ d = sv.durable \cup sv.work
        BY <1>2, <1>7, <3>1
      <4>. HIDE DEF d
      <4>. QED  BY <4>1 DEF Servers, Ended, With
    <3>2. CASE sv.status # "T"
      BY <1>2, <1>7, <3>2 DEF Servers, Ended, With
    <3>. QED  BY <3>1, <3>2
  <2>2. /\ r \in Servers /\ r.status = "I" /\ r.work = {} /\ r.durable = d
        /\ r.prepared = sv.prepared /\ r.named = sv.named /\ r.unnamed = sv.unnamed
    BY <1>1, <2>1, ServerWith
  <2>3. \A g \in Gids : Held(sv, g) = Held(r, g)
    BY <2>2 DEF Held
  <2>. QED  BY <1>1, <1>7, <2>2, <2>3 DEF Effects, Changes
<1>8. CASE ~F /\ sql.k = "prepare"
  <2>. DEFINE p == IF sv.status = "T" THEN Known(sv.prepared, sql.g, sv.work) ELSE sv.prepared
  <2>1. r = With(sv, "I", {}, sv.durable, p)
    <3>1. CASE sv.status = "T"
      <4>1. r = Ended([sv EXCEPT !.prepared = p])
        BY <1>2, <1>8, <3>1
      <4>. HIDE DEF p
      <4>. QED  BY <4>1 DEF Servers, Ended, With
    <3>2. CASE sv.status # "T"
      BY <1>2, <1>8, <3>2 DEF Servers, Ended, With
    <3>. QED  BY <3>1, <3>2
  <2>2. /\ Known(sv.prepared, sql.g, sv.work) \in Partials(Gids, Updates)
        /\ IsFiniteSet(DOMAIN Known(sv.prepared, sql.g, sv.work))
    <3>1. sv.work \in Updates
      BY <1>1 DEF Updates
    <3>2. sv.prepared \in Partials(Gids, Updates) /\ sql.g \in Gids
      BY <1>1, <1>3, <1>8
    <3>3. IsFiniteSet(DOMAIN sv.prepared)
      BY <1>1
    <3>. QED  BY <3>1, <3>2, <3>3, Extended
  <2>3. /\ r \in Servers /\ r.status = "I" /\ r.work = {} /\ r.durable = sv.durable
        /\ r.prepared = p /\ r.named = sv.named /\ r.unnamed = sv.unnamed
    BY <1>1, <2>1, <2>2, ServerWith
  <2>4. sv.status = "T" => sql.g \notin DOMAIN sv.prepared
    BY <1>8 DEF Fails
  <2>5. \A g \in Gids : Held(sv, g) \subseteq Held(r, g)
    BY <2>3, <2>4 DEF Held, Known
  <2>6. sv.status # "E" => sv.work \subseteq Held(r, sql.g)
    BY <1>1, <2>3 DEF Held, Known
  <2>. HIDE DEF p
  <2>. QED  BY <1>8, <2>3, <2>5, <2>6 DEF Effects, Changes
<1>9. CASE ~F /\ sql.k \in {"commit prepared", "rollback prepared"}
  <2>. DEFINE d == IF sql.k = "commit prepared" THEN sv.durable \cup sv.prepared[sql.g]
                   ELSE sv.durable
              p == Forget(sv.prepared, sql.g)
  <2>1. r = With(sv, sv.status, sv.work, d, p)
    BY <1>2, <1>9 DEF Servers, With
  <2>2. sv.status = "I" /\ sql.g \in DOMAIN sv.prepared
    BY <1>9 DEF Fails
  <2>3. /\ p \in Partials(Gids, Updates) /\ DOMAIN p = DOMAIN sv.prepared \ {sql.g}
        /\ IsFiniteSet(DOMAIN p)
    <3>1. sv.prepared \in Partials(Gids, Updates) /\ IsFiniteSet(DOMAIN sv.prepared)
      BY <1>1
    <3>2. Forget(sv.prepared, sql.g) \in Partials(Gids, Updates)
      BY <3>1, Reduced
    <3>3. DOMAIN Forget(sv.prepared, sql.g) = DOMAIN sv.prepared \ {sql.g}
      BY DEF Forget
    <3>4. IsFiniteSet(DOMAIN Forget(sv.prepared, sql.g))
      BY <3>1, Reduced
    <3>. QED  BY <3>2, <3>3, <3>4
  <2>. HIDE DEF p
  <2>4. d \in SUBSET Nat
    BY <1>1, <2>2
  <2>. HIDE DEF d
  <2>5. /\ r \in Servers /\ r.status = sv.status /\ r.work = sv.work /\ r.durable = d
        /\ r.prepared = p /\ r.named = sv.named /\ r.unnamed = sv.unnamed
    BY <1>1, <2>1, <2>3, <2>4, ServerWith
  <2>6. \A g \in Gids : Held(sv, g) \subseteq r.durable \cup Held(r, g)
                        \/ (sql.k = "rollback prepared" /\ sql.g = g)
    BY <1>9, <2>2, <2>3, <2>5 DEF Held, p, d, Forget
  <2>7. DOMAIN r.prepared \subseteq DOMAIN sv.prepared /\ sql.g \notin DOMAIN r.prepared
    BY <2>3, <2>5
  <2>8. sv.durable \subseteq d
    BY DEF d
  <2>9. d # sv.durable => sql.k = "commit prepared"
    BY DEF d
  <2>. QED  BY <1>9, <2>2, <2>5, <2>6, <2>7, <2>8, <2>9 DEF Effects, Changes
<1>10. CASE ~F /\ sql.k = "rollback"
  <2>1. r = With(sv, "I", {}, sv.durable, sv.prepared)
    BY <1>2, <1>10 DEF Servers, Ended, With
  <2>2. /\ r \in Servers /\ r.status = "I" /\ r.work = {} /\ r.durable = sv.durable
        /\ r.prepared = sv.prepared /\ r.named = sv.named /\ r.unnamed = sv.unnamed
    BY <1>1, <2>1, ServerWith
  <2>3. \A g \in Gids : Held(sv, g) = Held(r, g)
    BY <2>2 DEF Held
  <2>. QED  BY <1>10, <2>2, <2>3 DEF Effects, Changes
<1>11. CASE ~F /\ sql.k \notin {"update", "begin", "commit", "prepare", "commit prepared",
                                "rollback prepared", "rollback"}
  <2>1. r = sv
    BY <1>2, <1>11
  <2>. QED  BY <1>11, <2>1 DEF Effects, Changes
<1>. QED
  <2>. HIDE DEF F
  <2>. QED  BY <1>4, <1>5, <1>6, <1>7, <1>8, <1>9, <1>10, <1>11

LEMMA ParseErrorRight ==
    ASSUME NEW sv \in Servers
    PROVE  /\ ParseError(sv) \in Servers
           /\ ParseError(sv).status = (IF sv.status = "I" THEN "I" ELSE "E")
           /\ ParseError(sv).work = sv.work /\ ParseError(sv).durable = sv.durable
           /\ ParseError(sv).prepared = sv.prepared /\ ParseError(sv).named = sv.named
           /\ ParseError(sv).unnamed = sv.unnamed
<1>1. ParseError(sv) = [sv EXCEPT !.status = IF sv.status = "I" THEN "I" ELSE "E"]
  BY DEF ParseError, Servers
<1>. QED  BY <1>1 DEF Servers

\* The server with another unnamed statement, or other named ones.
LEMMA ServerNamed ==
    ASSUME NEW sv \in Servers
    PROVE  /\ \A u \in Sqls \cup {None} :
                /\ [sv EXCEPT !.unnamed = u] \in Servers
                /\ [sv EXCEPT !.unnamed = u].status = sv.status
                /\ [sv EXCEPT !.unnamed = u].work = sv.work
                /\ [sv EXCEPT !.unnamed = u].durable = sv.durable
                /\ [sv EXCEPT !.unnamed = u].prepared = sv.prepared
                /\ [sv EXCEPT !.unnamed = u].named = sv.named
                /\ [sv EXCEPT !.unnamed = u].unnamed = u
           /\ \A n \in Partials(Nat, Statements \X Oids) :
                /\ [sv EXCEPT !.named = n] \in Servers
                /\ [sv EXCEPT !.named = n].status = sv.status
                /\ [sv EXCEPT !.named = n].work = sv.work
                /\ [sv EXCEPT !.named = n].durable = sv.durable
                /\ [sv EXCEPT !.named = n].prepared = sv.prepared
                /\ [sv EXCEPT !.named = n].named = n
                /\ [sv EXCEPT !.named = n].unnamed = sv.unnamed
BY DEF Servers

-----------------------------------------------------------------------------
(***************************************************************************)
(* Its answers.                                                            *)
(***************************************************************************)

Tags == {"T", "n", "D", "unreadable D", "H", "d", "C", "E"}

LEMMA OneMessage ==
    ASSUME NEW m \in Messages, m.own, m.k # "Z"
    PROVE  Said(<<m>>) /\ (Errs(<<m>>) <=> m.k = "E")
BY DEF Said, Errs

LEMMA TwoMessages ==
    ASSUME NEW m \in Messages, m.own, m.k # "Z", NEW n \in Messages, n.own, n.k # "Z"
    PROVE  Said(<<m, n>>) /\ (Errs(<<m, n>>) <=> m.k = "E" \/ n.k = "E")
BY DEF Said, Errs

LEMMA PlainMessage ==
    ASSUME NEW k \in Tags
    PROVE  /\ Message(k) \in Messages /\ Message(k).own /\ Message(k).k = k
           /\ \A v \in Texts \cup Ids :
                /\ [Message(k) EXCEPT !.v = v] \in Messages
                /\ [Message(k) EXCEPT !.v = v].own
                /\ [Message(k) EXCEPT !.v = v].k = k
                /\ [Message(k) EXCEPT !.v = v].v = v
BY DEF Message, Messages, Tags, Ids

LEMMA NoMessage == Said(<<>>) /\ ~Errs(<<>>)
BY DEF Said, Errs

LEMMA SaidJoined ==
    ASSUME NEW a, NEW b, Said(a), Said(b)
    PROVE  /\ Said(a \o b) /\ (Errs(a \o b) <=> Errs(a) \/ Errs(b))
           /\ \A i \in 1..Len(b) : \E j \in 1..Len(a \o b) : (a \o b)[j] = b[i]
           /\ \A i \in 1..Len(a) : \E j \in 1..Len(a \o b) : (a \o b)[j] = a[i]
<1>1. a \in Seq(Messages) /\ b \in Seq(Messages)
  BY DEF Said
<1>2. /\ a \o b \in Seq(Messages) /\ Len(a) \in Nat /\ Len(b) \in Nat
      /\ Len(a \o b) = Len(a) + Len(b)
      /\ \A k \in 1..Len(a) : k \in 1..Len(a \o b) /\ (a \o b)[k] = a[k]
      /\ \A k \in 1..Len(b) : Len(a) + k \in 1..Len(a \o b) /\ (a \o b)[Len(a) + k] = b[k]
      /\ \A k \in 1..Len(a \o b) :
            \/ k \in 1..Len(a) /\ (a \o b)[k] = a[k]
            \/ k - Len(a) \in 1..Len(b) /\ (a \o b)[k] = b[k - Len(a)]
  BY <1>1, Joined
<1>. DEFINE ab == a \o b
<1>3. \A k \in 1..Len(ab) : \/ \E i \in 1..Len(a) : ab[k] = a[i]
                            \/ \E i \in 1..Len(b) : ab[k] = b[i]
  BY <1>2
<1>4. \A i \in 1..Len(b) : \E j \in 1..Len(ab) : ab[j] = b[i]
  BY <1>2
<1>5. \A i \in 1..Len(a) : \E j \in 1..Len(ab) : ab[j] = a[i]
  BY <1>2
<1>6. ab \in Seq(Messages)
  BY <1>2
<1>. HIDE DEF ab
<1>7. Said(ab)
  BY <1>3, <1>6 DEF Said
<1>8. Errs(ab) <=> Errs(a) \/ Errs(b)
  BY <1>3, <1>4, <1>5 DEF Errs
<1>9. /\ Said(ab) /\ (Errs(ab) <=> Errs(a) \/ Errs(b))
      /\ \A i \in 1..Len(b) : \E j \in 1..Len(ab) : ab[j] = b[i]
      /\ \A i \in 1..Len(a) : \E j \in 1..Len(ab) : ab[j] = a[i]
  BY <1>4, <1>5, <1>7, <1>8
<1>. QED  BY <1>9 DEF ab

LEMMA Described1 ==
    ASSUME NEW sql
    PROVE  Said(Describes(sql)) /\ ~Errs(Describes(sql))
<1>1. "T" \in Tags /\ "n" \in Tags
  BY DEF Tags
<1>2. /\ Said(<<Message("T")>>) /\ ~Errs(<<Message("T")>>)
      /\ Said(<<Message("n")>>) /\ ~Errs(<<Message("n")>>)
  BY <1>1, PlainMessage, OneMessage
<1>. QED  BY <1>2 DEF Describes

LEMMA ListedRows ==
    ASSUME NEW sv \in Servers
    PROVE  LET r == [i \in 1..Cardinality(DOMAIN sv.prepared) |->
                       [Message("D") EXCEPT !.v = SetToSeq(DOMAIN sv.prepared)[i]]]
           IN /\ Said(r) /\ ~Errs(r)
              /\ \A g \in DOMAIN sv.prepared : \E i \in 1..Len(r) : r[i].k = "D" /\ r[i].v = g
<1>. DEFINE S == DOMAIN sv.prepared
            n == Cardinality(S)
            s == SetToSeq(S)
            r == [i \in 1..n |-> [Message("D") EXCEPT !.v = s[i]]]
<1>1. IsFiniteSet(S) /\ S \subseteq Gids
  BY ServerFields
<1>. HIDE DEF S
<1>2. n \in Nat /\ s \in [1..n -> S] /\ \A x \in S : \E i \in 1..n : s[i] = x
  BY <1>1, Listing
<1>. HIDE DEF n, s
<1>3. "D" \in Tags
  BY DEF Tags
<1>4. \A i \in 1..n : s[i] \in Ids
  BY <1>1, <1>2 DEF Ids
<1>5. \A i \in 1..n : /\ r[i] \in Messages /\ r[i].own /\ r[i].k = "D" /\ r[i].v = s[i]
  BY ZenonT(30), <1>3, <1>4, PlainMessage
<1>6. r \in [1..n -> Messages]
  BY <1>5
<1>. HIDE DEF r
<1>7. r \in Seq(Messages) /\ Len(r) = n
  BY <1>2, <1>6, SeqDef, LenProperties
<1>8. Said(r) /\ ~Errs(r) /\ \A g \in S : \E i \in 1..Len(r) : r[i].k = "D" /\ r[i].v = g
  BY <1>2, <1>5, <1>7 DEF Said, Errs
<1>. QED  BY <1>8 DEF r, n, s, S

LEMMA RowsSaid ==
    ASSUME NEW sv \in Servers, NEW sql \in Sqls
    PROVE  /\ Said(Rows(sv, sql)) /\ ~Errs(Rows(sv, sql))
           /\ sql.k = "list" => \A g \in DOMAIN sv.prepared :
                \E i \in 1..Len(Rows(sv, sql)) :
                   Rows(sv, sql)[i].k = "D" /\ Rows(sv, sql)[i].v = g
<1>. DEFINE r == Rows(sv, sql)
<1>1. {"D", "unreadable D", "H", "d"} \subseteq Tags
  BY DEF Tags
<1>2. /\ Said(<<Message("D")>>) /\ ~Errs(<<Message("D")>>)
  BY <1>1, PlainMessage, OneMessage
<1>8. \A k \in {"D", "unreadable D", "H", "d"} :
        Message(k) \in Messages /\ Message(k).own /\ Message(k).k = k
  BY <1>1, PlainMessage
<1>3. CASE sql.k = "select"
  <2>1. r = <<Message("D")>>
    BY <1>3 DEF Rows
  <2>. QED  BY <1>2, <1>3, <2>1
<1>4. CASE sql.k = "odd"
  <2>1. r = <<Message("unreadable D"), Message("D")>>
    BY <1>4 DEF Rows
  <2>2. Said(r) /\ ~Errs(r)
    <3>. HIDE DEF r
    <3>. QED  BY <1>8, <2>1, TwoMessages
  <2>. QED  BY <1>4, <2>2
<1>5. CASE sql.k = "copy out"
  <2>1. r = <<Message("H"), Message("d")>>
    BY <1>5 DEF Rows
  <2>2. Said(r) /\ ~Errs(r)
    <3>. HIDE DEF r
    <3>. QED  BY <1>8, <2>1, TwoMessages
  <2>. QED  BY <1>5, <2>2
<1>6. CASE sql.k = "list"
  <2>1. r = [i \in 1..Cardinality(DOMAIN sv.prepared) |->
               [Message("D") EXCEPT !.v = SetToSeq(DOMAIN sv.prepared)[i]]]
    BY <1>6 DEF Rows
  <2>2. /\ Said(r) /\ ~Errs(r)
        /\ \A g \in DOMAIN sv.prepared : \E i \in 1..Len(r) : r[i].k = "D" /\ r[i].v = g
    <3>. HIDE DEF r
    <3>. QED  BY <2>1, ListedRows
  <2>. QED  BY <2>2
<1>7. CASE sql.k \notin {"select", "odd", "copy out", "list"}
  <2>1. r = <<>>
    BY <1>7 DEF Rows
  <2>. QED  BY <1>7, <2>1, NoMessage
<1>. QED  BY <1>3, <1>4, <1>5, <1>6, <1>7

\* An answer has an error in it exactly when the statement fails, and a list of
\* the prepared transactions is complete.
LEMMA Answers ==
    ASSUME NEW sv \in Servers, NEW sql \in Sqls
    PROVE  /\ Said(AnswerToExecute(sv, sql)) /\ (Errs(AnswerToExecute(sv, sql)) <=> Fails(sv, sql))
           /\ Said(AnswerToQuery(sv, sql)) /\ (Errs(AnswerToQuery(sv, sql)) <=> Fails(sv, sql))
           /\ sql.k = "list" /\ ~Fails(sv, sql) => \A g \in DOMAIN sv.prepared :
                \E i \in 1..Len(AnswerToQuery(sv, sql)) :
                   AnswerToQuery(sv, sql)[i].k = "D" /\ AnswerToQuery(sv, sql)[i].v = g
<1>. DEFINE x == AnswerToExecute(sv, sql)
            done == <<[Message("C") EXCEPT !.v = sql.k]>>
<1>1. "E" \in Tags /\ "C" \in Tags
  BY DEF Tags
<1>2. sql.k \in Texts
  BY SqlFields
<1>3. /\ Said(<<Message("E")>>) /\ Errs(<<Message("E")>>) /\ Said(done) /\ ~Errs(done)
  BY <1>1, <1>2, PlainMessage, OneMessage
<1>4. CASE Fails(sv, sql)
  <2>1. x = <<Message("E")>> /\ AnswerToQuery(sv, sql) = x
    BY <1>4 DEF AnswerToExecute, AnswerToQuery
  <2>. QED  BY <1>3, <1>4, <2>1
<1>5. CASE ~Fails(sv, sql)
  <2>. DEFINE y == Rows(sv, sql)
              d == Describes(sql)
  <2>1. x = y \o done
    BY <1>5 DEF AnswerToExecute
  <2>2. AnswerToQuery(sv, sql) = IF ReturnsRows(sql) THEN d \o x ELSE x
    BY <1>5 DEF AnswerToQuery
  <2>3. Said(y) /\ ~Errs(y) /\ Said(d) /\ ~Errs(d)
    BY RowsSaid, Described1
  <2>4. sql.k = "list" => ReturnsRows(sql) /\ \A g \in DOMAIN sv.prepared :
           \E i \in 1..Len(y) : y[i].k = "D" /\ y[i].v = g
    BY RowsSaid DEF ReturnsRows
  <2>. HIDE DEF y, d, done, x
  <2>5. /\ Said(x) /\ ~Errs(x)
        /\ \A i \in 1..Len(y) : \E j \in 1..Len(x) : x[j] = y[i]
    BY <1>3, <2>1, <2>3, SaidJoined
  <2>6. /\ Said(d \o x) /\ ~Errs(d \o x)
        /\ \A i \in 1..Len(x) : \E j \in 1..Len(d \o x) : (d \o x)[j] = x[i]
    BY <2>3, <2>5, SaidJoined
  <2>7. ASSUME sql.k = "list", NEW g \in DOMAIN sv.prepared
        PROVE  \E i \in 1..Len(d \o x) : (d \o x)[i].k = "D" /\ (d \o x)[i].v = g
    <3>1. PICK i \in 1..Len(y) : y[i].k = "D" /\ y[i].v = g
      BY <2>4, <2>7
    <3>2. PICK j \in 1..Len(x) : x[j] = y[i]
      BY <2>5
    <3>3. PICK m \in 1..Len(d \o x) : (d \o x)[m] = x[j]
      BY <2>6
    <3>. QED  BY <3>1, <3>2, <3>3
  <2>8. Said(AnswerToQuery(sv, sql)) /\ ~Errs(AnswerToQuery(sv, sql))
    BY <2>2, <2>5, <2>6
  <2>9. sql.k = "list" => AnswerToQuery(sv, sql) = d \o x
    BY <2>2, <2>4
  <2>. QED  BY <1>5, <2>5, <2>7, <2>8, <2>9 DEF x
<1>. QED  BY <1>4, <1>5

-----------------------------------------------------------------------------
(***************************************************************************)
(* The steps of a call.                                                    *)
(***************************************************************************)

LEMMA StepFields ==
    ASSUME NEW s \in Steps
    PROVE  /\ s.do = "query" => s.c \in AllCursors /\ s.sql \in Sqls
           /\ s.do \in {"parse", "describe", "execute"} =>
                s.c \in AllCursors /\ s.sql \in Asked /\ s.stream \in BOOLEAN
           /\ s.do \in {"prepare", "prepared", "run"} =>
                s.p \in Statements /\ s.o \in Oids /\ s.n \in Nat
           /\ s.do \in {"close", "closed"} => s.n \in Nat
           /\ s.do = "choose" => s.of \in {"commit", "rollback"} /\ s.xid \in Xids
           /\ s.do = "return" =>
                /\ s.of \in {"execute", "commit", "rollback", "prepare", "tpc", "close"}
                /\ s.sql \in Sqls
                /\ s.of \in {"prepare", "tpc"} => s.id \in Gids
                /\ s.of = "close" => s.id \in Statements
BY DEF Steps

LEMMA AskedSqls == Asked \subseteq Sqls /\ \A s \in Asked : s # None /\ s.k \in Operations
<1>1. Operations \subseteq Texts /\ "prepare" \notin Operations
  BY PgClientAssumption DEF Texts
<1>2. ASSUME NEW k \in Operations PROVE SQL(k) \in Sqls /\ SQL(k) # None /\ SQL(k).k = k
  BY <1>1, <1>2, PgClientAssumption DEF SQL, Sqls, Ids
<1>. QED  BY <1>2 DEF Asked

\* A call without its first step, and with steps before it.
LEMMA FirstStep ==
    ASSUME NEW t \in Seq(Steps), Chain(t), t # <<>>
    PROVE  /\ Head(t) = t[1] /\ Head(t) \in Steps
           /\ Len(t) \in Nat /\ Tail(t) \in Seq(Steps) /\ Len(Tail(t)) = Len(t) - 1
           /\ \A i \in 1..Len(Tail(t)) : i + 1 \in 1..Len(t) /\ Tail(t)[i] = t[i + 1]
           /\ Chain(Tail(t))
           /\ Tail(t) = <<>> => Ends(Head(t)) /\ Len(t) = 1
           /\ Tail(t) # <<>> => /\ Follows(Head(t), Head(Tail(t)))
                                /\ Tail(t)[Len(Tail(t))] = t[Len(t)]
           /\ 1 \in 1..Len(t) /\ Len(t) \in 1..Len(t)
<1>1. /\ Head(t) = t[1] /\ Head(t) \in Steps /\ Len(t) \in Nat \ {0}
      /\ Tail(t) \in Seq(Steps) /\ Len(Tail(t)) = Len(t) - 1
      /\ \A i \in 1..Len(Tail(t)) : Tail(t)[i] = t[i + 1]
  BY EmptySeq, HeadTailProperties
<1>2. \A i \in 1..Len(Tail(t)) : i + 1 \in 1..Len(t)
  BY <1>1
<1>3. Linked(t) /\ Ends(t[Len(t)])
  BY DEF Chain
<1>. DEFINE u == Tail(t)
<1>. HIDE DEF u
<1>4. Linked(u)
  <2>. SUFFICES ASSUME NEW i \in 1..(Len(u) - 1) PROVE Follows(u[i], u[i + 1])
    BY DEF Linked
  <2>1. i \in 1..Len(u) /\ i + 1 \in 1..Len(u) /\ i + 1 \in 1..(Len(t) - 1)
    BY <1>1 DEF u
  <2>2. u[i] = t[i + 1] /\ u[i + 1] = t[(i + 1) + 1]
    BY <1>1, <2>1 DEF u
  <2>. QED  BY <1>3, <2>1, <2>2 DEF Linked
<1>5. ASSUME u # <<>>
      PROVE  /\ Follows(Head(t), Head(u)) /\ u[Len(u)] = t[Len(t)] /\ Ends(u[Len(u)])
  <2>1. Len(u) \in Nat \ {0} /\ Head(u) = u[1]
    BY <1>1, <1>5, EmptySeq, HeadTailProperties DEF u
  <2>2. 1 \in 1..(Len(t) - 1) /\ 1 \in 1..Len(u) /\ Len(u) \in 1..Len(u) /\ Len(u) + 1 = Len(t)
    BY <1>1, <2>1 DEF u
  <2>3. u[1] = t[1 + 1] /\ u[Len(u)] = t[Len(u) + 1]
    BY <1>1, <2>2 DEF u
  <2>. QED  BY <1>1, <1>3, <2>1, <2>2, <2>3 DEF Linked
<1>6. ASSUME u = <<>> PROVE Len(t) = 1
  <2>1. Len(u) = 0
    BY <1>6
  <2>2. Len(u) = Len(t) - 1 /\ Len(t) \in Nat
    BY <1>1 DEF u
  <2>. QED  BY <2>1, <2>2
<1>7. Chain(u)
  BY <1>4, <1>5 DEF Chain
<1>8. 1 \in 1..Len(t) /\ Len(t) \in 1..Len(t)
  BY <1>1
<1>9. Tail(t) = <<>> => Ends(Head(t)) /\ Len(t) = 1
  BY <1>1, <1>3, <1>6 DEF u
<1>. QED  BY <1>1, <1>2, <1>5, <1>7, <1>8, <1>9 DEF u

LEMMA JoinedSteps ==
    ASSUME NEW s \in Seq(Steps), NEW t \in Seq(Steps), Linked(s), Chain(t), t # <<>>,
           s # <<>> => Follows(s[Len(s)], Head(t))
    PROVE  /\ s \o t \in Seq(Steps) /\ Chain(s \o t) /\ s \o t # <<>>
           /\ (s \o t)[Len(s \o t)] = t[Len(t)]
           /\ Head(s \o t) = IF s = <<>> THEN Head(t) ELSE Head(s)
           /\ \A i \in 1..Len(s \o t) : \/ \E j \in 1..Len(s) : (s \o t)[i] = s[j]
                                        \/ \E j \in 1..Len(t) : (s \o t)[i] = t[j]
<1>. DEFINE u == s \o t
<1>1. /\ u \in Seq(Steps) /\ Len(s) \in Nat /\ Len(t) \in Nat
      /\ Len(u) = Len(s) + Len(t)
      /\ \A k \in 1..Len(s) : k \in 1..Len(u) /\ u[k] = s[k]
      /\ \A k \in 1..Len(t) : Len(s) + k \in 1..Len(u) /\ u[Len(s) + k] = t[k]
      /\ \A k \in 1..Len(u) :
            \/ k \in 1..Len(s) /\ u[k] = s[k]
            \/ k - Len(s) \in 1..Len(t) /\ u[k] = t[k - Len(s)]
  BY Joined
<1>2. CASE s = <<>>
  <2>1. u = t
    BY <1>2, ConcatEmptySeq
  <2>2. \A i \in 1..Len(t) : \E j \in 1..Len(t) : t[i] = t[j]
    OBVIOUS
  <2>. QED  BY <1>2, <2>1, <2>2
<1>3. CASE s # <<>>
  <2>. HIDE DEF u
  <2>1. Len(s) \in Nat \ {0} /\ Len(t) \in Nat \ {0} /\ Head(s) = s[1] /\ Head(t) = t[1]
    BY <1>3, EmptySeq, HeadTailProperties
  <2>2. Linked(u)
    <3>. SUFFICES ASSUME NEW i \in 1..(Len(u) - 1) PROVE Follows(u[i], u[i + 1])
      BY DEF Linked
    <3>1. CASE i \in 1..(Len(s) - 1)
      <4>1. i \in 1..Len(s) /\ i + 1 \in 1..Len(s)
        BY <1>1, <3>1
      <4>2. u[i] = s[i] /\ u[i + 1] = s[i + 1]
        BY <1>1, <4>1
      <4>. QED  BY <3>1, <4>2 DEF Linked
    <3>2. CASE i = Len(s)
      <4>1. i \in 1..Len(s) /\ 1 \in 1..Len(t)
        BY <2>1, <3>2
      <4>2. u[i] = s[Len(s)] /\ u[i + 1] = Head(t)
        BY <1>1, <2>1, <3>2, <4>1
      <4>. QED  BY <1>3, <4>2
    <3>3. CASE i \in (Len(s) + 1)..(Len(u) - 1)
      <4>1. /\ i - Len(s) \in 1..(Len(t) - 1)
            /\ i - Len(s) \in 1..Len(t) /\ (i - Len(s)) + 1 \in 1..Len(t)
            /\ Len(s) + (i - Len(s)) = i /\ Len(s) + ((i - Len(s)) + 1) = i + 1
        BY <1>1, <3>3
      <4>2. u[i] = t[i - Len(s)] /\ u[i + 1] = t[(i - Len(s)) + 1]
        BY <1>1, <4>1
      <4>. QED  BY <4>1, <4>2 DEF Linked, Chain
    <3>. QED  BY <1>1, <3>1, <3>2, <3>3
  <2>3. Len(t) \in 1..Len(t) /\ 1 \in 1..Len(s) /\ Len(u) # 0
    BY <1>1, <2>1
  <2>4. u[Len(u)] = t[Len(t)]
    BY <1>1, <2>3
  <2>5. u # <<>>
    BY <2>3
  <2>6. Head(u) = Head(s)
    <3>1. Head(u) = u[1]
      BY <1>1, <2>5, HeadTailProperties
    <3>. QED  BY <1>1, <2>1, <2>3, <3>1
  <2>7. \A i \in 1..Len(u) : \/ \E j \in 1..Len(s) : u[i] = s[j]
                             \/ \E j \in 1..Len(t) : u[i] = t[j]
    BY <1>1
  <2>8. Chain(u)
    BY <2>2, <2>4 DEF Chain
  <2>. QED  BY <1>1, <1>3, <2>4, <2>5, <2>6, <2>7, <2>8 DEF u
<1>. QED  BY <1>2, <1>3

LEMMA NoSteps == <<>> \in Seq(Steps) /\ Linked(<<>>) /\ Chain(<<>>)
<1>1. <<>> \in Seq(Steps) /\ Len(<<>>) = 0
  BY EmptySeq
<1>2. \A i \in 1..(0 - 1) : FALSE
  OBVIOUS
<1>. QED  BY <1>1, <1>2 DEF Linked, Chain

LEMMA OneStep ==
    ASSUME NEW s \in Steps
    PROVE  /\ <<s>> \in Seq(Steps) /\ Linked(<<s>>) /\ <<s>> # <<>>
           /\ Len(<<s>>) = 1 /\ <<s>>[1] = s /\ Head(<<s>>) = s
           /\ Ends(s) => Chain(<<s>>)
<1>1. <<s>> \in Seq(Steps) /\ Len(<<s>>) = 1 /\ <<s>>[1] = s /\ Head(<<s>>) = s /\ <<s>> # <<>>
  OBVIOUS
<1>2. \A i \in 1..(1 - 1) : FALSE
  OBVIOUS
<1>. QED  BY <1>1, <1>2 DEF Linked, Chain

\* A number is free whatever names are in use.
LEMMA FreeNumberExists == ASSUME conn \in Conns PROVE FreeName \in Nat \ conn.nums
<1>. DEFINE N == conn.nums
            b == Cardinality(N)
            Free == {n \in 0..b : n \notin N}
<1>1. N \subseteq Nat /\ IsFiniteSet(N) /\ b \in Nat
  BY FS_CardinalityType DEF Conns
<1>. HIDE DEF N
<1>2. Free # {}
  <2>. SUFFICES ASSUME 0..b \subseteq N PROVE FALSE
    OBVIOUS
  <2>1. 0..b \in SUBSET N
    OBVIOUS
  <2>2. Cardinality(0..b) =< b
    BY <1>1, <2>1, FS_Subset
  <2>3. Cardinality(0..b) = IF 0 > b THEN 0 ELSE b - 0 + 1
    BY <1>1, FS_Interval
  <2>. HIDE DEF b
  <2>. QED  BY <1>1, <2>2, <2>3
<1>. HIDE DEF b
<1>3. Free \subseteq Nat
  BY <1>1
<1>4. PICK n \in Free : \A m \in Free : n =< m
  <2>. HIDE DEF Free
  <2>. QED  BY <1>2, <1>3, LeastOf
<1>5. \A m \in 0..(n - 1) : m \in N
  <2>. TAKE m \in 0..(n - 1)
  <2>1. m \in 0..b /\ ~(n =< m)
    BY <1>1, <1>4
  <2>. QED  BY <1>4, <2>1
<1>6. \E k \in 0..b : k \notin N /\ \A m \in 0..(k - 1) : m \in N
  BY <1>4, <1>5
<1>7. FreeName \in 0..b /\ FreeName \notin N
  BY <1>6 DEF FreeName, N, b
<1>. QED  BY <1>1, <1>7 DEF N

-----------------------------------------------------------------------------
(***************************************************************************)
(* What holds in whatever state the connection is.                         *)
(***************************************************************************)

\* The step in hand is one of an exchange.
Exchanges == todo # <<>> /\ Head(todo).do \notin {"return", "wait for ever"}

\* What a call goes on with may follow.
GoesOn(then) ==
    /\ then \in Seq(Steps) /\ Chain(then) /\ \A i \in 1..Len(then) : KeptFor(then[i])
    /\ then # <<>> => then[Len(then)] = todo[Len(todo)]
    /\ then = <<>> => Len(todo) = 1

LEMMA TailGoesOn == ASSUME Always, Exchanges PROVE GoesOn(Tail(todo))
<1>1. todo \in Seq(Steps) /\ Chain(todo) /\ todo # <<>>
  BY DEF Always, Types, Exchanges
<1>2. /\ Tail(todo) \in Seq(Steps) /\ Chain(Tail(todo))
      /\ \A i \in 1..Len(Tail(todo)) : i + 1 \in 1..Len(todo) /\ Tail(todo)[i] = todo[i + 1]
      /\ Tail(todo) = <<>> => Len(todo) = 1
      /\ Tail(todo) # <<>> => Tail(todo)[Len(Tail(todo))] = todo[Len(todo)]
  BY <1>1, FirstStep
<1>3. \A i \in 1..Len(todo) : KeptFor(todo[i])
  BY DEF Always, Kept
<1>4. \A i \in 1..Len(Tail(todo)) : KeptFor(Tail(todo)[i])
  BY <1>2, <1>3
<1>. QED  BY <1>2, <1>4 DEF GoesOn

LEMMA ExchangeAlways ==
    ASSUME Always, Exchanges, NEW c \in AllCursors, NEW cu \in CursorStates, NEW sv \in Servers,
           NEW answer \in Seq(Messages), NEW cn \in Conns, cn.open = conn.open, cn.auto = conn.auto,
           NEW then, GoesOn(then), then # <<>> /\ Head(then).do = "execute" => cn.held,
           Exchange(c, cu, sv, answer, cn, then)
    PROVE  Always' /\ SamePast
<1>1. /\ Types /\ (conn.auto = past.auto \/ Step("wait for ever") \/ Ending("tpc"))
      /\ conn.open /\ past.ended = None /\ past.started
  BY DEF Always, Exchanges
<1>2. /\ server' = sv /\ UNCHANGED <<cache, calls>> /\ SamePast
      /\ unread' \in Seq(Messages) /\ cursor' \in [AllCursors -> CursorStates]
      /\ conn' \in Conns /\ conn'.open = conn.open
      /\ \/ conn'.held = cn.held /\ todo' # Waits
         \/ todo' \in {<<>>, Waits}
      /\ \/ todo' = then /\ conn'.auto = cn.auto
         \/ todo' = <<>> /\ conn'.auto = past.auto
         \/ todo' = Waits /\ conn' = conn
  <2>0. Types
    BY DEF Always
  <2>1. Exchanged(sv, cn, then)
    BY <2>0, ExchangeTyped
  <2>. QED  BY <2>1 DEF Exchanged
<1>3. /\ Waits \in Seq(Steps) /\ Chain(Waits) /\ Head(Waits).do = "wait for ever" /\ Waits # <<>>
      /\ \A i \in 1..Len(Waits) : KeptFor(Waits[i])
  <2>. DEFINE w == [do |-> "wait for ever"]
  <2>1. w \in Steps /\ Ends(w) /\ w.do = "wait for ever"
    BY DEF Steps, Ends
  <2>2. KeptFor(w)
    BY DEF KeptFor
  <2>. HIDE DEF w
  <2>3. Waits = <<w>>
    BY DEF Waits, w
  <2>4. \A i \in 1..1 : i = 1
    OBVIOUS
  <2>. QED  BY <2>1, <2>2, <2>3, <2>4, OneStep
<1>4. todo' \in Seq(Steps) /\ Chain(todo') /\ \A i \in 1..Len(todo') : KeptFor(todo'[i])
  <2>1. <<>> \in Seq(Steps) /\ Chain(<<>>) /\ \A i \in 1..Len(<<>>) : KeptFor(<<>>[i])
    <3>1. Len(<<>>) = 0 /\ \A i \in 1..0 : FALSE
      OBVIOUS
    <3>. QED  BY <3>1, NoSteps
  <2>. QED  BY <1>2, <1>3, <2>1 DEF GoesOn
<1>5. Types'
  <2>1. conn' \in Conns /\ cursor' \in [AllCursors -> CursorStates] /\ unread' \in Seq(Messages)
    BY <1>2
  <2>2. server' \in Servers /\ todo' \in Seq(Steps) /\ past' \in Pasts
    BY <1>2, <1>4 DEF SamePast
  <2>3. cache' = cache /\ calls' = calls
    BY <1>2
  <2>4. cache \in [Statements -> Cached \cup {None}] /\ calls \in 0..MaxCalls
    BY DEF Always, Types
  <2>5. cache' \in [Statements -> Cached \cup {None}] /\ calls' \in 0..MaxCalls
    BY <2>3, <2>4, Zenon
  <2>. QED  BY <2>1, <2>2, <2>5 DEF Types
<1>6. Kept'
  BY <1>2, <1>4 DEF Kept, KeptFor
<1>7. Step("execute")' => conn'.held
  <2>. SUFFICES ASSUME todo' # <<>>, Head(todo').do = "execute" PROVE conn'.held
    BY DEF Step
  <2>1. todo' # Waits
    BY <1>3
  <2>. QED  BY <1>2, <2>1
<1>8. (conn.auto = past.auto \/ Step("wait for ever") \/ Ending("tpc"))'
  <2>1. ~Step("wait for ever")
    BY DEF Exchanges, Step
  <2>2. CASE todo' = then /\ conn'.auto = cn.auto
    <3>1. CASE conn.auto = past.auto
      BY <1>2, <2>2, <3>1 DEF SamePast
    <3>2. CASE Ending("tpc")
      <4>1. then # <<>>
        <5>1. CASE then = <<>>
          <6>1. todo[1].do = "return" /\ Head(todo) = todo[1]
            BY <3>2, <5>1, FirstStep DEF Ending, GoesOn, Always, Types
          <6>. QED  BY <6>1 DEF Exchanges
        <5>. QED  BY <5>1
      <4>. QED  BY <2>2, <3>2, <4>1 DEF Ending, GoesOn
    <3>. QED  BY <1>1, <2>1, <3>1, <3>2
  <2>3. CASE todo' = <<>> /\ conn'.auto = past.auto
    BY <1>2, <2>3 DEF SamePast
  <2>4. CASE todo' = Waits
    BY <1>3, <2>4 DEF Step
  <2>. QED  BY <1>2, <2>2, <2>3, <2>4
<1>9. conn'.open /\ past'.ended = None /\ past'.started
  BY <1>1, <1>2 DEF SamePast
<1>. QED  BY <1>2, <1>4, <1>5, <1>6, <1>7, <1>8, <1>9 DEF Always

-----------------------------------------------------------------------------
(***************************************************************************)
(* An exchange while the connection is in step.                            *)
(***************************************************************************)

InPlace == NamesNow /\ OwnRows /\ Talking /\ Begun /\ Promises

\* What an exchange does then, on cursor c, which has become cu, when the
\* server has become sv and has said b before it is ready.
Does(c, cu, sv, b, cn, then) ==
    /\ server' = sv /\ UNCHANGED <<cache, calls>> /\ SamePast
    /\ unread' = <<>>
    /\ cursor' = [cursor EXCEPT ![c] = After(cu, b \o Ready(sv))]
    /\ past'.failed = (past.failed \/ Errs(b))
    /\ conn'.open = conn.open /\ conn'.held = cn.held /\ conn'.nums = cn.nums
    /\ conn'.inTx = (sv.status # "I")
    /\ todo' = IF Errs(b) THEN <<>> ELSE then

LEMMA ExchangeDoes ==
    ASSUME Always, Talking, NEW c \in AllCursors, NEW cu \in CursorStates, NEW sv \in Servers,
           NEW then, NEW b, Said(b), NEW cn \in Conns, cn.open = conn.open,
           Exchange(c, cu, sv, b \o Ready(sv), cn, then), ~past'.derailed
    PROVE  Does(c, cu, sv, b, cn, then)
<1>0. Types
  BY DEF Always
<1>1. unread = <<>>
  BY DEF Talking
<1>2. /\ unread' = <<>>
      /\ cursor' = [cursor EXCEPT ![c] = After(cu, b \o Ready(sv))]
      /\ past'.failed = (past.failed \/ Errs(b))
      /\ conn' = IF Errs(b) THEN [cn EXCEPT !.inTx = (sv.status # "I"), !.auto = past.auto]
                 ELSE [cn EXCEPT !.inTx = (sv.status # "I")]
      /\ todo' = IF Errs(b) THEN <<>> ELSE then
  <2>1. ReadWhole(c, cu, sv, b, cn, then)
    BY <1>0, <1>1, ExchangeInStep
  <2>. QED  BY <2>1 DEF ReadWhole
<1>3. b \o Ready(sv) \in Seq(Messages)
  BY Readied
<1>4. Exchanged(sv, cn, then)
  BY <1>0, <1>3, ExchangeTyped
<1>5. /\ conn'.open = conn.open /\ conn'.held = cn.held /\ conn'.nums = cn.nums
      /\ conn'.inTx = (sv.status # "I")
  <2>. DEFINE x == sv.status # "I"
  <2>. HIDE DEF x
  <2>1. CASE Errs(b)
    <3>1. conn' = [cn EXCEPT !.inTx = x, !.auto = past.auto]
      BY <1>2, <2>1 DEF x
    <3>2. conn'.open = cn.open /\ conn'.held = cn.held /\ conn'.nums = cn.nums /\ conn'.inTx = x
      BY <3>1 DEF Conns
    <3>. QED  BY <3>2 DEF x
  <2>2. CASE ~Errs(b)
    <3>1. conn' = [cn EXCEPT !.inTx = x]
      BY <1>2, <2>2 DEF x
    <3>2. conn'.open = cn.open /\ conn'.held = cn.held /\ conn'.nums = cn.nums /\ conn'.inTx = x
      BY <3>1 DEF Conns
    <3>. QED  BY <3>2 DEF x
  <2>. QED  BY <2>1, <2>2
<1>. QED  BY <1>2, <1>4, <1>5 DEF Does, Exchanged

LEMMA RowsStayOwn ==
    ASSUME Always, OwnRows, NEW c \in AllCursors, NEW cu \in CursorStates, OwnState(cu),
           NEW sv \in Servers, NEW b, Said(b), NEW cn, NEW then, Does(c, cu, sv, b, cn, then)
    PROVE  OwnRows'
<1>1. cursor \in [AllCursors -> CursorStates]
  BY DEF Always, Types
<1>2. b \o Ready(sv) \in Seq(Messages) /\ AllOwn(b \o Ready(sv))
  BY Readied
<1>3. OwnState(After(cu, b \o Ready(sv)))
  BY <1>2, AfterReading
<1>4. cursor' = [cursor EXCEPT ![c] = After(cu, b \o Ready(sv))]
  BY DEF Does
<1>5. ASSUME NEW d \in AllCursors PROVE OwnState(cursor'[d])
  <2>1. CASE d = c
    BY <1>1, <1>3, <1>4, <2>1
  <2>2. CASE d # c
    BY <1>1, <1>4, <2>2 DEF OwnRows, OwnState
  <2>. QED  BY <2>1, <2>2
<1>. QED  BY <1>5 DEF OwnRows, OwnState

\* What the next step of the call needs of this one.
LeadsOn(c, sv, b, then) ==
    ~Errs(b) /\ then # <<>> =>
      /\ Head(then).do \in {"describe", "execute"} =>
           sv.unnamed = Head(then).sql /\ sv.status # "E"
      /\ Head(then).do = "choose" =>
           /\ c = "list"
           /\ \A g \in DOMAIN sv.prepared :
                 \E i \in 1..Len(b) : b[i].k = "D" /\ b[i].v = g

LEMMA TalkGoesOn ==
    ASSUME Always, Exchanges, Talking, NEW c \in AllCursors, NEW cu \in CursorStates,
           NEW sv \in Servers, NEW b, Said(b), NEW cn \in Conns, NEW then,
           Does(c, cu, sv, b, cn, then),
           cn.held => ~Errs(b) /\ then # <<>> /\ Head(then).do = "execute",
           LeadsOn(c, sv, b, then)
    PROVE  Talking'
<1>1. cursor \in [AllCursors -> CursorStates]
  BY DEF Always, Types
<1>2. /\ server' = sv /\ unread' = <<>> /\ conn'.held = cn.held /\ conn'.inTx = (sv.status # "I")
      /\ cursor' = [cursor EXCEPT ![c] = After(cu, b \o Ready(sv))]
      /\ todo' = IF Errs(b) THEN <<>> ELSE then
  BY DEF Does
<1>3. /\ (conn.open \/ ~past.started => (conn.inTx <=> server.status # "I"))'
      /\ unread' = <<>>
  BY <1>2
<1>4. (conn.held => Step("execute"))'
  BY <1>2 DEF Step
<1>5. (Step("describe") \/ Step("execute") =>
          server.unnamed = Head(todo).sql /\ server.status # "E")'
  BY <1>2 DEF Step, LeadsOn
<1>6. ASSUME Step("choose")', NEW g \in DOMAIN server'.prepared
      PROVE  \E i \in 1..Len(cursor'["list"].rows) : cursor'["list"].rows[i].v = g
  <2>1. ~Errs(b) /\ then # <<>> /\ Head(then).do = "choose"
    BY <1>2, <1>6 DEF Step
  <2>2. PICK i \in 1..Len(b) : b[i].k = "D" /\ b[i].v = g
    BY <1>2, <1>6, <2>1 DEF LeadsOn
  <2>. DEFINE q == b \o Ready(sv)
  <2>3. /\ q \in Seq(Messages) /\ Len(q) = Len(b) + 1 /\ Len(b) \in Nat
        /\ \A n \in 1..Len(b) : q[n] = b[n]
    BY Readied
  <2>. HIDE DEF q
  <2>4. i \in 1..Len(q) /\ q[i].k = "D" /\ q[i].v = g
    BY <2>2, <2>3
  <2>5. PICK n \in 1..Len(After(cu, q).rows) : After(cu, q).rows[n] = q[i]
    BY <2>3, <2>4, AfterReading
  <2>6. cursor'["list"] = After(cu, q)
    BY <1>1, <1>2, <2>1 DEF q, LeadsOn
  <2>. QED  BY <2>4, <2>5, <2>6
<1>. QED  BY <1>3, <1>4, <1>5, <1>6 DEF Talking

-----------------------------------------------------------------------------
LEMMA BeginningGoesOn ==
    ASSUME Always, NEW c, NEW cu, NEW sv, NEW b, NEW cn, NEW then, Does(c, cu, sv, b, cn, then),
           ~Errs(b) /\ then # <<>> /\ Executes(Head(then)) => past.auto \/ sv.status # "I"
    PROVE  Begun'
<1>1. /\ server' = sv /\ todo' = IF Errs(b) THEN <<>> ELSE then
      /\ past'.auto = past.auto
  BY DEF Does, SamePast
<1>2. ASSUME todo' # <<>>, Executes(Head(todo'))
      PROVE  past'.auto \/ server'.status # "I"
  <2>1. ~Errs(b) /\ todo' = then
    BY <1>1, <1>2
  <2>. QED  BY <1>1, <1>2, <2>1
<1>3. (todo # <<>> /\ Executes(Head(todo)))' => (past.auto \/ server.status # "I")'
  <2>. SUFFICES ASSUME (todo # <<>> /\ Executes(Head(todo)))' PROVE (past.auto \/ server.status # "I")'
    OBVIOUS
  <2>1. todo' # <<>> /\ Executes(Head(todo'))
    BY DEF Executes
  <2>. QED  BY <1>2, <2>1
<1>. QED  BY <1>3 DEF Begun

LEMMA ReturnIsLast ==
    ASSUME NEW t \in Seq(Steps), Chain(t), t # <<>>, Head(t).do \in {"return", "wait for ever"}
    PROVE  Len(t) = 1 /\ t[Len(t)] = Head(t)
<1>1. Tail(t) # <<>> => Follows(Head(t), Head(Tail(t)))
  BY FirstStep
<1>2. Tail(t) = <<>>
  BY <1>1 DEF Follows
<1>3. Len(t) = 1 /\ Head(t) = t[1]
  BY <1>2, FirstStep
<1>. QED  BY <1>3

\* Names disappear only while a statement is being closed.
LEMMA NamesStay ==
    ASSUME Always, NamesNow, Exchanges,
           Head(todo).do \in {"query", "parse", "describe", "execute", "run"},
           NEW c, NEW cu, NEW sv, NEW b, NEW cn, Does(c, cu, sv, b, cn, Tail(todo)),
           cn.nums = conn.nums, sv.named = server.named
    PROVE  NamesNow'
<1>1. /\ server'.named = server.named /\ conn'.nums = conn.nums /\ cache' = cache
      /\ todo' = <<>> \/ todo' = Tail(todo)
  BY DEF Does
<1>2. todo \in Seq(Steps) /\ Chain(todo) /\ todo # <<>>
  BY DEF Always, Types, Exchanges
<1>3. /\ Head(todo) = todo[1] /\ Head(todo) \in Steps
      /\ Len(todo) \in Nat /\ Tail(todo) \in Seq(Steps) /\ Len(Tail(todo)) = Len(todo) - 1
      /\ \A i \in 1..Len(Tail(todo)) : i + 1 \in 1..Len(todo) /\ Tail(todo)[i] = todo[i + 1]
      /\ Tail(todo) # <<>> => /\ Follows(Head(todo), Head(Tail(todo)))
                              /\ Tail(todo)[Len(Tail(todo))] = todo[Len(todo)]
  BY <1>2, FirstStep
<1>4. ASSUME todo' # <<>>
      PROVE  /\ Head(todo').do \notin {"prepared", "close", "closed"}
             /\ Head(todo').do = "return" => Head(todo').of # "close"
  <2>1. todo' = Tail(todo) /\ Follows(Head(todo), Head(todo'))
    BY <1>1, <1>3, <1>4
  <2>2. CASE Head(todo).do = "query"
    <3>1. FollowsQuery(Head(todo), Head(todo'))
      BY <2>1, <2>2 DEF Follows
    <3>. QED  BY <3>1, PgClientAssumption DEF FollowsQuery, Executes
  <2>3. CASE Head(todo).do # "query"
    BY <2>1, <2>3 DEF Follows
  <2>. QED  BY <2>2, <2>3
<1>5. ~Step("prepared")' /\ ~Step("close")' /\ ~Step("closed")' /\ ~At("close")'
  BY <1>4 DEF Step, At
<1>6. ~Step("prepared") /\ ~Step("close") /\ ~Step("closed") /\ ~At("close")
  BY DEF Step, At
<1>7. \A p \in Statements : cache[p] # None => \A o \in DOMAIN cache[p] :
          /\ Entered(p, o) /\ cache[p][o].desc # "other"
  BY <1>6 DEF NamesNow, Closing
<1>8. (\A p \in Statements : cache[p] # None => \A o \in DOMAIN cache[p] :
          /\ cache[p][o].n \in DOMAIN server.named \/ ~Closing(p) => Entered(p, o)
          /\ cache[p][o].desc # "other")'
  BY <1>1, <1>7 DEF Entered
<1>9. ASSUME NEW i \in 1..Len(todo'), todo'[i].do = "close"
      PROVE  \E p \in Statements :
                /\ cache'[p] # None /\ todo'[Len(todo')].id = p
                /\ \E o \in DOMAIN cache'[p] : cache'[p][o].n = todo'[i].n
  <2>1. CASE todo' = <<>>
    BY <1>9, <2>1
  <2>2. CASE todo' = Tail(todo) /\ Tail(todo) # <<>>
    <3>1. i + 1 \in 1..Len(todo) /\ todo'[i] = todo[i + 1] /\ todo'[Len(todo')] = todo[Len(todo)]
      BY <1>3, <1>9, <2>2
    <3>. QED  BY <1>1, <1>9, <3>1 DEF NamesNow
  <2>. QED  BY <1>1, <2>1, <2>2
<1>10. DOMAIN server'.named \subseteq conn'.nums
  BY <1>1 DEF NamesNow
<1>. QED  BY <1>5, <1>8, <1>9, <1>10 DEF NamesNow

\* Preparing, describing and closing leave the transaction as it is.
LEMMA PromisesUntouched ==
    ASSUME Always, Promises, Exchanges, NEW c, NEW cu, NEW sv, NEW b, NEW cn, NEW then,
           Does(c, cu, sv, b, cn, then),
           sv.work = server.work, sv.durable = server.durable, sv.prepared = server.prepared,
           sv.status = "E" => server.status = "E" \/ Errs(b),
           ~Errs(b) /\ then # <<>> => Head(then).do \notin {"return", "query"}
    PROVE  Promises'
<1>1. /\ server' = sv /\ past'.failed = (past.failed \/ Errs(b))
      /\ todo' = IF Errs(b) THEN <<>> ELSE then
      /\ past'.acked = past.acked /\ past'.pending = past.pending /\ past'.due = past.due
      /\ past'.ended = past.ended /\ conn'.open = conn.open
  BY DEF Does, SamePast
<1>2. ~Step("return") /\ past.ended = None
  BY DEF Exchanges, Step, Always
<1>3. ~Step("return")' /\ ~Step("query")'
  BY <1>1 DEF Step
<1>4. /\ ~At("rollback")' /\ ~At("prepare")' /\ ~At("tpc")' /\ ~At("execute")' /\ ~At("commit")'
      /\ ~Undone' /\ ~Elsewhere'
  BY <1>3 DEF At, Undone, Elsewhere
<1>5. /\ ~At("rollback") /\ ~At("prepare") /\ ~At("tpc") /\ ~Undone
  BY <1>2 DEF At, Undone
<1>6. (server.status = "E" => past.failed)'
  BY <1>1 DEF Promises
<1>7. (conn.open /\ ~past.failed /\ ~Undone => past.acked \subseteq server.work \cup server.durable)'
  BY <1>1, <1>5 DEF Promises
<1>8. (\A g \in DOMAIN past.pending :
          \/ past.pending[g] \subseteq server.durable \cup Held(server, g)
          \/ At("tpc") /\ Head(todo).sql.k = "rollback" /\ Head(todo).id = g)'
  BY <1>1, <1>5 DEF Promises, Held
<1>9. past.due \subseteq server.durable \/ ~Formed
  BY DEF Promises
<1>10. (Formed => /\ Elsewhere => todo[Len(todo)].id \notin DOMAIN server.prepared
                  /\ past.ended # None => past.ended \notin DOMAIN server.prepared
                  /\ past.due \subseteq server.durable)'
  BY <1>1, <1>2, <1>4, <1>9 DEF Formed
<1>. QED  BY <1>4, <1>6, <1>7, <1>8, <1>10 DEF Promises

-----------------------------------------------------------------------------
\* A statement ran, and what the call goes on with was meant for it.
Meant(sql) ==
    \/ Head(todo).do = "query" /\ Head(todo).sql = sql
    \/ /\ Head(todo).do \in {"execute", "run"}
       /\ sql.k \in {"select", "update", "failing", "broken", "odd", "copy out"}
       /\ Head(Tail(todo)).do = "return"
       /\ Head(Tail(todo)).of = "execute" /\ Head(Tail(todo)).sql = sql

\* What the return of a call, next, says of the statement that ran.
Meaning(sql, next) ==
    /\ next.do = "return" =>
         /\ next.of = "execute" => next.sql = sql
         /\ next.of = "commit" => sql.k = "commit"
         /\ next.of = "rollback" => sql.k = "rollback"
         /\ next.of = "prepare" => sql.k = "prepare" /\ next.id = sql.g
         /\ next.of = "tpc" =>
              \/ sql.k \in {"commit", "rollback"} /\ next.sql = sql /\ Head(todo).do = "query"
              \/ /\ sql.k \in {"commit prepared", "rollback prepared"} /\ next.id = sql.g
                 /\ next.sql.k = (IF sql.k = "commit prepared" THEN "commit" ELSE "rollback")
    /\ next.do = "query" => next.sql.k \notin {"commit", "rollback"}
    /\ sql.k = "prepare" => next.do = "return" /\ next.of = "prepare"
    /\ sql.k = "rollback" =>
         next.do = "return" /\ (next.of = "rollback" \/ (next.of = "tpc" /\ next.sql = sql))
    /\ sql.k = "rollback prepared" => next.do = "return" /\ next.of = "tpc"

LEMMA NextIsMeant ==
    ASSUME Always, Exchanges, Tail(todo) # <<>>, NEW sql, Meant(sql)
    PROVE  Meaning(sql, Head(Tail(todo)))
<1>1. todo \in Seq(Steps) /\ Chain(todo) /\ todo # <<>>
  BY DEF Always, Types, Exchanges
<1>2. Follows(Head(todo), Head(Tail(todo)))
  BY <1>1, FirstStep
<1>3. Operations \subseteq {"select", "update", "failing", "broken", "odd", "copy out"}
  BY PgClientAssumption
<1>4. CASE Head(todo).do = "query" /\ Head(todo).sql = sql
  <2>1. FollowsQuery(Head(todo), Head(Tail(todo)))
    BY <1>2, <1>4 DEF Follows
  <2>. QED  BY <1>3, <1>4, <2>1 DEF FollowsQuery, Meaning, Executes
<1>5. CASE /\ Head(todo).do \in {"execute", "run"}
           /\ sql.k \in {"select", "update", "failing", "broken", "odd", "copy out"}
           /\ Head(Tail(todo)).do = "return"
           /\ Head(Tail(todo)).of = "execute" /\ Head(Tail(todo)).sql = sql
  BY <1>3, <1>5 DEF Meaning
<1>. QED  BY <1>4, <1>5 DEF Meant

LEMMA PromisesRan ==
    ASSUME Always, Promises, Exchanges, NEW c, NEW cu, NEW sv, NEW b, NEW cn,
           Does(c, cu, sv, b, cn, Tail(todo)), NEW sql \in Sqls, Meant(sql),
           Changes(server, sql, sv), Errs(b) <=> Fails(server, sql)
    PROVE  Promises'
<1>1. /\ server' = sv /\ past'.failed = (past.failed \/ Fails(server, sql))
      /\ todo' = IF Fails(server, sql) THEN <<>> ELSE Tail(todo)
      /\ past'.acked = past.acked /\ past'.pending = past.pending /\ past'.due = past.due
      /\ past'.ended = past.ended /\ conn'.open = conn.open /\ calls' = calls
  <2>1. /\ server' = sv /\ past'.failed = (past.failed \/ Errs(b))
        /\ todo' = IF Errs(b) THEN <<>> ELSE Tail(todo)
        /\ past'.acked = past.acked /\ past'.pending = past.pending /\ past'.due = past.due
        /\ past'.ended = past.ended /\ conn'.open = conn.open /\ calls' = calls
    BY DEF Does, SamePast
  <2>2. Errs(b) \in BOOLEAN /\ Fails(server, sql) \in BOOLEAN
    BY DEF Errs, Fails
  <2>3. past'.failed = (past.failed \/ Fails(server, sql))
    BY <2>1, <2>2, Zenon
  <2>. QED  BY <2>1, <2>3
<1>2. ~Step("return") /\ past.ended = None /\ conn.open
  BY DEF Exchanges, Step, Always
<1>3. ~At("rollback") /\ ~At("prepare") /\ ~At("tpc") /\ ~Undone
  BY <1>2 DEF At, Undone
<1>4. /\ server.durable \subseteq sv.durable
      /\ sv.status = "E" => Fails(server, sql) \/ server.status = "E"
      /\ Fails(server, sql) => sv.durable = server.durable /\ sv.prepared = server.prepared
      /\ sql.k # "prepare" => DOMAIN sv.prepared \subseteq DOMAIN server.prepared
      /\ \A g \in Gids : Held(server, g) \subseteq sv.durable \cup Held(sv, g)
                         \/ (sql.k = "rollback prepared" /\ sql.g = g)
      /\ ~Fails(server, sql) =>
         /\ sql.k \notin {"prepare", "rollback"} /\ server.status # "E" =>
              server.work \cup server.durable \subseteq sv.work \cup sv.durable
         /\ sql.k = "update" => calls \in sv.work \cup sv.durable
         /\ sql.k \in {"commit", "rollback", "prepare", "commit prepared", "rollback prepared"} =>
              sv.status = "I"
         /\ sql.k = "prepare" /\ server.status # "E" => server.work \subseteq Held(sv, sql.g)
         /\ sql.k \in {"commit prepared", "rollback prepared"} => sql.g \notin DOMAIN sv.prepared
  BY DEF Changes
<1>5. /\ server.status = "E" => past.failed
      /\ ~past.failed => past.acked \subseteq server.work \cup server.durable
      /\ \A g \in DOMAIN past.pending : past.pending[g] \subseteq server.durable \cup Held(server, g)
      /\ Formed => /\ Elsewhere => todo[Len(todo)].id \notin DOMAIN server.prepared
                   /\ past.due \subseteq server.durable
  BY <1>2, <1>3 DEF Promises
<1>6. DOMAIN past.pending \subseteq Gids
  BY InPartials DEF Always, Types, Pasts
<1>7. CASE Fails(server, sql)
  <2>1. ~Step("return")' /\ ~Step("query")'
    BY <1>1, <1>7 DEF Step
  <2>2. /\ ~At("rollback")' /\ ~At("prepare")' /\ ~At("tpc")' /\ ~At("execute")' /\ ~At("commit")'
        /\ ~Undone' /\ ~Elsewhere'
    BY <2>1 DEF At, Undone, Elsewhere
  <2>3. past'.failed
    BY <1>1, <1>7
  <2>4. (\A g \in DOMAIN past.pending :
            \/ past.pending[g] \subseteq server.durable \cup Held(server, g)
            \/ At("tpc") /\ Head(todo).sql.k = "rollback" /\ Head(todo).id = g)'
    BY <1>1, <1>4, <1>5, <1>7 DEF Held
  <2>5. (Formed => /\ Elsewhere => todo[Len(todo)].id \notin DOMAIN server.prepared
                   /\ past.ended # None => past.ended \notin DOMAIN server.prepared
                   /\ past.due \subseteq server.durable)'
    BY <1>1, <1>2, <1>4, <1>5, <2>2 DEF Formed
  <2>. QED  BY <2>2, <2>3, <2>4, <2>5 DEF Promises
<1>8. CASE ~Fails(server, sql)
  <2>1. todo' = Tail(todo) /\ past'.failed = past.failed
    BY <1>1, <1>8 DEF Always, Types, Pasts
  <2>2. todo' # <<>> => Meaning(sql, Head(todo'))
    BY <2>1, NextIsMeant
  <2>3. todo \in Seq(Steps) /\ Chain(todo) /\ todo # <<>>
    BY DEF Always, Types, Exchanges
  <2>4. (server.status = "E" => past.failed)'
    BY <1>1, <1>4, <1>5, <1>8, <2>1
  <2>5. (conn.open /\ ~past.failed /\ ~Undone =>
            past.acked \subseteq server.work \cup server.durable)'
    <3>1. SUFFICES ASSUME ~past'.failed, ~Undone'
                   PROVE  past'.acked \subseteq server'.work \cup server'.durable
      OBVIOUS
    <3>2. server.status # "E" /\ past.acked \subseteq server.work \cup server.durable
      BY <1>5, <2>1, <3>1
    <3>3. sql.k \notin {"prepare", "rollback"}
      <4>1. SUFFICES ASSUME sql.k \in {"prepare", "rollback"} PROVE FALSE
        OBVIOUS
      <4>2. Head(todo).do = "query"
        BY <4>1, PgClientAssumption DEF Meant
      <4>3. todo' # <<>>
        <5>1. Tail(todo) = <<>> => Ends(Head(todo))
          BY <2>3, FirstStep
        <5>. QED  BY <2>1, <4>1, <4>2, <5>1, PgClientAssumption DEF Ends, Meant
      <4>. QED  BY <2>2, <3>1, <4>1, <4>3 DEF Meaning, Undone, At, Step
    <3>. QED  BY <1>1, <1>4, <1>8, <3>2, <3>3
  <2>6. (\A g \in DOMAIN past.pending :
            \/ past.pending[g] \subseteq server.durable \cup Held(server, g)
            \/ At("tpc") /\ Head(todo).sql.k = "rollback" /\ Head(todo).id = g)'
    <3>1. SUFFICES ASSUME NEW g \in DOMAIN past.pending
                   PROVE  \/ past.pending[g] \subseteq sv.durable \cup Held(sv, g)
                          \/ (At("tpc") /\ Head(todo).sql.k = "rollback" /\ Head(todo).id = g)'
      BY <1>1 DEF Held
    <3>2. CASE Held(server, g) \subseteq sv.durable \cup Held(sv, g)
      BY <1>4, <1>5, <3>2
    <3>3. CASE sql.k = "rollback prepared" /\ sql.g = g
      <4>1. Head(todo).do = "query"
        BY <3>3, PgClientAssumption DEF Meant
      <4>2. todo' # <<>>
        <5>1. Tail(todo) = <<>> => Ends(Head(todo))
          BY <2>3, FirstStep
        <5>. QED  BY <2>1, <3>3, <4>1, <5>1, PgClientAssumption DEF Ends, Meant
      <4>. QED  BY <2>2, <3>3, <4>2 DEF Meaning, At, Step
    <3>. QED  BY <1>4, <1>6, <3>2, <3>3
  <2>7. (At("execute") /\ Head(todo).sql.k = "update" => calls \in server.work \cup server.durable)'
    <3>1. SUFFICES ASSUME At("execute")', Head(todo').sql.k = "update"
                   PROVE  calls \in sv.work \cup sv.durable
      BY <1>1
    <3>2. sql.k = "update"
      BY <2>2, <3>1 DEF Meaning, At, Step
    <3>. QED  BY <1>4, <1>8, <3>2
  <2>8. (At("commit") \/ At("rollback") \/ At("prepare") \/ At("tpc") => server.status = "I")'
    <3>1. SUFFICES ASSUME (At("commit") \/ At("rollback") \/ At("prepare") \/ At("tpc"))'
                   PROVE  sv.status = "I"
      BY <1>1
    <3>2. sql.k \in {"commit", "rollback", "prepare", "commit prepared", "rollback prepared"}
      BY <2>2, <3>1 DEF Meaning, At, Step
    <3>. QED  BY <1>4, <1>8, <3>2
  <2>9. (At("prepare") /\ ~past.failed =>
            past.acked \subseteq server.durable \cup Held(server, Head(todo).id))'
    <3>1. SUFFICES ASSUME At("prepare")', ~past.failed
                   PROVE  past.acked \subseteq sv.durable \cup Held(sv, Head(todo').id)
      BY <1>1, <2>1 DEF Held
    <3>2. sql.k = "prepare" /\ Head(todo').id = sql.g
      BY <2>2, <3>1 DEF Meaning, At, Step
    <3>. QED  BY <1>4, <1>5, <1>8, <3>1, <3>2
  <2>10. ASSUME Formed, Elsewhere' PROVE todo'[Len(todo')].id \notin DOMAIN sv.prepared
    <3>1. todo' # <<>> /\ todo'[Len(todo')].do = "return" /\ todo'[Len(todo')].of = "tpc"
      BY <2>10 DEF Elsewhere, Ending
    <3>2. Step("return")'
      BY <2>2, <2>10, <3>1 DEF Elsewhere, Step, Meaning
    <3>3. todo' \in Seq(Steps) /\ Chain(todo')
      BY <2>1, <2>3, FirstStep
    <3>4. Head(todo').do = "return"
      BY <3>2 DEF Step
    <3>5. todo'[Len(todo')] = Head(todo')
      BY <3>1, <3>3, <3>4, ReturnIsLast
    <3>6. todo'[Len(todo')] = todo[Len(todo)]
      BY <2>1, <2>3, <3>1, FirstStep
    <3>7. CASE sql.k \in {"commit", "rollback"} /\ Head(todo).do = "query"
      <4>1. Head(todo).sql = sql
        BY <3>7 DEF Meant
      <4>2. Elsewhere
        BY <2>3, <3>1, <3>6, <3>7, <4>1 DEF Elsewhere, Ending, Step
      <4>. QED  BY <1>4, <1>5, <2>10, <3>6, <3>7, <4>2
    <3>8. CASE sql.k \in {"commit prepared", "rollback prepared"} /\ Head(todo').id = sql.g
      BY <1>4, <1>8, <3>5, <3>8
    <3>. QED  BY <2>2, <3>1, <3>4, <3>5, <3>7, <3>8 DEF Meaning
  <2>11. (Formed => /\ Elsewhere => todo[Len(todo)].id \notin DOMAIN server.prepared
                    /\ past.ended # None => past.ended \notin DOMAIN server.prepared
                    /\ past.due \subseteq server.durable)'
    BY <1>1, <1>2, <1>4, <1>5, <2>10 DEF Formed
  <2>. QED  BY <2>4, <2>5, <2>6, <2>7, <2>8, <2>9, <2>11 DEF Promises
<1>. QED  BY <1>7, <1>8

-----------------------------------------------------------------------------
(***************************************************************************)
(* The exchanges, one by one.                                              *)
(***************************************************************************)

ErrorFirst(b) == IF BindLost THEN <<Message("E")>> ELSE b
Becomes(sv) == IF BindLost THEN ParseError(server) ELSE sv

LEMMA Sending ==
    ASSUME server \in Servers, NEW sv \in Servers, NEW b, Said(b)
    PROVE  /\ UpToSync(sv, b) = ErrorFirst(b) \o Ready(Becomes(sv))
           /\ Unless(ParseError(server), sv) = Becomes(sv)
           /\ Said(ErrorFirst(b)) /\ Becomes(sv) \in Servers
           /\ UpToSync(sv, b) \in Seq(Messages)
           /\ ~BindLost => ErrorFirst(b) = b /\ Becomes(sv) = sv
<1>1. /\ UpToSync(sv, b) = ErrorFirst(b) \o Ready(Becomes(sv))
      /\ Unless(ParseError(server), sv) = Becomes(sv)
      /\ ~BindLost => ErrorFirst(b) = b /\ Becomes(sv) = sv
  BY DEF UpToSync, Unless, ErrorFirst, Becomes
<1>2. Message("E") \in Messages /\ Message("E").own /\ Message("E").k # "Z"
  BY PlainMessage DEF Tags
<1>3. Said(<<Message("E")>>)
  BY <1>2, OneMessage
<1>4. Said(ErrorFirst(b))
  BY <1>3 DEF ErrorFirst
<1>5. Becomes(sv) \in Servers
  BY ParseErrorRight DEF Becomes
<1>6. UpToSync(sv, b) \in Seq(Messages)
  BY <1>1, <1>4, <1>5, Readied
<1>. QED  BY <1>1, <1>4, <1>5, <1>6

\* In step a BIND is never lost: EXECUTE comes next.
LEMMA BindIsKept == ASSUME Always, Talking PROVE ~BindLost
<1>1. SUFFICES ASSUME conn.held, server.status = "E" \/ server.unnamed = None PROVE FALSE
  BY DEF BindLost
<1>2. Step("execute") /\ server.unnamed = Head(todo).sql /\ server.status # "E"
  BY <1>1 DEF Talking
<1>3. Head(todo) \in Steps /\ Head(todo).do = "execute"
  BY <1>2, FirstStep DEF Always, Types, Step
<1>4. Head(todo).sql # None
  BY <1>3, StepFields, AskedSqls
<1>. QED  BY <1>1, <1>2, <1>4

LEMMA CursorChanged ==
    ASSUME NEW cu \in CursorStates, NEW s \in BOOLEAN
    PROVE  /\ Cleared(cu, s) \in CursorStates
           /\ OwnState(cu) => OwnState(Cleared(cu, s))
           /\ Emptied(Cleared(cu, s)) \in CursorStates
           /\ OwnState(cu) => OwnState(Emptied(Cleared(cu, s)))
           /\ \A d \in Descs : /\ [Cleared(cu, s) EXCEPT !.desc = d] \in CursorStates
                               /\ OwnState(cu) /\ d # "other" =>
                                    OwnState([Cleared(cu, s) EXCEPT !.desc = d])
<1>. DEFINE c == Cleared(cu, s)
<1>1. <<>> \in Seq(Messages)
  OBVIOUS
<1>2. c \in CursorStates /\ c.rows = <<>> /\ c.count = None /\ c.desc = cu.desc
  BY <1>1 DEF Cleared, CursorStates
<1>. HIDE DEF c
<1>3. OwnState(cu) => cu.desc # "other"
  BY DEF OwnState
<1>4. None # "other" /\ "empty" \in Descs
  BY PgClientAssumption DEF Descs
<1>5. ASSUME NEW d \in Descs
      PROVE  /\ [c EXCEPT !.desc = d] \in CursorStates
             /\ d # "other" => OwnState([c EXCEPT !.desc = d])
  <2>. DEFINE e == [c EXCEPT !.desc = d]
  <2>1. e \in CursorStates /\ e.rows = <<>> /\ e.count = None /\ e.desc = d
    BY <1>2 DEF CursorStates
  <2>. HIDE DEF e
  <2>2. \A i \in 1..Len(e.rows) : FALSE
    BY <2>1
  <2>3. d # "other" => OwnState(e)
    BY <1>4, <2>1, <2>2 DEF OwnState
  <2>. QED  BY <2>1, <2>3 DEF e
<1>6. OwnState(cu) => OwnState(c)
  <2>1. \A i \in 1..Len(c.rows) : FALSE
    BY <1>2
  <2>. QED  BY <1>2, <1>3, <1>4, <2>1 DEF OwnState
<1>7. Emptied(c) = [c EXCEPT !.desc = "empty"]
  BY DEF Emptied
<1>8. Emptied(c) \in CursorStates /\ OwnState(Emptied(c))
  BY <1>4, <1>5, <1>7
<1>. QED  BY <1>2, <1>5, <1>6, <1>8 DEF c

LEMMA ConnChanged ==
    ASSUME conn \in Conns
    PROVE  /\ \A h \in BOOLEAN : LET cn == [conn EXCEPT !.held = h]
                                 IN /\ cn \in Conns /\ cn.open = conn.open /\ cn.auto = conn.auto
                                    /\ cn.held = h /\ cn.nums = conn.nums
           /\ Flushed \in Conns /\ Flushed.open = conn.open /\ Flushed.auto = conn.auto
           /\ Flushed.held = FALSE /\ Flushed.nums = conn.nums
BY DEF Conns, Flushed

LEMMA SameChanges ==
    ASSUME NEW sv, NEW sql, NEW r, NEW x, Changes(sv, sql, r), x.status = r.status,
           x.work = r.work, x.durable = r.durable, x.prepared = r.prepared
    PROVE  Changes(sv, sql, x)
<1>1. \A g : Held(x, g) = Held(r, g)
  BY DEF Held
<1>. QED  BY <1>1 DEF Changes

\* What every exchange keeps, in terms of what it does in step.
LEMMA ExchangeKeeps ==
    ASSUME ClientInv, Exchanges, NEW c \in AllCursors, NEW cu \in CursorStates, NEW sv \in Servers,
           NEW answer \in Seq(Messages), NEW cn \in Conns, cn.open = conn.open, cn.auto = conn.auto,
           NEW then, GoesOn(then), then # <<>> /\ Head(then).do = "execute" => cn.held,
           Exchange(c, cu, sv, answer, cn, then), NEW b, Said(b),
           InPlace => answer = b \o Ready(sv),
           InPlace /\ Does(c, cu, sv, b, cn, then) => InPlace'
    PROVE  ClientInv'
<1>1. Always
  BY DEF ClientInv
<1>2. Always' /\ SamePast
  BY <1>1, ExchangeAlways
<1>3. ASSUME ~past'.derailed PROVE InPlace'
  <2>1. ~past.derailed
    BY <1>2, <1>3 DEF SamePast
  <2>2. InPlace
    BY <2>1 DEF ClientInv, InPlace
  <2>3. Talking /\ Exchange(c, cu, sv, b \o Ready(sv), cn, then)
    BY <2>2 DEF InPlace
  <2>4. Does(c, cu, sv, b, cn, then)
    BY <1>1, <1>3, <2>3, ExchangeDoes
  <2>. QED  BY <2>2, <2>4
<1>. QED  BY <1>2, <1>3 DEF ClientInv, InPlace

-----------------------------------------------------------------------------
LEMMA UpToIsNat == \A m \in Nat : \A n \in 0..m : n \in Nat
OBVIOUS

\* The step in hand, and the one that follows it.
LEMMA InHand ==
    ASSUME Always, todo # <<>>, Head(todo).do \notin {"return", "wait for ever"}
    PROVE  /\ Exchanges /\ Types /\ conn \in Conns /\ server \in Servers /\ calls \in Nat
           /\ cursor \in [AllCursors -> CursorStates]
           /\ Head(todo) \in Steps /\ GoesOn(Tail(todo))
           /\ Tail(todo) = <<>> => Ends(Head(todo))
           /\ Tail(todo) # <<>> => Follows(Head(todo), Head(Tail(todo)))
           /\ "run" \in AllCursors /\ "own" \in AllCursors
<1>1. Exchanges
  BY DEF Exchanges
<1>2. GoesOn(Tail(todo))
  BY <1>1, TailGoesOn
<1>3. Types /\ Chain(todo) /\ todo \in Seq(Steps)
  BY DEF Always, Types
<1>4. /\ Head(todo) \in Steps
      /\ Tail(todo) = <<>> => Ends(Head(todo))
      /\ Tail(todo) # <<>> => Follows(Head(todo), Head(Tail(todo)))
  BY <1>3, FirstStep
<1>5. /\ conn \in Conns /\ server \in Servers /\ cursor \in [AllCursors -> CursorStates]
      /\ calls \in Nat
  <2>1. conn \in Conns /\ server \in Servers /\ cursor \in [AllCursors -> CursorStates]
    BY <1>3 DEF Types
  <2>2. calls \in 0..MaxCalls /\ MaxCalls \in Nat
    BY <1>3, PgClientAssumption DEF Types
  <2>4. calls \in Nat
    BY <2>2, UpToIsNat
  <2>. QED  BY <2>1, <2>4
<1>6. "run" \in AllCursors /\ "own" \in AllCursors
  BY DEF AllCursors
<1>. QED  BY <1>1, <1>2, <1>3, <1>4, <1>5, <1>6

LEMMA SimpleQueryKeeps == ASSUME ClientInv, SimpleQuery PROVE ClientInv'
<1>. DEFINE st == Head(todo)
            sql == st.sql
            r == Ran(server, sql)
            x == [r EXCEPT !.unnamed = None]
            sv == Becomes(x)
            cu == Emptied(Cleared(cursor[st.c], FALSE))
            b == AnswerToQuery(server, sql)
            answer == IF BindLost THEN <<Message("E")>> ELSE b \o Ready(x)
            then == Tail(todo)
<1>1. todo # <<>> /\ st.do = "query" /\ Always
  BY DEF SimpleQuery, Step, ClientInv
<1>2. /\ Exchanges /\ Types /\ conn \in Conns /\ server \in Servers /\ calls \in Nat
      /\ cursor \in [AllCursors -> CursorStates]
      /\ st \in Steps /\ GoesOn(then)
      /\ then = <<>> => Ends(st)
      /\ then # <<>> => Follows(st, Head(then))
  BY <1>1, InHand
<1>3. st.c \in AllCursors /\ sql \in Sqls
  BY <1>1, <1>2, StepFields
<1>4. r \in Servers /\ Effects(server, sql, r)
  BY <1>2, <1>3, RanRight
<1>. HIDE DEF r
<1>5. /\ x \in Servers /\ x.status = r.status /\ x.work = r.work /\ x.durable = r.durable
      /\ x.prepared = r.prepared /\ x.named = r.named
  BY <1>4, ServerNamed
<1>6. Changes(server, sql, x) /\ x.named = server.named
  BY <1>4, <1>5, SameChanges DEF Effects
<1>7. /\ Said(b) /\ (Errs(b) <=> Fails(server, sql))
      /\ sql.k = "list" /\ ~Fails(server, sql) => \A g \in DOMAIN server.prepared :
           \E i \in 1..Len(b) : b[i].k = "D" /\ b[i].v = g
  BY <1>2, <1>3, Answers
<1>8. cu \in CursorStates /\ (OwnState(cursor[st.c]) => OwnState(cu))
  BY <1>2, <1>3, CursorChanged
<1>9. Exchange(st.c, cu, sv, answer, Flushed, then)
  BY DEF SimpleQuery, Unless, Becomes, x, r
<1>. HIDE DEF x, b, cu
<1>10. sv \in Servers /\ (~BindLost => sv = x)
  BY <1>2, <1>5, ParseErrorRight DEF Becomes
<1>11. answer \in Seq(Messages)
  <2>1. Message("E") \in Messages
    BY PlainMessage DEF Tags
  <2>2. b \o Ready(x) \in Seq(Messages)
    BY <1>5, <1>7, Readied
  <2>. QED  BY <2>1, <2>2
<1>12. /\ Flushed \in Conns /\ Flushed.open = conn.open /\ Flushed.auto = conn.auto
       /\ Flushed.held = FALSE /\ Flushed.nums = conn.nums
  BY <1>2, ConnChanged
<1>13. then # <<>> =>
         /\ Head(then).do \notin {"describe", "execute"}
         /\ Head(then).do = "choose" => sql.k = "list" /\ st.c = "list"
         /\ Executes(Head(then)) => sql.k = "begin"
  <2>1. SUFFICES ASSUME then # <<>>
                 PROVE  /\ Head(then).do \notin {"describe", "execute"}
                        /\ Head(then).do = "choose" => sql.k = "list" /\ st.c = "list"
                        /\ Executes(Head(then)) => sql.k = "begin"
    OBVIOUS
  <2>2. FollowsQuery(st, Head(then))
    BY <1>1, <1>2, <2>1 DEF Follows
  <2>. QED  BY <2>2, PgClientAssumption DEF FollowsQuery, Executes
<1>. HIDE DEF sv, answer
<1>14. ASSUME InPlace PROVE ~BindLost /\ answer = b \o Ready(sv) /\ sv = x
  <2>1. ~BindLost
    BY <1>1, <1>14, BindIsKept DEF InPlace
  <2>. QED  BY <1>10, <2>1 DEF answer
<1>15. ASSUME InPlace, Does(st.c, cu, sv, b, Flushed, then) PROVE InPlace'
  <2>1. sv = x /\ sv \in Servers
    BY <1>5, <1>14, <1>15
  <2>2. NamesNow'
    BY <1>1, <1>2, <1>6, <1>12, <1>15, <2>1, NamesStay DEF InPlace
  <2>3. OwnState(cu)
    BY <1>2, <1>3, <1>8, <1>15 DEF InPlace, OwnRows, OwnState
  <2>4. OwnRows'
    BY <1>1, <1>3, <1>7, <1>8, <1>15, <2>1, <2>3, RowsStayOwn DEF InPlace
  <2>5. Meant(sql)
    BY <1>1 DEF Meant
  <2>6. Promises'
    BY <1>1, <1>2, <1>3, <1>6, <1>7, <1>15, <2>1, <2>5, PromisesRan DEF InPlace
  <2>7. ~Errs(b) /\ sql.k = "begin" => sv.status # "I"
    BY <1>6, <1>7, <2>1 DEF Changes
  <2>8. Begun'
    BY <1>1, <1>13, <1>15, <2>7, BeginningGoesOn
  <2>9. ~Errs(b) /\ sql.k = "list" => \A g \in DOMAIN sv.prepared :
           \E i \in 1..Len(b) : b[i].k = "D" /\ b[i].v = g
    BY <1>6, <1>7, <2>1 DEF Changes
  <2>10. Talking'
    <3>1. LeadsOn(st.c, sv, b, then)
      BY <1>13, <2>9 DEF LeadsOn
    <3>2. Talking /\ Flushed.held = FALSE
      BY <1>12, <1>15 DEF InPlace
    <3>. QED  BY <1>1, <1>2, <1>3, <1>7, <1>8, <1>12, <1>15, <2>1, <3>1, <3>2, TalkGoesOn
  <2>. QED  BY <2>2, <2>4, <2>6, <2>8, <2>10 DEF InPlace
<1>16. then # <<>> /\ Head(then).do = "execute" => Flushed.held
  BY <1>13
<1>. HIDE DEF then
<1>. QED  BY <1>2, <1>3, <1>7, <1>8, <1>9, <1>10, <1>11, <1>12, <1>14, <1>15, <1>16, ExchangeKeeps

-----------------------------------------------------------------------------
LEMMA ParseUnnamedKeeps == ASSUME ClientInv, ParseUnnamed PROVE ClientInv'
<1>. DEFINE st == Head(todo)
            fails == ParseFails(server, st.sql)
            x == IF fails THEN [ParseError(server) EXCEPT !.unnamed = None]
                 ELSE [server EXCEPT !.unnamed = st.sql]
            sv == Becomes(x)
            cu == Cleared(cursor[st.c], st.stream)
            a == IF fails THEN <<Message("E")>> ELSE <<>>
            b == ErrorFirst(a)
            answer == UpToSync(x, a)
            then == Tail(todo)
<1>1. todo # <<>> /\ st.do = "parse" /\ Always
  BY DEF ParseUnnamed, Step, ClientInv
<1>2. /\ Exchanges /\ Types /\ conn \in Conns /\ server \in Servers /\ calls \in Nat
      /\ cursor \in [AllCursors -> CursorStates]
      /\ st \in Steps /\ GoesOn(then)
      /\ then = <<>> => Ends(st)
      /\ then # <<>> => Follows(st, Head(then))
  BY <1>1, InHand
<1>3. st.c \in AllCursors /\ st.sql \in Asked /\ st.stream \in BOOLEAN
  BY <1>1, <1>2, StepFields
<1>4. st.sql \in Sqls
  BY <1>3, AskedSqls
<1>5. /\ x \in Servers /\ x.work = server.work /\ x.durable = server.durable
      /\ x.prepared = server.prepared /\ x.named = server.named
      /\ x.status = "E" => server.status = "E" \/ fails
      /\ x.status = "I" => server.status = "I"
      /\ ~fails => x.unnamed = st.sql /\ x.status # "E"
  <2>1. CASE fails
    <3>1. /\ ParseError(server) \in Servers /\ ParseError(server).work = server.work
          /\ ParseError(server).durable = server.durable
          /\ ParseError(server).prepared = server.prepared
          /\ ParseError(server).named = server.named
          /\ ParseError(server).status = (IF server.status = "I" THEN "I" ELSE "E")
      BY <1>2, ParseErrorRight
    <3>2. x = [ParseError(server) EXCEPT !.unnamed = None]
      BY <2>1
    <3>. HIDE DEF x
    <3>3. /\ x \in Servers /\ x.work = server.work /\ x.durable = server.durable
          /\ x.prepared = server.prepared /\ x.named = server.named
          /\ x.status = ParseError(server).status
      BY <3>1, <3>2, ServerNamed
    <3>. QED  BY <2>1, <3>1, <3>3
  <2>2. CASE ~fails
    <3>1. x = [server EXCEPT !.unnamed = st.sql]
      BY <2>2
    <3>. HIDE DEF x
    <3>2. /\ x \in Servers /\ x.work = server.work /\ x.durable = server.durable
          /\ x.prepared = server.prepared /\ x.named = server.named /\ x.unnamed = st.sql
          /\ x.status = server.status
      BY <1>2, <1>4, <3>1, ServerNamed
    <3>. QED  BY <2>2, <3>2 DEF ParseFails
  <2>. QED  BY <2>1, <2>2
<1>6. Said(a) /\ (Errs(a) <=> fails)
  <2>1. Message("E") \in Messages /\ Message("E").own /\ Message("E").k = "E"
    BY PlainMessage DEF Tags
  <2>2. Said(<<Message("E")>>) /\ Errs(<<Message("E")>>)
    BY <2>1, OneMessage
  <2>. QED  BY <2>2, NoMessage
<1>7. cu \in CursorStates /\ (OwnState(cursor[st.c]) => OwnState(cu))
  BY <1>2, <1>3, CursorChanged
<1>. HIDE DEF cu, a, x
<1>8. /\ answer = b \o Ready(sv) /\ answer \in Seq(Messages) /\ sv \in Servers /\ Said(b)
      /\ Unless(ParseError(server), x) = sv
      /\ ~BindLost => b = a /\ sv = x
  BY <1>2, <1>5, <1>6, Sending
<1>9. Exchange(st.c, cu, sv, answer, Flushed, then)
  BY <1>8 DEF ParseUnnamed, x, a, cu
<1>10. /\ Flushed \in Conns /\ Flushed.open = conn.open /\ Flushed.auto = conn.auto
       /\ Flushed.held = FALSE /\ Flushed.nums = conn.nums
  BY <1>2, ConnChanged
<1>11. then # <<>> => Head(then).do = "describe" /\ Head(then).sql = st.sql
  BY <1>1, <1>2 DEF Follows
<1>. HIDE DEF sv, answer, b
<1>12. ASSUME InPlace PROVE b = a /\ sv = x
  <2>1. ~BindLost
    BY <1>1, <1>12, BindIsKept DEF InPlace
  <2>. QED  BY <1>8, <2>1
<1>13. ASSUME InPlace, Does(st.c, cu, sv, b, Flushed, then) PROVE InPlace'
  <2>1. b = a /\ sv = x /\ sv \in Servers /\ Said(b)
    BY <1>8, <1>12, <1>13
  <2>2. NamesNow'
    BY <1>1, <1>2, <1>5, <1>10, <1>13, <2>1, NamesStay DEF InPlace
  <2>3. OwnState(cu)
    BY <1>2, <1>3, <1>7, <1>13 DEF InPlace, OwnRows, OwnState
  <2>4. OwnRows'
    BY <1>1, <1>3, <1>7, <1>13, <2>1, <2>3, RowsStayOwn DEF InPlace
  <2>5. Promises'
    <3>1. /\ sv.work = server.work /\ sv.durable = server.durable /\ sv.prepared = server.prepared
          /\ sv.status = "E" => server.status = "E" \/ Errs(b)
          /\ ~Errs(b) /\ then # <<>> => Head(then).do \notin {"return", "query"}
      BY <1>5, <1>6, <1>11, <2>1
    <3>. QED  BY <1>1, <1>2, <1>13, <3>1, PromisesUntouched DEF InPlace
  <2>6. Begun'
    <3>1. past.auto \/ server.status # "I"
      BY <1>1, <1>13 DEF InPlace, Begun, Executes
    <3>2. past.auto \/ sv.status # "I"
      BY <1>5, <2>1, <3>1
    <3>. QED  BY <1>1, <1>13, <3>2, BeginningGoesOn
  <2>7. Talking'
    <3>1. LeadsOn(st.c, sv, b, then)
      BY <1>5, <1>6, <1>11, <2>1 DEF LeadsOn
    <3>2. Talking
      BY <1>13 DEF InPlace
    <3>3. Flushed.held => ~Errs(b) /\ then # <<>> /\ Head(then).do = "execute"
      BY <1>10
    <3>4. cu \in CursorStates /\ st.c \in AllCursors /\ Flushed \in Conns /\ Exchanges
      BY <1>2, <1>3, <1>7, <1>10
    <3>. QED  BY <1>1, <1>13, <2>1, <3>1, <3>2, <3>3, <3>4, TalkGoesOn
  <2>. QED  BY <2>2, <2>4, <2>5, <2>6, <2>7 DEF InPlace
<1>14. then # <<>> /\ Head(then).do = "execute" => Flushed.held
  BY <1>11
<1>. HIDE DEF then
<1>15. InPlace => answer = b \o Ready(sv)
  BY <1>8
<1>. QED  BY <1>2, <1>3, <1>7, <1>8, <1>9, <1>10, <1>13, <1>14, <1>15, ExchangeKeeps

LEMMA DescribeUnnamedKeeps == ASSUME ClientInv, DescribeUnnamed PROVE ClientInv'
<1>. DEFINE st == Head(todo)
            fails == server.unnamed = None \/ (server.status = "E" /\ ReturnsRows(server.unnamed))
            sv == IF fails THEN ParseError(server) ELSE server
            cu == cursor[st.c]
            b == IF fails THEN <<Message("E")>> ELSE Describes(server.unnamed)
            answer == b \o Ready(sv)
            cn == [conn EXCEPT !.held = TRUE]
            then == Tail(todo)
<1>1. todo # <<>> /\ st.do = "describe" /\ Always
  BY DEF DescribeUnnamed, Step, ClientInv
<1>2. /\ Exchanges /\ Types /\ conn \in Conns /\ server \in Servers /\ calls \in Nat
      /\ cursor \in [AllCursors -> CursorStates]
      /\ st \in Steps /\ GoesOn(then)
      /\ then = <<>> => Ends(st)
      /\ then # <<>> => Follows(st, Head(then))
  BY <1>1, InHand
<1>3. st.c \in AllCursors /\ st.sql \in Asked
  BY <1>1, <1>2, StepFields
<1>4. st.sql # None
  BY <1>3, AskedSqls
<1>5. /\ sv \in Servers /\ sv.work = server.work /\ sv.durable = server.durable
      /\ sv.prepared = server.prepared /\ sv.named = server.named /\ sv.unnamed = server.unnamed
      /\ sv.status = "E" => server.status = "E" \/ fails
      /\ ~fails => sv = server
      /\ sv.status = "I" => server.status = "I"
  <2>1. CASE fails
    BY <1>2, <2>1, ParseErrorRight
  <2>2. CASE ~fails
    BY <1>2, <2>2
  <2>. QED  BY <2>1, <2>2
<1>6. Said(b) /\ (Errs(b) <=> fails)
  <2>1. Message("E") \in Messages /\ Message("E").own /\ Message("E").k = "E"
    BY PlainMessage DEF Tags
  <2>2. Said(<<Message("E")>>) /\ Errs(<<Message("E")>>)
    BY <2>1, OneMessage
  <2>. QED  BY <2>2, Described1
<1>7. cu \in CursorStates
  BY <1>2, <1>3
<1>8. Exchange(st.c, cu, sv, answer, cn, then)
  BY DEF DescribeUnnamed
<1>9. /\ cn \in Conns /\ cn.open = conn.open /\ cn.auto = conn.auto
      /\ cn.held = TRUE /\ cn.nums = conn.nums
  BY <1>2, ConnChanged
<1>. HIDE DEF cu, b, sv, cn
<1>10. answer \in Seq(Messages)
  BY <1>5, <1>6, Readied
<1>11. then # <<>> /\ Head(then).do = "execute" /\ Head(then).sql = st.sql
  <2>1. then # <<>>
    BY <1>1, <1>2 DEF Ends
  <2>. QED  BY <1>1, <1>2, <2>1 DEF Follows
<1>12. ASSUME InPlace, Does(st.c, cu, sv, b, cn, then) PROVE InPlace'
  <2>1. /\ server.unnamed = st.sql /\ server.status # "E" /\ ~fails /\ Talking
    BY <1>1, <1>4, <1>12 DEF InPlace, Talking, Step
  <2>2. NamesNow'
    BY <1>1, <1>2, <1>5, <1>9, <1>12, NamesStay DEF InPlace
  <2>3. OwnState(cu)
    BY <1>2, <1>3, <1>12 DEF InPlace, OwnRows, OwnState, cu
  <2>4. OwnRows'
    BY <1>1, <1>3, <1>5, <1>6, <1>7, <1>12, <2>3, RowsStayOwn DEF InPlace
  <2>5. Promises'
    <3>1. /\ sv.work = server.work /\ sv.durable = server.durable /\ sv.prepared = server.prepared
          /\ sv.status = "E" => server.status = "E" \/ Errs(b)
          /\ ~Errs(b) /\ then # <<>> => Head(then).do \notin {"return", "query"}
      BY <1>5, <1>6, <1>11
    <3>. QED  BY <1>1, <1>2, <1>12, <3>1, PromisesUntouched DEF InPlace
  <2>6. Begun'
    <3>1. past.auto \/ server.status # "I"
      BY <1>1, <1>12 DEF InPlace, Begun, Executes
    <3>2. past.auto \/ sv.status # "I"
      BY <1>5, <3>1
    <3>. QED  BY <1>1, <1>12, <3>2, BeginningGoesOn
  <2>7. Talking'
    <3>1. LeadsOn(st.c, sv, b, then)
      BY <1>5, <1>11, <2>1 DEF LeadsOn
    <3>2. cn.held => ~Errs(b) /\ then # <<>> /\ Head(then).do = "execute"
      BY <1>6, <1>11, <2>1
    <3>. QED  BY <1>1, <1>2, <1>3, <1>5, <1>6, <1>7, <1>9, <1>12, <2>1, <3>1, <3>2, TalkGoesOn
  <2>. QED  BY <2>2, <2>4, <2>5, <2>6, <2>7 DEF InPlace
<1>. HIDE DEF then, answer
<1>13. InPlace => answer = b \o Ready(sv)
  BY DEF answer
<1>. QED  BY <1>2, <1>3, <1>5, <1>6, <1>7, <1>8, <1>9, <1>10, <1>12, <1>13, ExchangeKeeps

-----------------------------------------------------------------------------
LEMMA BindExecuteKeeps == ASSUME ClientInv, BindExecute PROVE ClientInv'
<1>. DEFINE st == Head(todo)
            sql == server.unnamed
            x == IF BindLost THEN ParseError(server) ELSE Ran(server, sql)
            cu == cursor[st.c]
            a == AnswerToExecute(server, sql)
            answer == UpToSync(x, a)
            then == Tail(todo)
<1>1. todo # <<>> /\ st.do = "execute" /\ Always /\ conn.held
  BY DEF BindExecute, Step, ClientInv, Always
<1>2. /\ Exchanges /\ Types /\ conn \in Conns /\ server \in Servers /\ calls \in Nat
      /\ cursor \in [AllCursors -> CursorStates]
      /\ st \in Steps /\ GoesOn(then)
      /\ then = <<>> => Ends(st)
      /\ then # <<>> => Follows(st, Head(then))
  BY <1>1, InHand
<1>3. st.c \in AllCursors /\ st.sql \in Asked
  BY <1>1, <1>2, StepFields
<1>4. st.sql \in Sqls /\ st.sql.k \in Operations
  BY <1>3, AskedSqls
<1>5. ~BindLost => sql \in Sqls
  BY <1>1, <1>2, ServerFields DEF BindLost
<1>6. x \in Servers /\ (~BindLost => x = Ran(server, sql) /\ Effects(server, sql, x))
  <2>1. CASE BindLost
    BY <1>2, <2>1, ParseErrorRight
  <2>2. CASE ~BindLost
    BY <1>2, <1>5, <2>2, RanRight
  <2>. QED  BY <2>1, <2>2
<1>7. cu \in CursorStates
  BY <1>2, <1>3
<1>8. Exchange(st.c, cu, x, answer, Flushed, then)
  BY DEF BindExecute
<1>9. /\ Flushed \in Conns /\ Flushed.open = conn.open /\ Flushed.auto = conn.auto
      /\ Flushed.held = FALSE /\ Flushed.nums = conn.nums
  BY <1>2, ConnChanged
<1>10. then # <<>> /\ Head(then).do = "return" /\ Head(then).of = "execute" /\ Head(then).sql = st.sql
  <2>1. then # <<>>
    BY <1>1, <1>2 DEF Ends
  <2>. QED  BY <1>1, <1>2, <2>1 DEF Follows
<1>. DEFINE e == <<Message("E")>>
            b == IF BindLost THEN e ELSE a
<1>11. Said(e)
  <2>1. Message("E") \in Messages /\ Message("E").own /\ Message("E").k = "E"
    BY PlainMessage DEF Tags
  <2>. QED  BY <2>1, OneMessage
<1>12. Said(b) /\ (~BindLost => (Errs(b) <=> Fails(server, sql)))
  <2>1. ~BindLost => Said(a) /\ (Errs(a) <=> Fails(server, sql))
    BY <1>2, <1>5, Answers
  <2>. HIDE DEF a, e
  <2>. QED  BY <1>11, <2>1
<1>13. answer = b \o Ready(x)
  BY DEF UpToSync
<1>. HIDE DEF x, cu, a, answer, b
<1>14. answer \in Seq(Messages)
  BY <1>6, <1>12, <1>13, Readied
<1>15. ASSUME InPlace, Does(st.c, cu, x, b, Flushed, then) PROVE InPlace'
  <2>1. ~BindLost /\ sql = st.sql /\ Talking
    BY <1>1, <1>15, BindIsKept DEF InPlace, Talking, Step
  <2>2. Changes(server, st.sql, x) /\ x.named = server.named /\ (Errs(b) <=> Fails(server, st.sql))
    BY <1>6, <1>12, <2>1 DEF Effects
  <2>3. NamesNow'
    BY <1>1, <1>2, <1>9, <1>15, <2>2, NamesStay DEF InPlace
  <2>4. OwnState(cu)
    BY <1>2, <1>3, <1>15 DEF InPlace, OwnRows, OwnState, cu
  <2>5. OwnRows'
    BY <1>1, <1>3, <1>6, <1>7, <1>12, <1>15, <2>4, RowsStayOwn DEF InPlace
  <2>6. Meant(st.sql)
    BY <1>1, <1>4, <1>10, PgClientAssumption DEF Meant
  <2>7. Promises'
    BY <1>1, <1>2, <1>4, <1>15, <2>2, <2>6, PromisesRan DEF InPlace
  <2>8. Begun'
    <3>1. ~Executes(Head(then))
      BY <1>10 DEF Executes
    <3>. QED  BY <1>1, <1>15, <3>1, BeginningGoesOn
  <2>9. Talking'
    <3>1. LeadsOn(st.c, x, b, then)
      BY <1>10 DEF LeadsOn
    <3>2. Flushed.held => ~Errs(b) /\ then # <<>> /\ Head(then).do = "execute"
      BY <1>9
    <3>. QED  BY <1>1, <1>2, <1>3, <1>6, <1>7, <1>9, <1>12, <1>15, <2>1, <3>1, <3>2, TalkGoesOn
  <2>. QED  BY <2>3, <2>5, <2>7, <2>8, <2>9 DEF InPlace
<1>. HIDE DEF then
<1>16. then # <<>> /\ Head(then).do = "execute" => Flushed.held
  BY <1>10
<1>17. InPlace => answer = b \o Ready(x)
  BY <1>13
<1>. QED  BY <1>2, <1>3, <1>6, <1>7, <1>8, <1>9, <1>12, <1>14, <1>15, <1>16, <1>17, ExchangeKeeps

LEMMA ExecuteNamedKeeps == ASSUME ClientInv, ExecuteNamed PROVE ClientInv'
<1>. DEFINE st == Head(todo)
            kept == cache[st.p][st.o]
            found == kept.n \in DOMAIN server.named
            sql == SQL(KindOf[server.named[kept.n][1]])
            x == IF found THEN Ran(server, sql) ELSE ParseError(server)
            sv == Becomes(x)
            cu == [Cleared(cursor["run"], FALSE) EXCEPT !.desc = kept.desc]
            a == IF found THEN AnswerToExecute(server, sql) ELSE <<Message("E")>>
            b == ErrorFirst(a)
            answer == UpToSync(x, a)
            then == Tail(todo)
<1>1. todo # <<>> /\ st.do = "run" /\ Always
  BY Zenon DEF ExecuteNamed, Step, ClientInv, Always
<1>2. /\ Exchanges /\ Types /\ conn \in Conns /\ server \in Servers /\ calls \in Nat
      /\ cursor \in [AllCursors -> CursorStates]
      /\ st \in Steps /\ GoesOn(then)
      /\ then = <<>> => Ends(st)
      /\ then # <<>> => Follows(st, Head(then))
      /\ "run" \in AllCursors
  BY <1>1, InHand
<1>3. st.p \in Statements /\ st.o \in Oids
  BY <1>1, <1>2, StepFields
<1>4. /\ cache[st.p] # None /\ st.o \in DOMAIN cache[st.p]
      /\ kept.n \in Nat /\ kept.desc \in Descs
  <2>1. 1 \in 1..Len(todo) /\ st = todo[1]
    BY <1>1, FirstStep DEF Always, Types
  <2>2. KeptFor(st)
    BY <1>1, <2>1 DEF Always, Kept
  <2>3. cache[st.p] \in Cached \cup {None}
    BY <1>2, <1>3 DEF Types
  <2>4. cache[st.p] # None /\ st.o \in DOMAIN cache[st.p]
    BY <1>1, <2>2 DEF KeptFor
  <2>5. cache[st.p] \in [DOMAIN cache[st.p] -> Entry]
    BY <2>3, <2>4, InPartials DEF Cached
  <2>6. kept \in Entry
    BY <2>4, <2>5
  <2>. QED  BY <2>4, <2>6 DEF Entry
<1>5. found => /\ server.named[kept.n][1] \in Statements
               /\ KindOf[server.named[kept.n][1]] \in {"select", "update", "failing"}
  <2>1. server.named \in [DOMAIN server.named -> Statements \X Oids]
    BY <1>2, ServerFields, InPartials
  <2>. QED  BY Zenon, <2>1, PgClientAssumption
<1>6. found => sql \in Sqls /\ sql.k = KindOf[server.named[kept.n][1]]
  BY Zenon, <1>5 DEF SQL, Sqls, Ids, Texts
<1>. HIDE DEF sql, kept
<1>7. x \in Servers /\ (found => x = Ran(server, sql) /\ Effects(server, sql, x))
  <2>1. CASE ~found
    BY <1>2, <2>1, ParseErrorRight
  <2>2. CASE found
    BY <1>2, <1>6, <2>2, RanRight
  <2>. QED  BY <2>1, <2>2
<1>8. Said(a) /\ (found => (Errs(a) <=> Fails(server, sql)))
  <2>1. Message("E") \in Messages /\ Message("E").own /\ Message("E").k = "E"
    BY PlainMessage DEF Tags
  <2>2. Said(<<Message("E")>>)
    BY <2>1, OneMessage
  <2>3. found => /\ Said(AnswerToExecute(server, sql))
                 /\ Errs(AnswerToExecute(server, sql)) <=> Fails(server, sql)
    BY <1>2, <1>6, Answers
  <2>. QED  BY <2>2, <2>3
<1>9. cu \in CursorStates /\ (OwnState(cursor["run"]) /\ kept.desc # "other" => OwnState(cu))
  BY <1>2, <1>4, CursorChanged
<1>. HIDE DEF x, cu, a
<1>10. /\ answer = b \o Ready(sv) /\ answer \in Seq(Messages) /\ sv \in Servers /\ Said(b)
       /\ Unless(ParseError(server), x) = sv
       /\ ~BindLost => b = a /\ sv = x
  BY <1>2, <1>7, <1>8, Sending
<1>11. Exchange("run", cu, sv, answer, Flushed, then)
  BY Zenon, <1>10 DEF ExecuteNamed, x, a, cu, sql, kept
<1>12. /\ Flushed \in Conns /\ Flushed.open = conn.open /\ Flushed.auto = conn.auto
       /\ Flushed.held = FALSE /\ Flushed.nums = conn.nums
  BY <1>2, ConnChanged
<1>13. /\ then # <<>> /\ Head(then).do = "return" /\ Head(then).of = "execute"
       /\ Head(then).sql = SQL(KindOf[st.p])
  <2>1. then # <<>>
    BY <1>1, <1>2 DEF Ends
  <2>. QED  BY <1>1, <1>2, <2>1 DEF Follows
<1>. HIDE DEF sv, answer, b
<1>14. ASSUME InPlace, Does("run", cu, sv, b, Flushed, then) PROVE InPlace'
  <2>1. ~BindLost /\ Talking
    BY <1>1, <1>14, BindIsKept DEF InPlace
  <2>2. b = a /\ sv = x
    BY <1>10, <2>1
  <2>3. found /\ sql = SQL(KindOf[st.p]) /\ kept.desc # "other"
    <3>1. ~Closing(st.p)
      BY <1>1 DEF Closing, Step, At
    <3>2. Entered(st.p, st.o) /\ kept.desc # "other"
      BY <1>3, <1>4, <1>14, <3>1 DEF InPlace, NamesNow, kept
    <3>3. found /\ server.named[kept.n] = <<st.p, st.o>>
      BY Zenon, <3>2 DEF Entered, kept
    <3>. QED  BY <3>2, <3>3 DEF sql
  <2>4. Changes(server, sql, sv) /\ sv.named = server.named /\ (Errs(b) <=> Fails(server, sql))
    BY <1>7, <1>8, <2>2, <2>3 DEF Effects
  <2>5. sql \in Sqls /\ sv \in Servers /\ Said(b)
    BY <1>6, <1>10, <2>3
  <2>6. NamesNow'
    BY <1>1, <1>2, <1>12, <1>14, <2>4, NamesStay DEF InPlace
  <2>7. OwnState(cu)
    BY <1>2, <1>9, <1>14, <2>3 DEF InPlace, OwnRows, OwnState
  <2>8. OwnRows'
    BY <1>1, <1>2, <1>9, <1>14, <2>5, <2>7, RowsStayOwn DEF InPlace
  <2>9. Meant(sql)
    <3>1. sql.k \in {"select", "update", "failing"}
      BY <1>5, <1>6, <2>3
    <3>. QED  BY <1>1, <1>13, <2>3, <3>1 DEF Meant
  <2>10. Promises'
    BY <1>1, <1>2, <1>14, <2>4, <2>5, <2>9, PromisesRan DEF InPlace
  <2>11. Begun'
    <3>1. ~Executes(Head(then))
      BY <1>13 DEF Executes
    <3>. QED  BY <1>1, <1>14, <3>1, BeginningGoesOn
  <2>12. Talking'
    <3>1. LeadsOn("run", sv, b, then)
      BY <1>13 DEF LeadsOn
    <3>2. Flushed.held => ~Errs(b) /\ then # <<>> /\ Head(then).do = "execute"
      BY <1>12
    <3>. QED  BY <1>1, <1>2, <1>9, <1>12, <1>14, <2>1, <2>5, <3>1, <3>2, TalkGoesOn
  <2>. QED  BY <2>6, <2>8, <2>10, <2>11, <2>12 DEF InPlace
<1>. HIDE DEF then
<1>15. then # <<>> /\ Head(then).do = "execute" => Flushed.held
  BY <1>13
<1>16. InPlace => answer = b \o Ready(sv)
  BY <1>10
<1>. QED  BY Zenon, <1>2, <1>9, <1>10, <1>11, <1>12, <1>14, <1>15, <1>16, ExchangeKeeps

-----------------------------------------------------------------------------
(***************************************************************************)
(* Names: a statement is prepared under a free number, and closed.         *)
(***************************************************************************)

LEMMA NoneIsNoCache == None \notin Cached
<1>1. SUFFICES ASSUME None \in Cached PROVE FALSE
  OBVIOUS
<1>2. None \in [DOMAIN None -> Entry] /\ DOMAIN None \subseteq Oids
  BY <1>1, InPartials DEF Cached
<1>3. Entry = [n : Nat, desc : {None, "empty", "own", "other"}]
  BY DEF Entry, Descs
<1>. QED  BY <1>2, <1>3, PgClientAssumption

\* The return of the call is next.
LEMMA LastOfCall ==
    ASSUME Always, todo # <<>>, Tail(todo) # <<>>, Head(Tail(todo)).do = "return"
    PROVE  Len(Tail(todo)) = 1 /\ todo[Len(todo)] = Head(Tail(todo)) /\ Tail(todo)[1] = Head(Tail(todo))
<1>1. todo \in Seq(Steps) /\ Chain(todo)
  BY DEF Always, Types
<1>2. /\ Tail(todo) \in Seq(Steps) /\ Chain(Tail(todo))
      /\ Tail(todo)[Len(Tail(todo))] = todo[Len(todo)]
  BY <1>1, FirstStep
<1>3. Len(Tail(todo)) = 1 /\ Tail(todo)[Len(Tail(todo))] = Head(Tail(todo))
  BY <1>2, ReturnIsLast
<1>. QED  BY <1>2, <1>3

\* A step put before those that are left.
LEMMA PutFirst ==
    ASSUME NEW s \in Steps, NEW t \in Seq(Steps), Chain(t), t # <<>>, Follows(s, Head(t))
    PROVE  /\ <<s>> \o t \in Seq(Steps) /\ Chain(<<s>> \o t) /\ <<s>> \o t # <<>>
           /\ (<<s>> \o t)[Len(<<s>> \o t)] = t[Len(t)]
           /\ Head(<<s>> \o t) = s
           /\ \A i \in 1..Len(<<s>> \o t) :
                 (<<s>> \o t)[i] = s \/ \E j \in 1..Len(t) : (<<s>> \o t)[i] = t[j]
<1>. DEFINE w == <<s>>
<1>1. w \in Seq(Steps) /\ Linked(w) /\ w # <<>> /\ Len(w) = 1 /\ w[1] = s /\ Head(w) = s
  BY OneStep
<1>. HIDE DEF w
<1>2. w[Len(w)] = s
  BY <1>1
<1>3. /\ w \o t \in Seq(Steps) /\ Chain(w \o t) /\ w \o t # <<>>
      /\ (w \o t)[Len(w \o t)] = t[Len(t)]
      /\ Head(w \o t) = IF w = <<>> THEN Head(t) ELSE Head(w)
      /\ \A i \in 1..Len(w \o t) : \/ \E j \in 1..Len(w) : (w \o t)[i] = w[j]
                                   \/ \E j \in 1..Len(t) : (w \o t)[i] = t[j]
  BY <1>1, <1>2, JoinedSteps
<1>4. \A j \in 1..Len(w) : w[j] = s
  BY <1>1
<1>. QED  BY <1>1, <1>3, <1>4 DEF w

LEMMA NameTaken ==
    ASSUME NEW f \in Partials(Nat, Statements \X Oids), NEW n \in Nat,
           NEW v \in Statements \X Oids
    PROVE  /\ Known(f, n, v) \in Partials(Nat, Statements \X Oids)
           /\ DOMAIN Known(f, n, v) = DOMAIN f \cup {n}
<1>1. Known(f, n, v) \in Partials(Nat, Statements \X Oids)
  BY Extended
<1>2. DOMAIN Known(f, n, v) = DOMAIN f \cup {n}
  BY DEF Known
<1>. QED  BY <1>1, <1>2

LEMMA PrepareNamedKeeps == ASSUME ClientInv, PrepareNamed PROVE ClientInv'
<1>. DEFINE st == Head(todo)
            n == FreeName
            fails == ParseFails(server, SQL(KindOf[st.p])) \/ n \in DOMAIN server.named
            named == Known(server.named, n, <<st.p, st.o>>)
            x == IF fails THEN ParseError(server) ELSE [server EXCEPT !.named = named]
            sv == Becomes(x)
            cu == cursor["run"]
            a == IF fails THEN <<Message("E")>> ELSE Describes(SQL(KindOf[st.p]))
            b == ErrorFirst(a)
            answer == UpToSync(x, a)
            cn == [Flushed EXCEPT !.nums = @ \cup {n}]
            s == [st EXCEPT !.do = "prepared", !.n = n]
            then == <<s>> \o Tail(todo)
<1>1. todo # <<>> /\ st.do = "prepare" /\ Always
  BY DEF PrepareNamed, Step, ClientInv, Always
<1>2. /\ Exchanges /\ Types /\ conn \in Conns /\ server \in Servers
      /\ cursor \in [AllCursors -> CursorStates]
      /\ st \in Steps /\ GoesOn(Tail(todo))
      /\ Tail(todo) = <<>> => Ends(st)
      /\ Tail(todo) # <<>> => Follows(st, Head(Tail(todo)))
      /\ "run" \in AllCursors
  BY <1>1, InHand
<1>3. st.p \in Statements /\ st.o \in Oids
  BY <1>1, <1>2, StepFields
<1>4. n \in Nat /\ n \notin conn.nums
  BY <1>2, FreeNumberExists
<1>. HIDE DEF n
<1>5. /\ server.named \in Partials(Nat, Statements \X Oids)
      /\ named \in Partials(Nat, Statements \X Oids) /\ DOMAIN named = DOMAIN server.named \cup {n}
  <2>1. server.named \in Partials(Nat, Statements \X Oids)
    BY <1>2, ServerFields
  <2>. DEFINE g == server.named
              v == <<st.p, st.o>>
  <2>2. g \in Partials(Nat, Statements \X Oids) /\ v \in Statements \X Oids
    BY <1>3, <2>1
  <2>3. named = Known(g, n, v)
    OBVIOUS
  <2>. HIDE DEF g, v, named
  <2>4. /\ Known(g, n, v) \in Partials(Nat, Statements \X Oids)
        /\ DOMAIN Known(g, n, v) = DOMAIN g \cup {n}
    BY <1>4, <2>2, NameTaken
  <2>. QED  BY <2>2, <2>3, <2>4 DEF g
<1>6. /\ x \in Servers /\ x.work = server.work /\ x.durable = server.durable
      /\ x.prepared = server.prepared
      /\ x.status = "E" => server.status = "E" \/ fails
      /\ x.named = IF fails THEN server.named ELSE named
  <2>. HIDE DEF named
  <2>1. CASE fails
    <3>1. x = ParseError(server)
      BY <2>1
    <3>. HIDE DEF x
    <3>. QED  BY <1>2, <2>1, <3>1, ParseErrorRight
  <2>2. CASE ~fails
    <3>1. x = [server EXCEPT !.named = named]
      BY <2>2
    <3>. HIDE DEF x
    <3>2. /\ x \in Servers /\ x.status = server.status
          /\ x.work = server.work /\ x.durable = server.durable
          /\ x.prepared = server.prepared /\ x.named = named
      BY ZenonT(30), <1>2, <1>5, <3>1, ServerNamed
    <3>. QED  BY <2>2, <3>2
  <2>. QED  BY <2>1, <2>2
<1>7. Said(a) /\ (Errs(a) <=> fails)
  <2>1. Message("E") \in Messages /\ Message("E").own /\ Message("E").k = "E"
    BY PlainMessage DEF Tags
  <2>2. Said(<<Message("E")>>) /\ Errs(<<Message("E")>>)
    BY <2>1, OneMessage
  <2>. QED  BY <2>2, Described1
<1>8. cu \in CursorStates
  BY <1>2
<1>9. s \in Steps /\ s.do = "prepared" /\ s.n = n /\ s.p = st.p /\ s.o = st.o
  <2>1. st \in [do : {"prepare", "prepared", "run"}, p : Statements, o : Oids, n : Nat]
    BY <1>1, <1>2 DEF Steps
  <2>2. /\ s \in [do : {"prepare", "prepared", "run"}, p : Statements, o : Oids, n : Nat]
        /\ s.do = "prepared" /\ s.n = n /\ s.p = st.p /\ s.o = st.o
    BY <1>4, <2>1
  <2>. QED  BY <2>2 DEF Steps
<1>10. Tail(todo) # <<>> /\ Follows(s, Head(Tail(todo))) /\ Head(Tail(todo)).do = "return"
  <2>1. Tail(todo) # <<>>
    BY <1>1, <1>2 DEF Ends
  <2>. QED  BY <1>1, <1>2, <1>9, <2>1 DEF Follows
<1>11. /\ Tail(todo) \in Seq(Steps) /\ Chain(Tail(todo))
       /\ \A i \in 1..Len(Tail(todo)) : KeptFor(Tail(todo)[i])
       /\ Tail(todo)[Len(Tail(todo))] = todo[Len(todo)]
  BY <1>2, <1>10 DEF GoesOn
<1>12. KeptFor(s)
  <2>1. 1 \in 1..Len(todo) /\ st = todo[1]
    BY <1>1, FirstStep DEF Always, Types
  <2>2. KeptFor(st)
    BY <1>1, <2>1 DEF Always, Kept
  <2>. QED  BY <1>1, <1>9, <2>2 DEF KeptFor
<1>. HIDE DEF s, x, cu, a
<1>13. /\ then \in Seq(Steps) /\ Chain(then) /\ then # <<>> /\ Head(then) = s
       /\ then[Len(then)] = Tail(todo)[Len(Tail(todo))]
       /\ \A i \in 1..Len(then) : then[i] = s \/ \E j \in 1..Len(Tail(todo)) : then[i] = Tail(todo)[j]
  BY <1>9, <1>10, <1>11, PutFirst
<1>. HIDE DEF then
<1>14. GoesOn(then)
  <2>1. \A i \in 1..Len(then) : KeptFor(then[i])
    BY <1>11, <1>12, <1>13
  <2>. QED  BY <1>11, <1>13, <2>1 DEF GoesOn
<1>15. \A i \in 1..Len(then) : then[i].do \in {"prepared", "return"}
  <2>1. Len(Tail(todo)) = 1 /\ Tail(todo)[1] = Head(Tail(todo))
    BY <1>1, <1>10, LastOfCall
  <2>2. \A j \in 1..Len(Tail(todo)) : Tail(todo)[j].do = "return"
    BY <1>10, <2>1
  <2>. QED  BY <1>9, <1>13, <2>2
<1>16. /\ answer = b \o Ready(sv) /\ answer \in Seq(Messages) /\ sv \in Servers /\ Said(b)
       /\ Unless(ParseError(server), x) = sv
       /\ ~BindLost => b = a /\ sv = x
  BY Zenon, <1>2, <1>6, <1>7, Sending
<1>17. Exchange("run", cu, sv, answer, cn, then)
  BY Zenon, <1>16 DEF PrepareNamed, x, a, cu, n, then, s
<1>18. /\ cn \in Conns /\ cn.open = conn.open /\ cn.auto = conn.auto
       /\ cn.held = FALSE /\ cn.nums = conn.nums \cup {n}
  <2>1. /\ Flushed \in Conns /\ Flushed.open = conn.open /\ Flushed.auto = conn.auto
        /\ Flushed.held = FALSE /\ Flushed.nums = conn.nums
    BY <1>2, ConnChanged
  <2>2. IsFiniteSet(Flushed.nums \cup {n})
    BY <2>1, FS_AddElement DEF Conns
  <2>. QED  BY <1>4, <2>1, <2>2 DEF Conns
<1>. HIDE DEF sv, answer, b, cn
<1>19. ASSUME InPlace, Does("run", cu, sv, b, cn, then) PROVE InPlace'
  <2>1. ~BindLost /\ Talking /\ NamesNow
    BY <1>1, <1>19, BindIsKept DEF InPlace
  <2>2. b = a /\ sv = x
    BY <1>16, <2>1
  <2>3. /\ server'.named = (IF fails THEN server.named ELSE named) /\ conn'.nums = conn.nums \cup {n}
        /\ cache' = cache /\ todo' = IF fails THEN <<>> ELSE then
    BY <1>6, <1>7, <1>18, <1>19, <2>2 DEF Does
  <2>4. NamesNow'
    <3>1. DOMAIN server'.named \subseteq conn'.nums
      BY <1>5, <2>1, <2>3 DEF NamesNow
    <3>2. \A p \in Statements : cache[p] # None => \A o \in DOMAIN cache[p] :
            Entered(p, o) /\ cache[p][o].desc # "other"
      <4>1. \A p : ~Closing(p)
        BY <1>1 DEF Closing, Step, At
      <4>. QED  BY <2>1, <4>1 DEF NamesNow
    <3>3. \A p \in Statements : cache[p] # None => \A o \in DOMAIN cache[p] : Entered(p, o)'
      <4>1. SUFFICES ASSUME NEW p \in Statements, cache[p] # None, NEW o \in DOMAIN cache[p]
                     PROVE  /\ cache[p][o].n \in DOMAIN server'.named
                            /\ server'.named[cache[p][o].n] = <<p, o>>
        BY <2>3 DEF Entered
      <4>2. /\ cache[p][o].n \in DOMAIN server.named /\ server.named[cache[p][o].n] = <<p, o>>
        BY <3>2, <4>1 DEF Entered
      <4>3. cache[p][o].n # n
        BY <1>4, <2>1, <4>2 DEF NamesNow
      <4>. QED  BY <2>3, <4>2, <4>3 DEF Known
    <3>4. Step("prepared")' => /\ Head(todo').n \in DOMAIN server'.named
                               /\ server'.named[Head(todo').n] = <<Head(todo').p, Head(todo').o>>
      <4>1. SUFFICES ASSUME ~fails
                     PROVE  n \in DOMAIN named /\ named[n] = <<st.p, st.o>>
        BY <1>9, <1>13, <2>3 DEF Step
      <4>. QED  BY DEF Known
    <3>5. ~Step("closed")' /\ \A i \in 1..Len(todo') : todo'[i].do # "close"
      <4>1. CASE fails
        <5>1. todo' = <<>> /\ \A i \in 1..0 : FALSE
          BY <2>3, <4>1
        <5>. QED  BY <5>1 DEF Step
      <4>2. CASE ~fails
        BY <1>9, <1>13, <1>15, <2>3, <4>2 DEF Step
      <4>. QED  BY <4>1, <4>2
    <3>6. (\A p \in Statements : cache[p] # None => \A o \in DOMAIN cache[p] :
              /\ cache[p][o].n \in DOMAIN server.named \/ ~Closing(p) => Entered(p, o)
              /\ cache[p][o].desc # "other")'
      BY <2>3, <3>2, <3>3
    <3>. QED  BY <3>1, <3>4, <3>5, <3>6 DEF NamesNow
  <2>5. OwnState(cu)
    BY <1>2, <1>19 DEF InPlace, OwnRows, OwnState, cu
  <2>6. OwnRows'
    BY <1>1, <1>2, <1>8, <1>16, <1>19, <2>5, RowsStayOwn DEF InPlace
  <2>7. Promises'
    <3>1. /\ sv.work = server.work /\ sv.durable = server.durable /\ sv.prepared = server.prepared
          /\ sv.status = "E" => server.status = "E" \/ Errs(b)
          /\ ~Errs(b) /\ then # <<>> => Head(then).do \notin {"return", "query"}
      BY <1>6, <1>7, <1>9, <1>13, <2>2
    <3>. QED  BY <1>1, <1>2, <1>19, <3>1, PromisesUntouched DEF InPlace
  <2>8. Begun'
    <3>1. ~Executes(Head(then))
      BY <1>9, <1>13 DEF Executes
    <3>. QED  BY <1>1, <1>19, <3>1, BeginningGoesOn
  <2>9. Talking'
    <3>1. LeadsOn("run", sv, b, then)
      BY <1>9, <1>13 DEF LeadsOn
    <3>2. cn.held => ~Errs(b) /\ then # <<>> /\ Head(then).do = "execute"
      BY <1>18
    <3>. QED  BY <1>1, <1>2, <1>8, <1>16, <1>18, <1>19, <2>1, <3>1, <3>2, TalkGoesOn
  <2>. QED  BY <2>4, <2>6, <2>7, <2>8, <2>9 DEF InPlace
<1>20. then # <<>> /\ Head(then).do = "execute" => cn.held
  BY <1>9, <1>13
<1>21. InPlace => answer = b \o Ready(sv)
  BY <1>16
<1>. QED  BY <1>2, <1>8, <1>14, <1>16, <1>17, <1>18, <1>19, <1>20, <1>21, ExchangeKeeps

-----------------------------------------------------------------------------
LEMMA CloseNamedKeeps == ASSUME ClientInv, CloseNamed PROVE ClientInv'
<1>. DEFINE n == Head(todo).n
            f == Forget(server.named, n)
            x == [server EXCEPT !.named = f]
            sv == Becomes(x)
            cu == cursor["own"]
            b == ErrorFirst(<<>>)
            answer == UpToSync(x, <<>>)
            s == [do |-> "closed", n |-> n]
            then == <<s>> \o Tail(todo)
<1>1. todo # <<>> /\ Head(todo).do = "close" /\ Always
  BY DEF CloseNamed, Step, ClientInv, Always
<1>2. /\ Exchanges /\ Types /\ conn \in Conns /\ server \in Servers
      /\ cursor \in [AllCursors -> CursorStates]
      /\ Head(todo) \in Steps /\ GoesOn(Tail(todo))
      /\ Tail(todo) = <<>> => Ends(Head(todo))
      /\ Tail(todo) # <<>> => Follows(Head(todo), Head(Tail(todo)))
      /\ "own" \in AllCursors
  BY <1>1, InHand
<1>3. n \in Nat
  BY <1>1, <1>2, StepFields
<1>. HIDE DEF n
<1>4. /\ f \in Partials(Nat, Statements \X Oids) /\ DOMAIN f = DOMAIN server.named \ {n}
  <2>. DEFINE g == server.named
  <2>1. g \in Partials(Nat, Statements \X Oids)
    BY <1>2, ServerFields
  <2>. HIDE DEF g
  <2>2. Forget(g, n) \in Partials(Nat, Statements \X Oids) /\ DOMAIN Forget(g, n) = DOMAIN g \ {n}
    BY <2>1, Reduced
  <2>. QED  BY <2>2 DEF g
<1>5. /\ x \in Servers /\ x.work = server.work /\ x.durable = server.durable
      /\ x.prepared = server.prepared /\ x.status = server.status /\ x.named = f
  <2>1. x = [server EXCEPT !.named = f]
    OBVIOUS
  <2>. HIDE DEF f, x
  <2>2. f \in Partials(Nat, Statements \X Oids) /\ server \in Servers
    BY <1>2, <1>4
  <2>3. /\ x \in Servers /\ x.status = server.status
        /\ x.work = server.work /\ x.durable = server.durable
        /\ x.prepared = server.prepared /\ x.named = f
    BY <2>1, <2>2, ServerNamed
  <2>. QED  BY <2>3
<1>6. Said(<<>>) /\ ~Errs(<<>>)
  BY NoMessage
<1>7. cu \in CursorStates
  BY <1>2
<1>8. s \in Steps /\ s.do = "closed" /\ s.n = n
  BY <1>3 DEF Steps
<1>9. Tail(todo) # <<>> /\ Follows(s, Head(Tail(todo)))
  <2>1. Tail(todo) # <<>>
    BY <1>1, <1>2 DEF Ends
  <2>. QED  BY <1>1, <1>2, <1>8, <2>1 DEF Follows
<1>10. /\ Tail(todo) \in Seq(Steps) /\ Chain(Tail(todo))
       /\ \A i \in 1..Len(Tail(todo)) : KeptFor(Tail(todo)[i])
       /\ Tail(todo)[Len(Tail(todo))] = todo[Len(todo)]
       /\ \A i \in 1..Len(Tail(todo)) : i + 1 \in 1..Len(todo) /\ Tail(todo)[i] = todo[i + 1]
  <2>1. \A i \in 1..Len(Tail(todo)) : i + 1 \in 1..Len(todo) /\ Tail(todo)[i] = todo[i + 1]
    BY <1>1, FirstStep DEF Always, Types
  <2>. QED  BY <1>2, <1>9, <2>1 DEF GoesOn
<1>11. KeptFor(s)
  BY <1>8 DEF KeptFor
<1>. HIDE DEF s, x, cu, f
<1>12. /\ then \in Seq(Steps) /\ Chain(then) /\ then # <<>> /\ Head(then) = s
       /\ then[Len(then)] = Tail(todo)[Len(Tail(todo))]
       /\ \A i \in 1..Len(then) : then[i] = s \/ \E j \in 1..Len(Tail(todo)) : then[i] = Tail(todo)[j]
  BY <1>8, <1>9, <1>10, PutFirst
<1>. HIDE DEF then
<1>13. GoesOn(then)
  <2>1. \A i \in 1..Len(then) : KeptFor(then[i])
    BY <1>10, <1>11, <1>12
  <2>. QED  BY <1>10, <1>12, <2>1 DEF GoesOn
<1>14. /\ answer = b \o Ready(sv) /\ answer \in Seq(Messages) /\ sv \in Servers /\ Said(b)
       /\ Unless(ParseError(server), x) = sv
       /\ ~BindLost => b = <<>> /\ sv = x
  BY <1>2, <1>5, <1>6, Sending
<1>15. Exchange("own", cu, sv, answer, Flushed, then)
  BY <1>14 DEF CloseNamed, x, cu, n, then, s, f
<1>16. /\ Flushed \in Conns /\ Flushed.open = conn.open /\ Flushed.auto = conn.auto
       /\ Flushed.held = FALSE /\ Flushed.nums = conn.nums
  BY <1>2, ConnChanged
<1>. HIDE DEF sv, answer, b
<1>17. ASSUME InPlace, Does("own", cu, sv, b, Flushed, then) PROVE InPlace'
  <2>1. ~BindLost /\ Talking /\ NamesNow
    BY <1>1, <1>17, BindIsKept DEF InPlace
  <2>2. b = <<>> /\ sv = x
    BY <1>14, <2>1
  <2>3. /\ server'.named = f /\ conn'.nums = conn.nums /\ cache' = cache /\ todo' = then
    BY <1>5, <1>6, <1>16, <1>17, <2>2 DEF Does
  <2>4. NamesNow'
    <3>1. DOMAIN server'.named \subseteq conn'.nums
      BY <1>4, <2>1, <2>3 DEF NamesNow
    <3>2. PICK q \in Statements :
             /\ cache[q] # None /\ todo[Len(todo)].id = q
             /\ \E e \in DOMAIN cache[q] : cache[q][e].n = n
      <4>1. 1 \in 1..Len(todo) /\ Head(todo) = todo[1]
        BY <1>1, FirstStep DEF Always, Types
      <4>. QED  BY <1>1, <2>1, <4>1 DEF NamesNow, n
    <3>3. todo'[Len(todo')].id = q
      BY <1>10, <1>12, <2>3, <3>2
    <3>4. \A g \in DOMAIN f : f[g] = server.named[g]
      BY <1>4 DEF f, Forget
    <3>5. ASSUME NEW p \in Statements, cache[p] # None, NEW o \in DOMAIN cache[p],
                 cache[p][o].n \in DOMAIN f \/ ~Closing(p)'
          PROVE  cache[p][o].n \in DOMAIN f /\ f[cache[p][o].n] = <<p, o>>
      <4>1. CASE cache[p][o].n \in DOMAIN f
        <5>1. cache[p][o].n \in DOMAIN server.named
          BY <1>4, <4>1
        <5>2. server.named[cache[p][o].n] = <<p, o>>
          BY <2>1, <3>5, <5>1 DEF NamesNow, Entered
        <5>. QED  BY <3>4, <4>1, <5>2
      <4>2. CASE ~Closing(p)'
        <5>1. p # q
          BY <1>8, <1>12, <2>3, <3>3, <4>2 DEF Closing, Step
        <5>2. ~Closing(p)
          BY <3>2, <5>1 DEF Closing
        <5>3. cache[p][o].n \in DOMAIN server.named /\ server.named[cache[p][o].n] = <<p, o>>
          BY <2>1, <3>5, <5>2 DEF NamesNow, Entered
        <5>4. cache[p][o].n # n
          <6>1. SUFFICES ASSUME cache[p][o].n = n PROVE FALSE
            OBVIOUS
          <6>2. PICK e \in DOMAIN cache[q] : server.named[n] = <<q, e>>
            BY <2>1, <3>2, <5>3, <6>1 DEF NamesNow, Entered
          <6>. QED  BY <5>1, <5>3, <6>1, <6>2
        <5>. QED  BY <1>4, <3>4, <5>3, <5>4
      <4>. QED  BY <3>5, <4>1, <4>2
    <3>6. (\A p \in Statements : cache[p] # None => \A o \in DOMAIN cache[p] :
              /\ cache[p][o].n \in DOMAIN server.named \/ ~Closing(p) => Entered(p, o)
              /\ cache[p][o].desc # "other")'
      <4>1. \A p \in Statements : cache[p] # None => \A o \in DOMAIN cache[p] : cache[p][o].desc # "other"
        BY <2>1 DEF NamesNow
      <4>2. \A p \in Statements : cache[p] # None => \A o \in DOMAIN cache[p] :
               (cache[p][o].n \in DOMAIN f \/ ~Closing(p)') =>
                  cache[p][o].n \in DOMAIN f /\ f[cache[p][o].n] = <<p, o>>
        BY <3>5
      <4>. QED  BY <2>3, <4>1, <4>2 DEF Entered
    <3>7. \A i \in 1..Len(todo') : todo'[i].do = "close" =>
             \E p \in Statements :
                /\ cache'[p] # None /\ todo'[Len(todo')].id = p
                /\ \E o \in DOMAIN cache'[p] : cache'[p][o].n = todo'[i].n
      <4>1. SUFFICES ASSUME NEW i \in 1..Len(then), then[i].do = "close"
                     PROVE  \E p \in Statements :
                               /\ cache[p] # None /\ todo'[Len(todo')].id = p
                               /\ \E o \in DOMAIN cache[p] : cache[p][o].n = then[i].n
        BY <2>3
      <4>2. PICK j \in 1..Len(Tail(todo)) : then[i] = Tail(todo)[j]
        BY <1>8, <1>12, <4>1
      <4>3. j + 1 \in 1..Len(todo) /\ then[i] = todo[j + 1]
        BY <1>10, <4>2
      <4>4. todo'[Len(todo')] = todo[Len(todo)]
        BY <1>10, <1>12, <2>3
      <4>. QED  BY <2>1, <4>1, <4>3, <4>4 DEF NamesNow
    <3>8. ~Step("prepared")' /\ (Step("closed")' => Head(todo').n \notin DOMAIN server'.named)
      BY <1>4, <1>8, <1>12, <2>3 DEF Step
    <3>. QED  BY <3>1, <3>6, <3>7, <3>8 DEF NamesNow
  <2>5. OwnState(cu)
    BY <1>2, <1>17 DEF InPlace, OwnRows, OwnState, cu
  <2>6. OwnRows'
    BY <1>1, <1>2, <1>7, <1>14, <1>17, <2>5, RowsStayOwn DEF InPlace
  <2>7. Promises'
    <3>1. /\ sv.work = server.work /\ sv.durable = server.durable /\ sv.prepared = server.prepared
          /\ sv.status = "E" => server.status = "E" \/ Errs(b)
          /\ ~Errs(b) /\ then # <<>> => Head(then).do \notin {"return", "query"}
      BY <1>5, <1>8, <1>12, <2>2
    <3>. QED  BY <1>1, <1>2, <1>17, <3>1, PromisesUntouched DEF InPlace
  <2>8. Begun'
    <3>1. ~Executes(Head(then))
      BY <1>8, <1>12 DEF Executes
    <3>. QED  BY <1>1, <1>17, <3>1, BeginningGoesOn
  <2>9. Talking'
    <3>1. LeadsOn("own", sv, b, then)
      BY <1>8, <1>12 DEF LeadsOn
    <3>2. Flushed.held => ~Errs(b) /\ then # <<>> /\ Head(then).do = "execute"
      BY <1>16
    <3>. QED  BY <1>1, <1>2, <1>7, <1>14, <1>16, <1>17, <2>1, <3>1, <3>2, TalkGoesOn
  <2>. QED  BY <2>4, <2>6, <2>7, <2>8, <2>9 DEF InPlace
<1>18. then # <<>> /\ Head(then).do = "execute" => Flushed.held
  BY <1>8, <1>12
<1>19. InPlace => answer = b \o Ready(sv)
  BY <1>14
<1>. QED  BY <1>2, <1>7, <1>13, <1>14, <1>15, <1>16, <1>17, <1>18, <1>19, ExchangeKeeps

-----------------------------------------------------------------------------
IsBegin(s) == s.do = "query" /\ s.sql.k = "begin"

LEMMA BeginsFirst ==
    ASSUME NEW c \in AllCursors
    PROVE  /\ BeginOn(c) \in Seq(Steps)
           /\ \A s, t \in Seq(Steps) : BeginOn(c) \o s \o t = BeginOn(c) \o (s \o t)
<1>. DEFINE s == [Begins EXCEPT !.c = c]
<1>1. s \in Steps
  <2>1. SQL("begin") \in Sqls
    BY DEF SQL, Sqls, Texts, Ids
  <2>2. s = [do |-> "query", c |-> c, sql |-> SQL("begin")]
    BY DEF Begins
  <2>. QED  BY <2>1, <2>2 DEF Steps
<1>2. BeginOn(c) = <<>> \/ BeginOn(c) = <<s>>
  BY DEF BeginOn
<1>. HIDE DEF s
<1>3. <<s>> \in Seq(Steps) /\ <<>> \in Seq(Steps)
  BY <1>1
<1>4. BeginOn(c) \in Seq(Steps)
  BY <1>2, <1>3
<1>. QED  BY <1>4, ConcatAssociative

LEMMA Beginning ==
    ASSUME NEW c \in AllCursors, NEW t \in Seq(Steps), Chain(t), t # <<>>,
           Executes(Head(t)), Head(t).do \notin {"describe", "execute"}
    PROVE  /\ BeginOn(c) \o t \in Seq(Steps) /\ Chain(BeginOn(c) \o t) /\ BeginOn(c) \o t # <<>>
           /\ (BeginOn(c) \o t)[Len(BeginOn(c) \o t)] = t[Len(t)]
           /\ \/ Head(BeginOn(c) \o t) = Head(t) /\ (conn.inTx \/ conn.auto)
              \/ IsBegin(Head(BeginOn(c) \o t))
           /\ \A i \in 1..Len(BeginOn(c) \o t) :
                 \/ IsBegin((BeginOn(c) \o t)[i])
                 \/ \E j \in 1..Len(t) : (BeginOn(c) \o t)[i] = t[j]
<1>. DEFINE s == [Begins EXCEPT !.c = c]
<1>1. s \in Steps /\ IsBegin(s)
  <2>1. SQL("begin") \in Sqls /\ SQL("begin").k = "begin"
    BY DEF SQL, Sqls, Texts, Ids
  <2>2. s = [do |-> "query", c |-> c, sql |-> SQL("begin")]
    BY DEF Begins
  <2>3. s \in [do : {"query"}, c : AllCursors, sql : Sqls]
    BY <2>1, <2>2
  <2>. HIDE DEF s
  <2>4. s \in Steps
    BY <2>3 DEF Steps
  <2>5. s.do = "query" /\ s.sql = SQL("begin")
    BY <2>2
  <2>. QED  BY <2>1, <2>4, <2>5 DEF IsBegin
<1>2. /\ (conn.inTx \/ conn.auto) => BeginOn(c) = <<>>
      /\ ~(conn.inTx \/ conn.auto) => BeginOn(c) = <<s>>
  BY DEF BeginOn
<1>. HIDE DEF s
<1>3. CASE conn.inTx \/ conn.auto
  <2>1. <<>> \o t = t
    BY ConcatEmptySeq
  <2>2. BeginOn(c) \o t = t
    BY <1>2, <1>3, <2>1
  <2>. QED  BY <1>3, <2>2
<1>4. CASE ~(conn.inTx \/ conn.auto)
  <2>1. Follows(s, Head(t))
    <3>1. "begin" \notin Operations
      BY PgClientAssumption
    <3>2. FollowsQuery(s, Head(t))
      BY <1>1, <3>1 DEF FollowsQuery, IsBegin
    <3>. QED  BY <1>1, <3>2 DEF Follows, IsBegin
  <2>2. BeginOn(c) = <<s>>
    BY <1>2, <1>4
  <2>3. /\ <<s>> \o t \in Seq(Steps) /\ Chain(<<s>> \o t) /\ <<s>> \o t # <<>>
        /\ (<<s>> \o t)[Len(<<s>> \o t)] = t[Len(t)]
        /\ Head(<<s>> \o t) = s
        /\ \A i \in 1..Len(<<s>> \o t) :
              (<<s>> \o t)[i] = s \/ \E j \in 1..Len(t) : (<<s>> \o t)[i] = t[j]
    BY <1>1, <2>1, PutFirst
  <2>. DEFINE w == <<s>> \o t
  <2>4. BeginOn(c) \o t = w
    BY <2>2
  <2>5. /\ w \in Seq(Steps) /\ Chain(w) /\ w # <<>> /\ w[Len(w)] = t[Len(t)] /\ Head(w) = s
        /\ \A i \in 1..Len(w) : w[i] = s \/ \E j \in 1..Len(t) : w[i] = t[j]
    BY <2>3
  <2>. HIDE DEF w
  <2>6. IsBegin(Head(w)) /\ \A i \in 1..Len(w) : IsBegin(w[i]) \/ \E j \in 1..Len(t) : w[i] = t[j]
    BY <1>1, <2>5
  <2>. QED  BY <2>4, <2>5, <2>6
<1>. QED  BY <1>3, <1>4

\* While the call ends otherwise, autocommit is as the application set it.
LEMMA AutoAsSet ==
    ASSUME Always, todo # <<>>, ~Ending("tpc"), Head(todo).do # "wait for ever"
    PROVE  conn.auto = past.auto
BY DEF Always, Step

LEMMA KeepPreparedKeeps == ASSUME ClientInv, KeepPrepared PROVE ClientInv'
<1>. DEFINE st == Head(todo)
            d == cursor["run"].desc
            old == cache[st.p]
            e == [n |-> st.n, desc |-> d]
            new == Known(old, st.o, e)
            s == [st EXCEPT !.do = "run"]
            t == <<s>> \o Tail(todo)
            then == BeginOn("run") \o t
<1>1. todo # <<>> /\ st.do = "prepared" /\ Always
  BY DEF KeepPrepared, Step, ClientInv, Always
<1>2. /\ Exchanges /\ Types /\ conn \in Conns /\ server \in Servers
      /\ cursor \in [AllCursors -> CursorStates]
      /\ st \in Steps /\ GoesOn(Tail(todo))
      /\ Tail(todo) = <<>> => Ends(st)
      /\ Tail(todo) # <<>> => Follows(st, Head(Tail(todo)))
      /\ "run" \in AllCursors
  BY <1>1, InHand
<1>3. st.p \in Statements /\ st.o \in Oids /\ st.n \in Nat
  BY <1>1, <1>2, StepFields
<1>4. /\ Tail(todo) # <<>> /\ Head(Tail(todo)).do = "return" /\ Head(Tail(todo)).of = "execute"
      /\ Head(Tail(todo)).sql = SQL(KindOf[st.p])
  <2>1. Tail(todo) # <<>>
    BY <1>1, <1>2 DEF Ends
  <2>. QED  BY <1>1, <1>2, <2>1 DEF Follows
<1>5. /\ todo[Len(todo)] = Head(Tail(todo)) /\ Len(Tail(todo)) = 1 /\ Tail(todo)[1] = Head(Tail(todo))
  BY <1>1, <1>4, LastOfCall
<1>6. conn.auto = past.auto
  <2>1. ~Ending("tpc")
    BY <1>4, <1>5 DEF Ending
  <2>. QED  BY <1>1, <2>1, AutoAsSet
<1>7. cache[st.p] \in Cached /\ cache \in [Statements -> Cached \cup {None}]
  <2>1. 1 \in 1..Len(todo) /\ st = todo[1]
    BY <1>1, FirstStep DEF Always, Types
  <2>2. KeptFor(st)
    BY <1>1, <2>1 DEF Always, Kept
  <2>3. cache \in [Statements -> Cached \cup {None}] /\ cache[st.p] # None
    BY <1>1, <1>2, <2>2 DEF Types, KeptFor
  <2>. QED  BY <1>3, <2>3
<1>8. s \in Steps /\ s.do = "run" /\ s.p = st.p /\ s.o = st.o
  <2>1. st \in [do : {"prepare", "prepared", "run"}, p : Statements, o : Oids, n : Nat]
    BY <1>1, <1>2 DEF Steps
  <2>2. /\ s \in [do : {"prepare", "prepared", "run"}, p : Statements, o : Oids, n : Nat]
        /\ s.do = "run" /\ s.p = st.p /\ s.o = st.o
    BY <2>1
  <2>. QED  BY <2>2 DEF Steps
<1>9. /\ UNCHANGED <<conn, cursor, unread, server, calls>>
      /\ \/ todo' = then /\ UNCHANGED past /\ cache' = [cache EXCEPT ![st.p] = new]
         \/ todo' = <<>> /\ past' = [past EXCEPT !.failed = TRUE] /\ UNCHANGED cache
  <2>1. Tail(todo) \in Seq(Steps) /\ <<s>> \in Seq(Steps)
    BY <1>2, <1>8 DEF GoesOn
  <2>. HIDE DEF s
  <2>2. BeginOn("run") \o <<s>> \o Tail(todo) = then
    BY <1>2, <2>1, BeginsFirst
  <2>3. /\ UNCHANGED <<conn, cursor, unread, server, calls>>
        /\ \/ /\ todo' = BeginOn("run") \o <<s>> \o Tail(todo) /\ UNCHANGED past
              /\ cache' = [cache EXCEPT ![st.p] = new]
           \/ todo' = <<>> /\ past' = [past EXCEPT !.failed = TRUE] /\ UNCHANGED cache
    BY DEF KeepPrepared, s
  <2>. QED  BY <2>2, <2>3
<1>10. CASE todo' = <<>> /\ past' = [past EXCEPT !.failed = TRUE] /\ UNCHANGED cache
  <2>1. /\ past \in Pasts /\ past' \in Pasts /\ past'.started = past.started
        /\ past'.auto = past.auto /\ past'.derailed = past.derailed /\ past'.failed
        /\ past'.acked = past.acked /\ past'.pending = past.pending
        /\ past'.due = past.due /\ past'.ended = past.ended
    BY <1>2, <1>10 DEF Types, Pasts
  <2>2. \A i \in 1..Len(<<>>) : FALSE
    OBVIOUS
  <2>3. <<>> \in Seq(Steps) /\ Chain(<<>>)
    BY NoSteps
  <2>4. Types'
    BY <1>2, <1>9, <1>10, <2>1, <2>3 DEF Types
  <2>5. /\ ~Step("prepared")' /\ ~Step("closed")' /\ ~Step("close")' /\ ~Step("execute")'
        /\ ~Step("return")' /\ ~Step("query")' /\ ~Step("choose")' /\ ~Step("describe")'
    BY <1>10 DEF Step
  <2>6. /\ ~At("rollback")' /\ ~At("prepare")' /\ ~At("tpc")' /\ ~At("execute")' /\ ~At("commit")'
        /\ ~Undone' /\ ~Elsewhere'
    BY <2>5 DEF At, Undone, Elsewhere
  <2>7. Always'
    <3>1. Kept'
      BY <1>10, <2>2 DEF Kept
    <3>2. past'.started
      BY <1>1, <2>1 DEF Always
    <3>3. conn'.auto = past'.auto
      BY <1>6, <1>9, <2>1
    <3>4. Chain(todo') /\ todo' = <<>>
      BY <1>10, <2>3
    <3>. QED  BY <2>4, <2>5, <3>1, <3>2, <3>3, <3>4 DEF Always
  <2>8. ASSUME ~past'.derailed PROVE InPlace'
    <3>1. InPlace /\ past.ended = None
      BY <1>1, <1>8, <2>1, <2>8 DEF ClientInv, InPlace, Always
    <3>2. \A p : ~Closing(p)
      BY <1>1 DEF Closing, Step, At
    <3>3. NamesNow'
      <4>1. \A p \in Statements : cache[p] # None => \A o \in DOMAIN cache[p] :
               Entered(p, o) /\ cache[p][o].desc # "other"
        BY <3>1, <3>2 DEF InPlace, NamesNow
      <4>2. (\A p \in Statements : cache[p] # None => \A o \in DOMAIN cache[p] :
                /\ cache[p][o].n \in DOMAIN server.named \/ ~Closing(p) => Entered(p, o)
                /\ cache[p][o].desc # "other")'
        BY <1>9, <1>10, <4>1 DEF Entered
      <4>3. \A i \in 1..Len(todo') : FALSE
        BY <1>10, <2>2
      <4>4. (DOMAIN server.named \subseteq conn.nums)'
        BY <1>9, <3>1 DEF InPlace, NamesNow
      <4>. QED  BY <2>5, <4>2, <4>3, <4>4 DEF NamesNow
    <3>4. OwnRows'
      BY <1>9, <3>1 DEF InPlace, OwnRows
    <3>5. Talking'
      <4>1. ~conn.held
        BY <1>1, <3>1 DEF InPlace, Talking, Step
      <4>2. unread' = <<>> /\ (conn.open \/ ~past.started => (conn.inTx <=> server.status # "I"))'
        BY <1>9, <2>1, <3>1 DEF InPlace, Talking
      <4>. QED  BY <1>9, <2>5, <4>1, <4>2 DEF Talking
    <3>6. Begun'
      BY <1>10 DEF Begun
    <3>7. Promises'
      <4>1. ~At("tpc") /\ ~Step("return")
        BY <1>1 DEF At, Step
      <4>2. (\A g \in DOMAIN past.pending :
                past.pending[g] \subseteq server.durable \cup Held(server, g))'
        BY <1>9, <2>1, <3>1, <4>1 DEF InPlace, Promises, Held
      <4>3. (Formed => past.ended = None /\ past.due \subseteq server.durable)'
        BY <1>9, <2>1, <3>1 DEF InPlace, Promises, Formed
      <4>. QED  BY <2>1, <2>6, <4>2, <4>3 DEF Promises
    <3>. QED  BY <3>3, <3>4, <3>5, <3>6, <3>7 DEF InPlace
  <2>. QED  BY <2>7, <2>8 DEF ClientInv, InPlace
<1>11. CASE todo' = then /\ UNCHANGED past /\ cache' = [cache EXCEPT ![st.p] = new]
  <2>1. /\ new \in Cached /\ DOMAIN new = DOMAIN old \cup {st.o} /\ new[st.o] = e
        /\ \A o \in DOMAIN old : o # st.o => new[o] = old[o]
    <3>1. e \in Entry
      <4>1. d \in Descs
        BY <1>2 DEF CursorStates
      <4>. QED  BY <1>3, <4>1 DEF Entry
    <3>. DEFINE q == st.o
    <3>2. q \in Oids /\ old \in Partials(Oids, Entry) /\ IsFiniteSet(DOMAIN old)
      BY <1>3, <1>7 DEF Cached
    <3>. HIDE DEF e, old, q
    <3>3. /\ Known(old, q, e) \in Partials(Oids, Entry) /\ IsFiniteSet(DOMAIN Known(old, q, e))
          /\ DOMAIN Known(old, q, e) = DOMAIN old \cup {q}
      BY <3>1, <3>2, Extended
    <3>4. Known(old, q, e)[q] = e /\ \A o \in DOMAIN old : o # q => Known(old, q, e)[o] = old[o]
      BY DEF Known
    <3>. QED  BY <3>3, <3>4 DEF Cached, q
  <2>. HIDE DEF new, old
  <2>2. /\ cache' \in [Statements -> Cached \cup {None}] /\ cache'[st.p] = new
        /\ \A p \in Statements : p # st.p => cache'[p] = cache[p]
    BY <1>3, <1>7, <1>11, <2>1
  <2>3. /\ Tail(todo) \in Seq(Steps) /\ Chain(Tail(todo))
        /\ Follows(s, Head(Tail(todo)))
    <3>1. Follows(s, Head(Tail(todo)))
      BY <1>4, <1>8 DEF Follows
    <3>. QED  BY <1>2, <3>1 DEF GoesOn
  <2>. HIDE DEF s
  <2>4. /\ t \in Seq(Steps) /\ Chain(t) /\ t # <<>> /\ Head(t) = s
        /\ t[Len(t)] = Tail(todo)[Len(Tail(todo))]
        /\ \A i \in 1..Len(t) : t[i] = s \/ \E j \in 1..Len(Tail(todo)) : t[i] = Tail(todo)[j]
    BY <1>4, <1>8, <2>3, PutFirst
  <2>. HIDE DEF t
  <2>5. Executes(Head(t)) /\ Head(t).do = "run"
    BY <1>8, <2>4 DEF Executes
  <2>6. /\ then \in Seq(Steps) /\ Chain(then) /\ then # <<>> /\ then[Len(then)] = t[Len(t)]
        /\ (Head(then) = Head(t) /\ (conn.inTx \/ conn.auto)) \/ IsBegin(Head(then))
        /\ \A i \in 1..Len(then) : IsBegin(then[i]) \/ \E j \in 1..Len(t) : then[i] = t[j]
    BY <1>2, <2>4, <2>5, Beginning
  <2>. HIDE DEF then
  <2>7. \A i \in 1..Len(then) : \/ IsBegin(then[i]) \/ then[i] = s
                                \/ then[i] = Head(Tail(todo))
    <3>1. \A j \in 1..Len(Tail(todo)) : Tail(todo)[j] = Head(Tail(todo))
      BY <1>5
    <3>. QED  BY <2>4, <2>6, <3>1
  <2>8. then[Len(then)] = Head(Tail(todo))
    BY <1>5, <2>4, <2>6
  <2>9. Always'
    <3>1. Types'
      BY <1>2, <1>9, <1>11, <2>2, <2>6 DEF Types
    <3>2. ASSUME NEW i \in 1..Len(then), NEW y, y = then[i]
          PROVE  /\ y.do \in {"prepare", "prepared", "run"} => cache'[y.p] # None
                 /\ y.do = "run" => y.o \in DOMAIN cache'[y.p]
      <4>1. CASE IsBegin(y)
        BY <4>1 DEF IsBegin
      <4>2. CASE y = s
        <5>1. cache'[s.p] # None /\ s.o \in DOMAIN cache'[s.p]
          BY <1>8, <2>1, <2>2, NoneIsNoCache
        <5>. QED  BY <4>2, <5>1
      <4>3. CASE y = Head(Tail(todo))
        BY <1>4, <4>3
      <4>. QED  BY <2>7, <3>2, <4>1, <4>2, <4>3
    <3>3. Kept'
      BY <1>11, <3>2 DEF Kept, KeptFor
    <3>4. ~Step("execute")'
      BY <1>11, <2>5, <2>6 DEF Step, IsBegin
    <3>5. /\ Chain(todo') /\ conn'.open /\ past'.ended = None /\ past'.started
          /\ conn'.auto = past'.auto
      BY <1>1, <1>6, <1>9, <1>11, <2>6 DEF Always
    <3>. QED  BY <3>1, <3>3, <3>4, <3>5 DEF Always
  <2>10. /\ ~Step("prepared")' /\ ~Step("closed")' /\ ~Step("close")' /\ ~Step("execute")'
         /\ ~Step("return")' /\ ~Step("choose")' /\ ~Step("describe")'
    BY <1>11, <2>5, <2>6 DEF Step, IsBegin
  <2>11. /\ ~At("rollback")' /\ ~At("prepare")' /\ ~At("tpc")' /\ ~At("execute")' /\ ~At("commit")'
         /\ ~Undone' /\ ~Elsewhere'
    <3>1. ~Ending("tpc")'
      BY <1>4, <1>11, <2>8 DEF Ending
    <3>. QED  BY <2>10, <3>1 DEF At, Undone, Elsewhere
  <2>12. ASSUME ~past'.derailed PROVE InPlace'
    <3>1. InPlace
      BY <1>11, <2>12 DEF ClientInv, InPlace
    <3>2. \A p : ~Closing(p)
      BY <1>1 DEF Closing, Step, At
    <3>3. NamesNow'
      <4>1. \A p \in Statements : cache[p] # None => \A o \in DOMAIN cache[p] :
               Entered(p, o) /\ cache[p][o].desc # "other"
        BY <3>1, <3>2 DEF InPlace, NamesNow
      <4>2. ASSUME NEW p \in Statements, cache'[p] # None, NEW o \in DOMAIN cache'[p]
            PROVE  /\ cache'[p][o].n \in DOMAIN server.named
                   /\ server.named[cache'[p][o].n] = <<p, o>> /\ cache'[p][o].desc # "other"
        <5>1. CASE p = st.p /\ o = st.o
          <6>1. cache'[p][o] = e
            BY <2>1, <2>2, <5>1
          <6>2. /\ st.n \in DOMAIN server.named /\ server.named[st.n] = <<st.p, st.o>>
            BY <1>1, <3>1 DEF InPlace, NamesNow, Step
          <6>3. d # "other"
            BY <1>2, <3>1 DEF InPlace, OwnRows
          <6>. QED  BY <5>1, <6>1, <6>2, <6>3
        <5>2. CASE p = st.p /\ o # st.o
          <6>1. o \in DOMAIN old /\ cache'[p][o] = old[o]
            BY <2>1, <2>2, <4>2, <5>2
          <6>2. cache[p] = old /\ cache[p] # None
            BY <1>7, <5>2, NoneIsNoCache DEF old
          <6>. QED  BY <4>1, <6>1, <6>2 DEF Entered
        <5>3. CASE p # st.p
          BY <2>2, <4>1, <4>2, <5>3 DEF Entered
        <5>. QED  BY <5>1, <5>2, <5>3
      <4>3. (\A p \in Statements : cache[p] # None => \A o \in DOMAIN cache[p] :
                /\ cache[p][o].n \in DOMAIN server.named \/ ~Closing(p) => Entered(p, o)
                /\ cache[p][o].desc # "other")'
        BY <1>9, <4>2 DEF Entered
      <4>4. \A i \in 1..Len(todo') : todo'[i].do # "close"
        BY <1>4, <1>8, <1>11, <2>7 DEF IsBegin
      <4>5. (DOMAIN server.named \subseteq conn.nums)'
        BY <1>9, <3>1 DEF InPlace, NamesNow
      <4>. QED  BY <2>10, <4>3, <4>4, <4>5 DEF NamesNow
    <3>4. OwnRows'
      BY <1>9, <3>1 DEF InPlace, OwnRows
    <3>5. Talking'
      <4>1. ~conn.held
        BY <1>1, <3>1 DEF InPlace, Talking, Step
      <4>2. unread' = <<>> /\ (conn.open \/ ~past.started => (conn.inTx <=> server.status # "I"))'
        BY <1>9, <1>11, <3>1 DEF InPlace, Talking
      <4>. QED  BY <1>9, <2>10, <4>1, <4>2 DEF Talking
    <3>6. Begun'
      <4>1. CASE IsBegin(Head(then))
        <5>1. ~Executes(Head(then))
          BY <4>1, PgClientAssumption DEF IsBegin, Executes
        <5>. QED  BY <1>11, <5>1 DEF Begun, Executes
      <4>2. CASE conn.inTx \/ conn.auto
        <5>1. conn.open /\ (conn.inTx <=> server.status # "I")
          BY <1>1, <3>1 DEF InPlace, Talking, Always
        <5>. QED  BY <1>6, <1>9, <1>11, <4>2, <5>1 DEF Begun
      <4>. QED  BY <2>6, <4>1, <4>2
    <3>7. Promises'
      <4>1. ~At("tpc") /\ ~Undone /\ past.ended = None
        BY <1>1 DEF At, Step, Undone, Always
      <4>2. (\A g \in DOMAIN past.pending :
                past.pending[g] \subseteq server.durable \cup Held(server, g))'
        BY <1>9, <1>11, <3>1, <4>1 DEF InPlace, Promises, Held
      <4>3. (Formed => past.ended = None /\ past.due \subseteq server.durable)'
        BY <1>9, <1>11, <3>1, <4>1 DEF InPlace, Promises, Formed
      <4>4. /\ (server.status = "E" => past.failed)'
            /\ (conn.open /\ ~past.failed => past.acked \subseteq server.work \cup server.durable)'
        BY <1>9, <1>11, <3>1, <4>1 DEF InPlace, Promises
      <4>. QED  BY <2>11, <4>2, <4>3, <4>4 DEF Promises
    <3>. QED  BY <3>3, <3>4, <3>5, <3>6, <3>7 DEF InPlace
  <2>. QED  BY <2>9, <2>12 DEF ClientInv, InPlace
<1>. QED  BY <1>9, <1>10, <1>11

-----------------------------------------------------------------------------
(***************************************************************************)
(* The calls.                                                              *)
(***************************************************************************)

\* What a call begins with.
Opens(steps) ==
    /\ steps \in Seq(Steps) /\ Chain(steps) /\ \A i \in 1..Len(steps) : KeptFor(steps[i])
    /\ steps # <<>> => Head(steps).do \in {"query", "parse", "run", "prepare", "return", "close"}

LEMMA CallKeeps ==
    ASSUME ClientInv, NEW steps, Opens(steps), Call(steps), UNCHANGED <<cache, server>>,
           conn' \in Conns, conn'.open = conn.open, conn'.inTx = conn.inTx,
           conn'.nums = conn.nums, conn'.held = conn.held,
           cursor' \in [AllCursors -> CursorStates], OwnRows => OwnRows',
           conn'.auto = past.auto \/ Ending("tpc")',
           InPlace => NamesNow' /\ Begun' /\ Promises'
    PROVE  ClientInv'
<1>1. Always /\ Types
  BY DEF ClientInv, Always
<1>2. /\ todo = <<>> /\ conn.open /\ calls < MaxCalls /\ calls' = calls + 1 /\ todo' = steps
      /\ unread' = [i \in DOMAIN unread |-> [unread[i] EXCEPT !.own = FALSE]]
      /\ past' = [past EXCEPT !.ended = None]
  BY DEF Call
<1>3. /\ past' \in Pasts /\ past'.started = past.started
      /\ past'.auto = past.auto /\ past'.derailed = past.derailed /\ past'.ended = None
  BY <1>1, <1>2 DEF Types, Pasts, Ids
<1>4. unread' \in Seq(Messages) /\ (unread = <<>> => unread' = <<>>)
  <2>1. unread \in Seq(Messages) /\ Len(unread) \in Nat /\ DOMAIN unread = 1..Len(unread)
    BY <1>1, LenProperties DEF Types
  <2>2. \A i \in 1..Len(unread) : [unread[i] EXCEPT !.own = FALSE] \in Messages
    <3>1. SUFFICES ASSUME NEW i \in 1..Len(unread) PROVE [unread[i] EXCEPT !.own = FALSE] \in Messages
      OBVIOUS
    <3>2. unread[i] \in Messages
      BY <2>1, ElementOfSeq
    <3>. QED  BY <3>2 DEF Messages
  <2>3. unread' \in [1..Len(unread) -> Messages]
    BY <1>2, <2>1, <2>2
  <2>4. unread' \in Seq(Messages) /\ Len(unread') = Len(unread)
    BY <2>1, <2>3, SeqDef, LenProperties
  <2>5. unread = <<>> => Len(unread') = 0
    BY <2>4
  <2>. QED  BY <2>4, <2>5, EmptySeq
<1>5. calls' \in 0..MaxCalls
  <2>1. calls \in 0..MaxCalls /\ MaxCalls \in Nat
    BY <1>1, PgClientAssumption DEF Types
  <2>2. \A m \in Nat : \A n \in 0..m : n < m => n + 1 \in 0..m
    OBVIOUS
  <2>. QED  BY <1>2, <2>1, <2>2
<1>6. Types'
  <2>1. server' \in Servers /\ cache' \in [Statements -> Cached \cup {None}] /\ todo' \in Seq(Steps)
    BY <1>1, <1>2 DEF Types, Opens
  <2>. QED  BY <1>3, <1>4, <1>5, <2>1 DEF Types
<1>7. ~Step("execute")' /\ ~Step("describe")' /\ ~Step("choose")'
  BY <1>2 DEF Opens, Step
<1>8. Kept'
  BY <1>2 DEF Opens, Kept, KeptFor
<1>9. Always'
  BY <1>1, <1>2, <1>3, <1>6, <1>7, <1>8 DEF Always, Opens
<1>10. ASSUME InPlace PROVE InPlace'
  <2>1. ~conn.held /\ unread = <<>>
    BY <1>2, <1>10 DEF InPlace, Talking, Step
  <2>2. (conn.open \/ ~past.started => (conn.inTx <=> server.status # "I"))'
    BY <1>2, <1>10 DEF InPlace, Talking
  <2>3. Talking'
    BY <1>4, <1>7, <2>1, <2>2 DEF Talking
  <2>. QED  BY <1>10, <2>3 DEF InPlace
<1>. QED  BY <1>3, <1>9, <1>10 DEF ClientInv, InPlace

LEMMA CallNames ==
    ASSUME NamesNow, todo = <<>>, UNCHANGED <<cache, server>>, conn'.nums = conn.nums,
           ~Step("prepared")', ~Step("closed")', ~Step("close")', ~At("close")',
           \A i \in 1..Len(todo') : todo'[i].do # "close"
    PROVE  NamesNow'
<1>1. \A p : ~Closing(p)
  BY DEF Closing, Step, At
<1>2. \A p \in Statements : cache[p] # None => \A o \in DOMAIN cache[p] :
         Entered(p, o) /\ cache[p][o].desc # "other"
  BY <1>1 DEF NamesNow
<1>3. (\A p \in Statements : cache[p] # None => \A o \in DOMAIN cache[p] :
          /\ cache[p][o].n \in DOMAIN server.named \/ ~Closing(p) => Entered(p, o)
          /\ cache[p][o].desc # "other")'
  BY <1>2 DEF Entered
<1>. QED  BY <1>3 DEF NamesNow

LEMMA CallPromises ==
    ASSUME Types, Promises, todo = <<>>, conn.open, server' = server,
           past' = [past EXCEPT !.ended = None],
           ~At("execute")', ~At("commit")', ~At("prepare")', ~At("tpc")',
           At("rollback")' => server.status = "I", ~Elsewhere'
    PROVE  Promises'
<1>1. /\ past'.failed = past.failed /\ past'.acked = past.acked
      /\ past'.pending = past.pending /\ past'.due = past.due /\ past'.ended = None
  BY DEF Types, Pasts
<1>2. ~At("rollback") /\ ~At("prepare") /\ ~At("tpc") /\ ~Undone
  BY DEF At, Step, Undone
<1>3. (\A g \in DOMAIN past.pending :
          \/ past.pending[g] \subseteq server.durable \cup Held(server, g)
          \/ At("tpc") /\ Head(todo).sql.k = "rollback" /\ Head(todo).id = g)'
  BY <1>1, <1>2 DEF Promises, Held
<1>4. /\ (server.status = "E" => past.failed)'
      /\ (conn.open /\ ~past.failed => past.acked \subseteq server.work \cup server.durable)'
  BY <1>1, <1>2 DEF Promises
<1>5. (Formed => past.ended = None /\ past.due \subseteq server.durable)'
  BY <1>1 DEF Promises, Formed
<1>. QED  BY <1>3, <1>4, <1>5 DEF Promises

\* The pieces of a call.
LEMMA Returning ==
    ASSUME NEW m, NEW sql, NEW id, [do |-> "return", of |-> m, sql |-> sql, id |-> id] \in Steps
    PROVE  LET t == Returns(m, sql, id)
           IN /\ t \in Seq(Steps) /\ Chain(t) /\ t # <<>> /\ Len(t) = 1 /\ t[1] = Head(t)
              /\ Head(t) = [do |-> "return", of |-> m, sql |-> sql, id |-> id]
              /\ Head(t).do = "return" /\ Head(t).of = m /\ Head(t).sql = sql /\ Head(t).id = id
<1>. DEFINE s == [do |-> "return", of |-> m, sql |-> sql, id |-> id]
<1>1. s.do = "return" /\ s.of = m /\ s.sql = sql /\ s.id = id /\ Returns(m, sql, id) = <<s>>
  BY DEF Returns
<1>2. s \in Steps
  OBVIOUS
<1>. HIDE DEF s
<1>3. Ends(s)
  BY <1>1 DEF Ends
<1>4. /\ <<s>> \in Seq(Steps) /\ Chain(<<s>>) /\ <<s>> # <<>> /\ Len(<<s>>) = 1 /\ <<s>>[1] = s
      /\ Head(<<s>>) = s
  BY <1>2, <1>3, OneStep
<1>. QED  BY <1>1, <1>4 DEF s

LEMMA Asking ==
    ASSUME NEW c \in AllCursors, NEW sql \in Sqls
    PROVE  LET s == [do |-> "query", c |-> c, sql |-> sql]
           IN /\ Asks(c, sql) = <<s>> /\ s \in Steps
              /\ s.do = "query" /\ s.c = c /\ s.sql = sql
BY DEF Asks, Steps

LEMMA NamedSqls ==
    /\ \A k \in Texts \ {"prepare"} : SQL(k) \in Sqls /\ SQL(k).k = k
    /\ \A k \in Texts, g \in Gids : On(k, g) \in Sqls /\ On(k, g).k = k /\ On(k, g).g = g
BY DEF SQL, On, Sqls, Ids

\* A query and the return of the call.
LEMMA AskAndReturn ==
    ASSUME NEW c \in AllCursors, NEW sql \in Sqls, NEW m, NEW s, NEW id,
           [do |-> "return", of |-> m, sql |-> s, id |-> id] \in Steps,
           FollowsQuery([do |-> "query", c |-> c, sql |-> sql],
                        [do |-> "return", of |-> m, sql |-> s, id |-> id])
    PROVE  LET t == Asks(c, sql) \o Returns(m, s, id)
           IN /\ t \in Seq(Steps) /\ Chain(t) /\ t # <<>>
              /\ Head(t) = [do |-> "query", c |-> c, sql |-> sql]
              /\ t[Len(t)] = [do |-> "return", of |-> m, sql |-> s, id |-> id]
              /\ \A i \in 1..Len(t) : \/ t[i] = [do |-> "query", c |-> c, sql |-> sql]
                                      \/ t[i] = [do |-> "return", of |-> m, sql |-> s, id |-> id]
<1>. DEFINE q == [do |-> "query", c |-> c, sql |-> sql]
            r == [do |-> "return", of |-> m, sql |-> s, id |-> id]
            u == Returns(m, s, id)
<1>1. Asks(c, sql) = <<q>> /\ q \in Steps /\ q.do = "query" /\ FollowsQuery(q, r)
  BY Asking
<1>2. u \in Seq(Steps) /\ Chain(u) /\ u # <<>> /\ Len(u) = 1 /\ u[1] = Head(u) /\ Head(u) = r
  BY Returning
<1>. HIDE DEF q, r, u
<1>3. Follows(q, Head(u))
  BY <1>1, <1>2 DEF Follows
<1>4. /\ <<q>> \o u \in Seq(Steps) /\ Chain(<<q>> \o u) /\ <<q>> \o u # <<>>
      /\ (<<q>> \o u)[Len(<<q>> \o u)] = u[Len(u)]
      /\ Head(<<q>> \o u) = q
      /\ \A i \in 1..Len(<<q>> \o u) :
            (<<q>> \o u)[i] = q \/ \E j \in 1..Len(u) : (<<q>> \o u)[i] = u[j]
  BY <1>1, <1>2, <1>3, PutFirst
<1>5. \A j \in 1..Len(u) : u[j] = r
  BY <1>2
<1>. QED  BY <1>1, <1>2, <1>4, <1>5 DEF q, r, u

-----------------------------------------------------------------------------
\* A call between two others: autocommit is as the application set it.
LEMMA Between ==
    ASSUME Always, todo = <<>>
    PROVE  /\ conn.auto = past.auto /\ Types /\ conn \in Conns
           /\ cursor \in [AllCursors -> CursorStates]
           /\ "run" \in AllCursors /\ "own" \in AllCursors /\ "list" \in AllCursors
<1>1. ~Step("wait for ever") /\ ~Ending("tpc")
  BY DEF Step, Ending
<1>2. conn.auto = past.auto
  BY <1>1 DEF Always
<1>3. Types
  BY DEF Always
<1>4. conn \in Conns /\ cursor \in [AllCursors -> CursorStates]
  BY <1>3 DEF Types
<1>5. "run" \in AllCursors /\ "own" \in AllCursors /\ "list" \in AllCursors
  BY DEF AllCursors
<1>. QED  BY <1>2, <1>3, <1>4, <1>5

\* A call of queries and a return that leaves names, and what was promised,
\* alone to begin with.
PlainOpening(steps) ==
    /\ \A i \in 1..Len(steps) : steps[i].do \notin {"prepared", "close", "closed"}
    /\ steps # <<>> =>
         /\ Head(steps).do = "return" => Head(steps).of = "rollback" /\ ~conn.inTx
         /\ Executes(Head(steps)) => conn.inTx \/ conn.auto
         /\ Head(steps).do = "query" /\ Head(steps).sql.k \in {"commit", "rollback"} =>
              (steps[Len(steps)].do = "return" => steps[Len(steps)].of # "tpc")

LEMMA PlainCallKeeps ==
    ASSUME ClientInv, NEW steps, Opens(steps), PlainOpening(steps), Call(steps),
           UNCHANGED <<cache, server>>,
           conn' \in Conns, conn'.open = conn.open, conn'.inTx = conn.inTx,
           conn'.nums = conn.nums, conn'.held = conn.held,
           cursor' \in [AllCursors -> CursorStates], OwnRows => OwnRows',
           conn'.auto = conn.auto \/ Ending("tpc")'
    PROVE  ClientInv'
<1>1. Always /\ todo = <<>> /\ conn.open /\ todo' = steps /\ past' = [past EXCEPT !.ended = None]
  BY DEF ClientInv, Call
<1>2. conn.auto = past.auto /\ Types
  BY <1>1, Between
<1>3. past'.auto = past.auto
  BY <1>1, <1>2 DEF Types, Pasts
<1>4. steps \in Seq(Steps) /\ Chain(steps)
  BY DEF Opens
<1>5. steps # <<>> => Head(steps).do \notin {"prepared", "close", "closed"}
  BY <1>4, FirstStep DEF PlainOpening
<1>6. ~Step("prepared")' /\ ~Step("closed")' /\ ~Step("close")'
  BY <1>1, <1>5 DEF Step
<1>7. /\ ~At("close")' /\ ~At("execute")' /\ ~At("commit")' /\ ~At("prepare")' /\ ~At("tpc")'
  BY <1>1 DEF PlainOpening, At, Step
<1>8. ~Elsewhere'
  <2>1. CASE Step("return")'
    <3>1. Len(steps) = 1 /\ steps[Len(steps)] = Head(steps) /\ Head(steps).of = "rollback"
      BY <1>1, <1>4, <2>1, ReturnIsLast DEF Step, PlainOpening
    <3>. QED  BY <1>1, <3>1 DEF Elsewhere, Ending
  <2>2. CASE ~Step("return")'
    BY <1>1, <2>2 DEF Elsewhere, Ending, Step, PlainOpening
  <2>. QED  BY <2>1, <2>2
<1>9. ASSUME InPlace PROVE NamesNow' /\ Begun' /\ Promises'
  <2>1. conn.inTx <=> server.status # "I"
    BY <1>1, <1>9 DEF InPlace, Talking
  <2>2. NamesNow'
    <3>1. \A i \in 1..Len(todo') : todo'[i].do # "close"
      BY <1>1 DEF PlainOpening
    <3>. QED  BY <1>1, <1>6, <1>7, <1>9, <3>1, CallNames DEF InPlace
  <2>3. Begun'
    <3>1. ASSUME todo' # <<>>, Executes(Head(todo')) PROVE past'.auto \/ server'.status # "I"
      BY <1>1, <1>2, <1>3, <2>1, <3>1 DEF PlainOpening
    <3>2. (todo # <<>> /\ Executes(Head(todo)))' => (past.auto \/ server.status # "I")'
      <4>. SUFFICES ASSUME (todo # <<>> /\ Executes(Head(todo)))'
                    PROVE  (past.auto \/ server.status # "I")'
        OBVIOUS
      <4>1. todo' # <<>> /\ Executes(Head(todo'))
        BY DEF Executes
      <4>. QED  BY <3>1, <4>1
    <3>. QED  BY <3>2 DEF Begun
  <2>4. At("rollback")' => server.status = "I"
    BY <1>1, <2>1 DEF PlainOpening, At, Step
  <2>5. Promises'
    BY <1>1, <1>2, <1>7, <1>8, <1>9, <2>4, CallPromises DEF InPlace
  <2>. QED  BY <2>2, <2>3, <2>5
<1>10. conn'.auto = past.auto \/ Ending("tpc")'
  BY <1>2
<1>. QED  BY <1>9, <1>10, CallKeeps

LEMMA CommitKeeps == ASSUME ClientInv, Commit PROVE ClientInv'
<1>. DEFINE q == [do |-> "query", c |-> "own", sql |-> SQL("commit")]
            r == [do |-> "return", of |-> "commit", sql |-> SQL("commit"), id |-> None]
            steps == Asks("own", SQL("commit")) \o Returns("commit", SQL("commit"), None)
<1>1. Call(steps) /\ UNCHANGED <<conn, cursor, cache, server>>
  BY DEF Commit
<1>2. todo = <<>> /\ Always
  BY <1>1 DEF ClientInv, Call
<1>3. /\ conn.auto = past.auto /\ Types /\ conn \in Conns
      /\ cursor \in [AllCursors -> CursorStates] /\ "own" \in AllCursors
  BY <1>2, Between
<1>4. SQL("commit") \in Sqls /\ SQL("commit").k = "commit"
  <2>1. "commit" \in Texts \ {"prepare"}
    BY DEF Texts
  <2>. QED  BY <2>1, NamedSqls
<1>5. r \in Steps
  BY <1>4 DEF Steps
<1>6. FollowsQuery(q, r)
  BY <1>4, PgClientAssumption DEF FollowsQuery
<1>7. /\ steps \in Seq(Steps) /\ Chain(steps) /\ steps # <<>>
      /\ Head(steps) = q /\ steps[Len(steps)] = r
      /\ \A i \in 1..Len(steps) : steps[i] = q \/ steps[i] = r
  BY <1>3, <1>4, <1>5, <1>6, AskAndReturn
<1>8. q.do = "query" /\ q.sql.k = "commit" /\ r.do = "return" /\ r.of = "commit"
  BY <1>4
<1>. HIDE DEF q, r, steps
<1>9. Opens(steps)
  BY <1>7, <1>8 DEF Opens, KeptFor
<1>10. ~Executes(Head(steps))
  BY <1>7, <1>8, PgClientAssumption DEF Executes
<1>11. PlainOpening(steps)
  BY <1>7, <1>8, <1>10 DEF PlainOpening
<1>12. OwnRows => OwnRows'
  BY <1>1 DEF OwnRows
<1>. QED  BY <1>1, <1>3, <1>9, <1>11, <1>12, PlainCallKeeps

LEMMA RollbackKeeps == ASSUME ClientInv, Rollback PROVE ClientInv'
<1>. DEFINE q == [do |-> "query", c |-> "own", sql |-> SQL("rollback")]
            r == [do |-> "return", of |-> "rollback", sql |-> SQL("rollback"), id |-> None]
            u == Returns("rollback", SQL("rollback"), None)
            w == Asks("own", SQL("rollback")) \o u
            steps == (IF conn.inTx THEN Asks("own", SQL("rollback")) ELSE <<>>) \o u
<1>1. Call(steps) /\ UNCHANGED <<conn, cursor, cache, server>>
  BY DEF Rollback
<1>2. todo = <<>> /\ Always
  BY <1>1 DEF ClientInv, Call
<1>3. /\ conn.auto = past.auto /\ Types /\ conn \in Conns
      /\ cursor \in [AllCursors -> CursorStates] /\ "own" \in AllCursors
  BY <1>2, Between
<1>4. SQL("rollback") \in Sqls /\ SQL("rollback").k = "rollback"
  <2>1. "rollback" \in Texts \ {"prepare"}
    BY DEF Texts
  <2>. QED  BY <2>1, NamedSqls
<1>5. r \in Steps
  BY <1>4 DEF Steps
<1>6. FollowsQuery(q, r)
  BY <1>4, PgClientAssumption DEF FollowsQuery
<1>7. /\ w \in Seq(Steps) /\ Chain(w) /\ w # <<>> /\ Head(w) = q /\ w[Len(w)] = r
      /\ \A i \in 1..Len(w) : w[i] = q \/ w[i] = r
  BY <1>3, <1>4, <1>5, <1>6, AskAndReturn
<1>8. u \in Seq(Steps) /\ Chain(u) /\ u # <<>> /\ Len(u) = 1 /\ u[1] = Head(u) /\ Head(u) = r
  BY <1>5, Returning
<1>9. q.do = "query" /\ q.sql.k = "rollback" /\ r.do = "return" /\ r.of = "rollback"
  BY <1>4
<1>10. IF conn.inTx THEN steps = w ELSE steps = u
  <2>1. <<>> \o u = u
    BY <1>8, ConcatEmptySeq
  <2>. QED  BY <2>1
<1>. HIDE DEF q, r, u, w, steps
<1>11. Opens(steps) /\ PlainOpening(steps)
  <2>1. CASE conn.inTx
    <3>1. steps = w /\ ~Executes(Head(w))
      BY <1>7, <1>9, <1>10, <2>1, PgClientAssumption DEF Executes
    <3>2. Opens(steps)
      BY <1>7, <1>9, <3>1 DEF Opens, KeptFor
    <3>. QED  BY <1>7, <1>9, <3>1, <3>2 DEF PlainOpening
  <2>2. CASE ~conn.inTx
    <3>1. steps = u /\ ~Executes(Head(u))
      BY <1>8, <1>9, <1>10, <2>2 DEF Executes
    <3>2. \A i \in 1..Len(u) : u[i] = r
      BY <1>8
    <3>3. Opens(steps)
      BY <1>8, <1>9, <3>1, <3>2 DEF Opens, KeptFor
    <3>. QED  BY <1>8, <1>9, <2>2, <3>1, <3>2, <3>3 DEF PlainOpening
  <2>. QED  BY <2>1, <2>2
<1>12. OwnRows => OwnRows'
  BY <1>1 DEF OwnRows
<1>. QED  BY <1>1, <1>3, <1>11, <1>12, PlainCallKeeps

LEMMA TpcBeginKeeps ==
    ASSUME ClientInv, NEW gid \in Gids, NEW form \in Forms, TpcBegin(gid, form)
    PROVE  ClientInv'
<1>. DEFINE q == [do |-> "query", c |-> "own", sql |-> SQL("begin")]
            steps == IF conn.auto THEN Asks("own", SQL("begin")) ELSE <<>>
            xid == [gid |-> gid, form |-> form]
<1>1. Call(steps) /\ conn' = [conn EXCEPT !.xid = xid] /\ UNCHANGED <<cursor, cache, server>>
  BY DEF TpcBegin
<1>2. todo = <<>> /\ Always
  BY <1>1 DEF ClientInv, Call
<1>3. /\ conn.auto = past.auto /\ Types /\ conn \in Conns
      /\ cursor \in [AllCursors -> CursorStates] /\ "own" \in AllCursors
  BY <1>2, Between
<1>4. SQL("begin") \in Sqls /\ SQL("begin").k = "begin"
  <2>1. "begin" \in Texts \ {"prepare"}
    BY DEF Texts
  <2>. QED  BY <2>1, NamedSqls
<1>5. Asks("own", SQL("begin")) = <<q>> /\ q \in Steps /\ q.do = "query" /\ q.sql.k = "begin"
  BY <1>3, <1>4, Asking
<1>6. steps = <<q>> \/ steps = <<>>
  BY <1>5
<1>7. xid \in Xids
  BY DEF Xids
<1>. HIDE DEF q, steps, xid
<1>8. /\ conn' \in Conns /\ conn'.open = conn.open /\ conn'.inTx = conn.inTx
      /\ conn'.nums = conn.nums /\ conn'.held = conn.held /\ conn'.auto = conn.auto
  BY <1>1, <1>3, <1>7 DEF Conns
<1>9. Opens(steps) /\ PlainOpening(steps)
  <2>1. CASE steps = <<>>
    <3>1. \A i \in 1..Len(steps) : FALSE
      BY <2>1
    <3>. QED  BY <2>1, <3>1, NoSteps DEF Opens, PlainOpening
  <2>2. CASE steps = <<q>>
    <3>1. Ends(q) /\ ~Executes(q)
      BY <1>5, PgClientAssumption DEF Ends, Executes
    <3>2. /\ steps \in Seq(Steps) /\ steps # <<>> /\ Len(steps) = 1 /\ steps[1] = q
          /\ Head(steps) = q /\ Chain(steps)
      BY <1>5, <2>2, <3>1, OneStep
    <3>3. \A i \in 1..Len(steps) : steps[i] = q
      BY <3>2
    <3>. QED  BY <1>5, <3>1, <3>2, <3>3 DEF Opens, PlainOpening, KeptFor
  <2>. QED  BY <1>6, <2>1, <2>2
<1>10. OwnRows => OwnRows'
  BY <1>1 DEF OwnRows
<1>. QED  BY <1>1, <1>3, <1>8, <1>9, <1>10, PlainCallKeeps

LEMMA TpcPrepareKeeps == ASSUME ClientInv, TpcPrepare PROVE ClientInv'
<1>. DEFINE g == conn.xid.gid
            sql == On("prepare", g)
            q == [do |-> "query", c |-> "own", sql |-> sql]
            r == [do |-> "return", of |-> "prepare", sql |-> SQL("none"), id |-> g]
            steps == Asks("own", sql) \o Returns("prepare", SQL("none"), g)
<1>1. Call(steps) /\ conn.xid # None /\ UNCHANGED <<conn, cursor, cache, server>>
  BY DEF TpcPrepare
<1>2. todo = <<>> /\ Always
  BY <1>1 DEF ClientInv, Call
<1>3. /\ conn.auto = past.auto /\ Types /\ conn \in Conns
      /\ cursor \in [AllCursors -> CursorStates] /\ "own" \in AllCursors
  BY <1>2, Between
<1>4. g \in Gids
  BY <1>1, <1>3 DEF Conns, Xids
<1>. HIDE DEF g
<1>5. sql \in Sqls /\ sql.k = "prepare" /\ sql.g = g /\ SQL("none") \in Sqls
  BY <1>4, NamedSqls DEF Texts
<1>. HIDE DEF sql
<1>6. r \in Steps
  BY <1>4, <1>5 DEF Steps
<1>7. FollowsQuery(q, r)
  BY <1>5, PgClientAssumption DEF FollowsQuery
<1>8. /\ steps \in Seq(Steps) /\ Chain(steps) /\ steps # <<>>
      /\ Head(steps) = q /\ steps[Len(steps)] = r
      /\ \A i \in 1..Len(steps) : steps[i] = q \/ steps[i] = r
  BY <1>3, <1>5, <1>6, <1>7, AskAndReturn
<1>9. q.do = "query" /\ q.sql.k = "prepare" /\ r.do = "return" /\ r.of = "prepare"
  BY <1>5
<1>. HIDE DEF q, r, steps
<1>10. Opens(steps)
  BY <1>8, <1>9 DEF Opens, KeptFor
<1>11. ~Executes(Head(steps))
  BY <1>8, <1>9, PgClientAssumption DEF Executes
<1>12. PlainOpening(steps)
  BY <1>8, <1>9, <1>11 DEF PlainOpening
<1>13. OwnRows => OwnRows'
  BY <1>1 DEF OwnRows
<1>. QED  BY <1>1, <1>3, <1>10, <1>12, <1>13, PlainCallKeeps

LEMMA TpcKeeps ==
    ASSUME ClientInv, NEW method \in {"commit", "rollback"}, NEW xid \in Xids, Tpc(method, xid)
    PROVE  ClientInv'
<1>. DEFINE g == xid.gid
            q == [do |-> "query", c |-> "list", sql |-> SQL("list")]
            s == [do |-> "choose", of |-> method, xid |-> xid]
            r == [do |-> "return", of |-> "tpc", sql |-> SQL(method), id |-> g]
            u == Returns("tpc", SQL(method), g)
            v == <<s>> \o u
            w == <<q>> \o v
            steps == Asks("list", SQL("list")) \o <<s>> \o u
<1>1. /\ Call(steps) /\ conn' = [conn EXCEPT !.auto = TRUE]
      /\ cursor' = [cursor EXCEPT !["list"] = NewCursor] /\ UNCHANGED <<cache, server>>
  BY DEF Tpc
<1>2. todo = <<>> /\ Always
  BY <1>1 DEF ClientInv, Call
<1>3. /\ conn.auto = past.auto /\ Types /\ conn \in Conns
      /\ cursor \in [AllCursors -> CursorStates] /\ "list" \in AllCursors
  BY <1>2, Between
<1>4. g \in Gids
  BY DEF Xids
<1>5. SQL("list") \in Sqls /\ SQL("list").k = "list" /\ SQL(method) \in Sqls /\ SQL(method).k = method
  <2>1. "list" \in Texts \ {"prepare"} /\ method \in Texts \ {"prepare"}
    BY DEF Texts
  <2>. QED  BY <2>1, NamedSqls
<1>6. r \in Steps
  BY <1>4, <1>5 DEF Steps
<1>7. s \in Steps
  BY DEF Steps
<1>8. u \in Seq(Steps) /\ Chain(u) /\ u # <<>> /\ Len(u) = 1 /\ u[1] = Head(u) /\ Head(u) = r
  BY <1>6, Returning
<1>9. Asks("list", SQL("list")) = <<q>> /\ q \in Steps
  BY <1>3, <1>5, Asking
<1>10. /\ q.do = "query" /\ q.c = "list" /\ q.sql.k = "list"
       /\ s.do = "choose" /\ s.of = method /\ s.xid.gid = g
       /\ r.do = "return" /\ r.of = "tpc" /\ r.sql = SQL(method) /\ r.id = g
  BY <1>5
<1>. HIDE DEF g, q, s, r, u
<1>11. Follows(s, Head(u))
  BY <1>8, <1>10 DEF Follows
<1>12. /\ v \in Seq(Steps) /\ Chain(v) /\ v # <<>> /\ v[Len(v)] = u[Len(u)] /\ Head(v) = s
       /\ \A i \in 1..Len(v) : v[i] = s \/ \E j \in 1..Len(u) : v[i] = u[j]
  BY <1>7, <1>8, <1>11, PutFirst
<1>13. steps = w
  <2>1. <<q>> \in Seq(Steps) /\ <<s>> \in Seq(Steps)
    BY <1>7, <1>9
  <2>2. (<<q>> \o <<s>>) \o u = <<q>> \o (<<s>> \o u)
    BY <1>8, <2>1, ConcatAssociative
  <2>. QED  BY <1>9, <2>2
<1>. HIDE DEF v
<1>14. Follows(q, Head(v))
  <2>1. FollowsQuery(q, s)
    BY <1>10, PgClientAssumption DEF FollowsQuery
  <2>. QED  BY <1>10, <1>12, <2>1 DEF Follows
<1>15. /\ w \in Seq(Steps) /\ Chain(w) /\ w # <<>> /\ w[Len(w)] = v[Len(v)] /\ Head(w) = q
       /\ \A i \in 1..Len(w) : w[i] = q \/ \E j \in 1..Len(v) : w[i] = v[j]
  BY <1>9, <1>12, <1>14, PutFirst
<1>. HIDE DEF w
<1>16. \A i \in 1..Len(w) : w[i] = q \/ w[i] = s \/ w[i] = r
  <2>1. \A j \in 1..Len(u) : u[j] = r
    BY <1>8
  <2>2. \A j \in 1..Len(v) : v[j] = s \/ v[j] = r
    BY <1>12, <2>1
  <2>. QED  BY <1>15, <2>2
<1>17. w[Len(w)] = r
  BY <1>8, <1>12, <1>15
<1>. HIDE DEF steps
<1>18. Opens(steps)
  BY <1>10, <1>13, <1>15, <1>16 DEF Opens, KeptFor
<1>19. ~Executes(Head(steps))
  BY <1>10, <1>13, <1>15, PgClientAssumption DEF Executes
<1>20. PlainOpening(steps)
  BY <1>10, <1>13, <1>15, <1>16, <1>19 DEF PlainOpening
<1>21. /\ conn' \in Conns /\ conn'.open = conn.open /\ conn'.inTx = conn.inTx
       /\ conn'.nums = conn.nums /\ conn'.held = conn.held
  BY <1>1, <1>3 DEF Conns
<1>22. NewCursor \in CursorStates /\ OwnState(NewCursor)
  <2>1. NewCursor \in CursorStates
    BY DEF NewCursor, CursorStates, Descs
  <2>2. None # "other"
    BY PgClientAssumption
  <2>3. NewCursor.rows = <<>> /\ NewCursor.desc = None /\ NewCursor.count = None
    BY DEF NewCursor
  <2>4. \A i \in 1..Len(NewCursor.rows) : FALSE
    BY <2>3
  <2>. QED  BY <2>1, <2>2, <2>3, <2>4 DEF OwnState
<1>23. cursor' \in [AllCursors -> CursorStates] /\ (OwnRows => OwnRows')
  <2>1. cursor' \in [AllCursors -> CursorStates]
    BY <1>1, <1>3, <1>22
  <2>2. ASSUME OwnRows, NEW c \in AllCursors PROVE OwnState(cursor'[c])
    <3>1. CASE c = "list"
      BY <1>1, <1>3, <1>22, <3>1
    <3>2. CASE c # "list"
      BY <1>1, <1>3, <2>2, <3>2 DEF OwnRows, OwnState
    <3>. QED  BY <3>1, <3>2
  <2>3. OwnRows => \A c \in AllCursors : OwnState(cursor'[c])
    BY <2>2
  <2>. QED  BY <2>1, <2>3 DEF OwnRows, OwnState
<1>24. Ending("tpc")'
  <2>1. todo' = w
    BY <1>1, <1>13 DEF Call
  <2>. QED  BY <1>10, <1>15, <1>17, <2>1 DEF Ending
<1>. QED  BY <1>1, <1>18, <1>20, <1>21, <1>23, <1>24, PlainCallKeeps

-----------------------------------------------------------------------------
LEMMA KindSql ==
    ASSUME NEW p \in Statements
    PROVE  SQL(KindOf[p]) \in Sqls /\ SQL(KindOf[p]).k = KindOf[p]
           /\ KindOf[p] \in {"select", "update", "failing"}
<1>1. KindOf[p] \in {"select", "update", "failing"}
  BY PgClientAssumption
<1>2. KindOf[p] \in Texts \ {"prepare"}
  BY <1>1 DEF Texts
<1>. QED  BY <1>1, <1>2, NamedSqls

\* A call that is one step, then the return, after a begin or not.
LEMMA RunPreparedKeeps ==
    ASSUME ClientInv, NEW p \in Statements, NEW o \in Oids, RunPrepared(p, o)
    PROVE  ClientInv'
<1>. DEFINE sql == SQL(KindOf[p])
            run == [do |-> "run", p |-> p, o |-> o, n |-> 0]
            prep == [run EXCEPT !.do = "prepare"]
            u == Returns("execute", sql, None)
            r == [do |-> "return", of |-> "execute", sql |-> sql, id |-> None]
            s == IF o \in DOMAIN cache[p] THEN run ELSE prep
            t == <<s>> \o u
            steps == (IF o \in DOMAIN cache[p] THEN BeginOn("run") \o <<run>> ELSE <<prep>>) \o u
<1>1. Call(steps) /\ cache[p] # None /\ UNCHANGED <<conn, cursor, cache, server>>
  BY DEF RunPrepared
<1>2. todo = <<>> /\ Always
  BY <1>1 DEF ClientInv, Call
<1>3. /\ conn.auto = past.auto /\ Types /\ conn \in Conns
      /\ cursor \in [AllCursors -> CursorStates] /\ "run" \in AllCursors
  BY <1>2, Between
<1>4. sql \in Sqls
  BY KindSql
<1>5. r \in Steps
  BY <1>4 DEF Steps
<1>6. /\ run \in Steps /\ prep \in Steps
      /\ run.do = "run" /\ prep.do = "prepare" /\ run.p = p /\ prep.p = p /\ run.o = o
  BY DEF Steps
<1>7. /\ s \in Steps /\ s.p = p /\ s.do \in {"run", "prepare"}
      /\ s.do = "run" => s.o = o /\ o \in DOMAIN cache[p]
  BY <1>6
<1>8. /\ u \in Seq(Steps) /\ Chain(u) /\ u # <<>> /\ Len(u) = 1 /\ u[1] = Head(u) /\ Head(u) = r
  BY <1>5, Returning
<1>9. r.do = "return" /\ r.of = "execute" /\ r.sql = SQL(KindOf[p])
  OBVIOUS
<1>10. steps = IF s.do = "run" THEN BeginOn("run") \o t ELSE t
  <2>1. <<run>> \in Seq(Steps) /\ u \in Seq(Steps)
    BY <1>6, <1>8
  <2>. HIDE DEF run, prep, u
  <2>2. BeginOn("run") \o <<run>> \o u = BeginOn("run") \o (<<run>> \o u)
    BY <1>3, <2>1, BeginsFirst
  <2>. QED  BY <1>6, <2>2
<1>. HIDE DEF run, prep, u, s, r, steps
<1>11. Follows(s, Head(u))
  BY <1>7, <1>8, <1>9 DEF Follows
<1>12. /\ t \in Seq(Steps) /\ Chain(t) /\ t # <<>> /\ t[Len(t)] = u[Len(u)] /\ Head(t) = s
       /\ \A i \in 1..Len(t) : t[i] = s \/ \E j \in 1..Len(u) : t[i] = u[j]
  BY <1>7, <1>8, <1>11, PutFirst
<1>. HIDE DEF t
<1>13. \A i \in 1..Len(t) : t[i] = s \/ t[i] = r
  <2>1. \A j \in 1..Len(u) : u[j] = r
    BY <1>8
  <2>. QED  BY <1>12, <2>1
<1>14. /\ steps \in Seq(Steps) /\ Chain(steps) /\ steps # <<>> /\ steps[Len(steps)] = r
       /\ \/ Head(steps) = s /\ (s.do = "run" => conn.inTx \/ conn.auto)
          \/ IsBegin(Head(steps))
       /\ \A i \in 1..Len(steps) : IsBegin(steps[i]) \/ steps[i] = s \/ steps[i] = r
  <2>1. t[Len(t)] = r
    BY <1>8, <1>12
  <2>2. CASE s.do = "run"
    <3>1. Executes(Head(t)) /\ Head(t).do \notin {"describe", "execute"}
      BY <1>12, <2>2 DEF Executes
    <3>. DEFINE w == BeginOn("run") \o t
    <3>2. /\ w \in Seq(Steps) /\ Chain(w) /\ w # <<>>
          /\ w[Len(w)] = t[Len(t)]
          /\ (Head(w) = Head(t) /\ (conn.inTx \/ conn.auto)) \/ IsBegin(Head(w))
          /\ \A i \in 1..Len(w) : IsBegin(w[i]) \/ \E j \in 1..Len(t) : w[i] = t[j]
      BY <1>3, <1>12, <3>1, Beginning
    <3>3. steps = w
      BY <1>10, <2>2
    <3>. HIDE DEF w
    <3>. QED  BY <1>12, <1>13, <2>1, <3>2, <3>3
  <2>3. CASE s.do # "run"
    BY <1>10, <1>12, <1>13, <2>1, <2>3
  <2>. QED  BY <2>2, <2>3
<1>15. Opens(steps)
  <2>1. KeptFor(s) /\ KeptFor(r)
    BY <1>1, <1>7, <1>9 DEF KeptFor
  <2>2. \A i \in 1..Len(steps) : KeptFor(steps[i])
    <3>1. \A i \in 1..Len(steps) : IsBegin(steps[i]) => KeptFor(steps[i])
      BY DEF IsBegin, KeptFor
    <3>. QED  BY <1>14, <2>1, <3>1
  <2>3. Head(steps).do \in {"query", "run", "prepare"}
    BY <1>7, <1>14 DEF IsBegin
  <2>. QED  BY <1>14, <2>2, <2>3 DEF Opens
<1>16. PlainOpening(steps)
  <2>1. \A i \in 1..Len(steps) : steps[i].do \notin {"prepared", "close", "closed"}
    BY <1>7, <1>9, <1>14 DEF IsBegin
  <2>2. /\ Head(steps).do # "return"
        /\ Executes(Head(steps)) => conn.inTx \/ conn.auto
    <3>1. "begin" \notin Operations
      BY PgClientAssumption
    <3>. QED  BY <1>7, <1>14, <3>1 DEF IsBegin, Executes
  <2>. QED  BY <1>9, <1>14, <2>1, <2>2 DEF PlainOpening
<1>17. OwnRows => OwnRows'
  BY <1>1 DEF OwnRows
<1>. QED  BY <1>1, <1>3, <1>15, <1>16, <1>17, PlainCallKeeps

LEMMA UpToThree ==
    /\ \A n \in Nat : 1..n = 1..3 => n = 3
    /\ \A i \in 1..2 : i = 1 \/ i = 2
    /\ \A i : (i = 1 => i + 1 = 2) /\ (i = 2 => i + 1 = 3)
<1>1. ASSUME NEW n \in Nat, 1..n = 1..3 PROVE n = 3
  <2>1. 3 \in 1..n /\ (n = 0 \/ n \in 1..3)
    <3>1. 3 \in 1..3 /\ (n = 0 \/ n \in 1..n)
      OBVIOUS
    <3>. QED  BY <1>1, <3>1
  <2>. QED  BY <2>1
<1>2. \A i \in 1..2 : i = 1 \/ i = 2
  OBVIOUS
<1>3. \A i : (i = 1 => i + 1 = 2) /\ (i = 2 => i + 1 = 3)
  OBVIOUS
<1>. QED  BY <1>1, <1>2, <1>3

LEMMA ThreeAsks ==
    ASSUME NEW c \in AllCursors, NEW sql \in Asked, NEW stream \in BOOLEAN
    PROVE  LET b == AsksInThree(c, sql, stream)
           IN /\ b \in Seq(Steps) /\ Len(b) = 3 /\ Linked(b) /\ b # <<>>
              /\ Head(b).do = "parse" /\ b[3].do = "execute" /\ b[3].sql = sql
              /\ \A i \in 1..Len(b) : b[i].do \in {"parse", "describe", "execute"}
<1>. DEFINE b == AsksInThree(c, sql, stream)
            S == [do : {"parse", "describe", "execute"}, c : AllCursors, sql : Asked,
                  stream : BOOLEAN]
<1>1. /\ DOMAIN b = 1..3
      /\ b[1] = [do |-> "parse", c |-> c, sql |-> sql, stream |-> stream]
      /\ b[2] = [do |-> "describe", c |-> c, sql |-> sql, stream |-> stream]
      /\ b[3] = [do |-> "execute", c |-> c, sql |-> sql, stream |-> stream]
      /\ b = [i \in 1..3 |-> b[i]]
  BY DEF AsksInThree
<1>2. b[1] \in S /\ b[2] \in S /\ b[3] \in S
  BY <1>1
<1>3. S \subseteq Steps
  BY DEF Steps
<1>4. /\ b[1].do = "parse" /\ b[2].do = "describe" /\ b[3].do = "execute"
      /\ b[1].sql = sql /\ b[2].sql = sql /\ b[3].sql = sql
  BY <1>1
<1>. HIDE DEF b, S
<1>5. \A i \in 1..3 : i = 1 \/ i = 2 \/ i = 3
  OBVIOUS
<1>6. \A i \in 1..3 : b[i] \in Steps
  BY <1>2, <1>3, <1>5
<1>7. b \in [1..3 -> Steps]
  BY <1>1, <1>6
<1>8. b \in Seq(Steps) /\ Len(b) = 3
  <2>1. b \in Seq(Steps)
    <3>. DEFINE n == 3
    <3>1. n \in Nat /\ b \in [1..n -> Steps]
      BY <1>7
    <3>. HIDE DEF n
    <3>. QED  BY <3>1, SeqDef
  <2>2. Len(b) \in Nat /\ DOMAIN b = 1..Len(b)
    BY <2>1, LenProperties
  <2>3. 1..Len(b) = 1..3
    BY <1>1, <2>2
  <2>. QED  BY <2>1, <2>2, <2>3, UpToThree
<1>9. Linked(b)
  <2>1. Follows(b[1], b[2]) /\ Follows(b[2], b[3])
    BY <1>4 DEF Follows
  <2>2. Len(b) - 1 = 2
    BY <1>8
  <2>3. \A i \in 1..2 : Follows(b[i], b[i + 1])
    BY <2>1, UpToThree
  <2>. QED  BY <2>2, <2>3 DEF Linked
<1>10. b # <<>> /\ Head(b) = b[1]
  BY <1>8
<1>. QED  BY <1>4, <1>5, <1>8, <1>9, <1>10 DEF b

-----------------------------------------------------------------------------
\* The exchanges that execute a statement of the application.
Body(b, sql) ==
    /\ b \in Seq(Steps) /\ Linked(b) /\ b # <<>>
    /\ Executes(Head(b)) /\ Head(b).do \in {"query", "parse"}
    /\ \A r : r.do = "return" /\ r.of = "execute" /\ r.sql = sql => Follows(b[Len(b)], r)
    /\ \A i \in 1..Len(b) : b[i].do \in {"query", "parse", "describe", "execute"}

LEMMA AsksAreBody ==
    ASSUME NEW c \in AllCursors, NEW sql \in Asked, NEW stream \in BOOLEAN
    PROVE  Body(Asks(c, sql), sql) /\ Body(AsksInThree(c, sql, stream), sql)
<1>1. Body(Asks(c, sql), sql)
  <2>. DEFINE q == [do |-> "query", c |-> c, sql |-> sql]
  <2>1. sql \in Sqls /\ sql.k \in Operations
    BY AskedSqls
  <2>2. Asks(c, sql) = <<q>> /\ q \in Steps /\ q.do = "query" /\ q.sql = sql
    BY <2>1, Asking
  <2>. HIDE DEF q
  <2>3. /\ <<q>> \in Seq(Steps) /\ Linked(<<q>>) /\ <<q>> # <<>>
        /\ Len(<<q>>) = 1 /\ <<q>>[1] = q /\ Head(<<q>>) = q
    BY <2>2, OneStep
  <2>. DEFINE b == <<q>>
  <2>4. /\ b \in Seq(Steps) /\ Linked(b) /\ b # <<>> /\ Len(b) = 1 /\ b[1] = q /\ Head(b) = q
    BY <2>3
  <2>. HIDE DEF b
  <2>5. Executes(q)
    BY <2>1, <2>2 DEF Executes
  <2>6. ASSUME NEW r, r.do = "return", r.of = "execute", r.sql = sql PROVE Follows(q, r)
    <3>1. FollowsQuery(q, r)
      BY <2>1, <2>2, <2>6, PgClientAssumption DEF FollowsQuery
    <3>. QED  BY <2>2, <3>1 DEF Follows
  <2>7. \A i \in 1..Len(b) : b[i] = q
    BY <2>4
  <2>8. Body(b, sql)
    BY <2>2, <2>4, <2>5, <2>6, <2>7 DEF Body
  <2>. QED  BY <2>2, <2>8 DEF b
<1>2. Body(AsksInThree(c, sql, stream), sql)
  <2>. DEFINE b == AsksInThree(c, sql, stream)
  <2>1. /\ b \in Seq(Steps) /\ Len(b) = 3 /\ Linked(b) /\ b # <<>>
        /\ Head(b).do = "parse" /\ b[3].do = "execute" /\ b[3].sql = sql
        /\ \A i \in 1..Len(b) : b[i].do \in {"parse", "describe", "execute"}
    BY ThreeAsks
  <2>. HIDE DEF b
  <2>2. Executes(Head(b))
    BY <2>1 DEF Executes
  <2>3. ASSUME NEW r, r.do = "return", r.of = "execute", r.sql = sql PROVE Follows(b[Len(b)], r)
    BY <2>1, <2>3 DEF Follows
  <2>4. Body(b, sql)
    BY <2>1, <2>2, <2>3 DEF Body
  <2>. QED  BY <2>4 DEF b
<1>. QED  BY <1>1, <1>2

LEMMA ExecuteKeeps ==
    ASSUME ClientInv, NEW c \in Cursors, NEW k \in Operations, NEW params \in BOOLEAN,
           NEW stream \in BOOLEAN, Execute(c, SQL(k), params, stream)
    PROVE  ClientInv'
<1>. DEFINE sql == SQL(k)
            body == IF params \/ stream THEN AsksInThree(c, sql, stream) ELSE Asks(c, sql)
            r == [do |-> "return", of |-> "execute", sql |-> sql, id |-> None]
            u == Returns("execute", sql, None)
            t == body \o u
            w == BeginOn(c) \o t
            steps == BeginOn(c) \o body \o u
<1>1. Call(steps) /\ UNCHANGED <<conn, cursor, cache, server>>
  BY DEF Execute
<1>2. todo = <<>> /\ Always
  BY <1>1 DEF ClientInv, Call
<1>3. /\ conn.auto = past.auto /\ Types /\ conn \in Conns
      /\ cursor \in [AllCursors -> CursorStates]
  BY <1>2, Between
<1>4. c \in AllCursors
  BY DEF AllCursors
<1>5. sql \in Asked /\ sql \in Sqls
  <2>1. sql \in Asked
    BY DEF Asked
  <2>. QED  BY <2>1, AskedSqls
<1>6. Body(body, sql)
  BY <1>4, <1>5, AsksAreBody
<1>7. r \in Steps
  BY <1>5 DEF Steps
<1>8. u \in Seq(Steps) /\ Chain(u) /\ u # <<>> /\ Len(u) = 1 /\ u[1] = Head(u) /\ Head(u) = r
  BY <1>7, Returning
<1>9. r.do = "return" /\ r.of = "execute" /\ r.sql = sql
  OBVIOUS
<1>. HIDE DEF sql, body, r, u
<1>10. /\ body \in Seq(Steps) /\ Linked(body) /\ body # <<>>
       /\ Executes(Head(body)) /\ Head(body).do \in {"query", "parse"}
       /\ Follows(body[Len(body)], Head(u))
       /\ \A i \in 1..Len(body) : body[i].do \in {"query", "parse", "describe", "execute"}
  BY <1>6, <1>8, <1>9 DEF Body
<1>11. steps = w
  BY <1>4, <1>8, <1>10, BeginsFirst
<1>12. /\ t \in Seq(Steps) /\ Chain(t) /\ t # <<>> /\ t[Len(t)] = u[Len(u)]
       /\ Head(t) = IF body = <<>> THEN Head(u) ELSE Head(body)
       /\ \A i \in 1..Len(t) : \/ \E j \in 1..Len(body) : t[i] = body[j]
                               \/ \E j \in 1..Len(u) : t[i] = u[j]
  BY <1>8, <1>10, JoinedSteps
<1>. HIDE DEF t
<1>13. Head(t) = Head(body) /\ t[Len(t)] = r
  BY <1>8, <1>10, <1>12
<1>14. \A i \in 1..Len(t) : t[i].do \in {"query", "parse", "describe", "execute"} \/ t[i] = r
  <2>1. \A j \in 1..Len(u) : u[j] = r
    BY <1>8
  <2>. QED  BY <1>10, <1>12, <2>1
<1>15. /\ w \in Seq(Steps) /\ Chain(w) /\ w # <<>> /\ w[Len(w)] = t[Len(t)]
       /\ (Head(w) = Head(t) /\ (conn.inTx \/ conn.auto)) \/ IsBegin(Head(w))
       /\ \A i \in 1..Len(w) : IsBegin(w[i]) \/ \E j \in 1..Len(t) : w[i] = t[j]
  BY <1>4, <1>10, <1>12, <1>13, Beginning
<1>. HIDE DEF w, steps
<1>16. \A i \in 1..Len(w) : w[i].do \in {"query", "parse", "describe", "execute"} \/ w[i] = r
  BY <1>14, <1>15 DEF IsBegin
<1>17. Opens(w)
  <2>1. \A i \in 1..Len(w) : KeptFor(w[i])
    BY <1>9, <1>16 DEF KeptFor
  <2>2. Head(w).do \in {"query", "parse"}
    BY <1>10, <1>13, <1>15 DEF IsBegin
  <2>. QED  BY <1>15, <2>1, <2>2 DEF Opens
<1>18. PlainOpening(w)
  <2>1. \A i \in 1..Len(w) : w[i].do \notin {"prepared", "close", "closed"}
    BY <1>9, <1>16
  <2>2. Head(w).do # "return" /\ (Executes(Head(w)) => conn.inTx \/ conn.auto)
    <3>1. "begin" \notin Operations
      BY PgClientAssumption
    <3>. QED  BY <1>10, <1>13, <1>15, <3>1 DEF IsBegin, Executes
  <2>. QED  BY <1>9, <1>13, <1>15, <2>1, <2>2 DEF PlainOpening
<1>19. OwnRows => OwnRows'
  BY <1>1 DEF OwnRows
<1>20. Call(w)
  BY <1>1, <1>11
<1>. QED  BY <1>1, <1>3, <1>17, <1>18, <1>19, <1>20, PlainCallKeeps

-----------------------------------------------------------------------------
LEMMA ClosePreparedKeeps ==
    ASSUME ClientInv, NEW p \in Statements, ClosePrepared(p)
    PROVE  ClientInv'
<1>. DEFINE S == {cache[p][o].n : o \in DOMAIN cache[p]}
            names == SetToSeq(S)
            b == [i \in DOMAIN names |-> [do |-> "close", n |-> names[i]]]
            r == [do |-> "return", of |-> "close", sql |-> SQL("none"), id |-> p]
            u == Returns("close", SQL("none"), p)
            t == b \o u
<1>1. Call(t) /\ cache[p] # None /\ UNCHANGED <<conn, cursor, cache, server>>
  BY DEF ClosePrepared
<1>2. /\ todo = <<>> /\ Always /\ todo' = t /\ conn.open
      /\ past' = [past EXCEPT !.ended = None]
  <2>1. todo = <<>> /\ todo' = t /\ conn.open /\ past' = [past EXCEPT !.ended = None]
    BY <1>1 DEF Call
  <2>. QED  BY <2>1 DEF ClientInv
<1>3. /\ conn.auto = past.auto /\ Types /\ conn \in Conns
      /\ cursor \in [AllCursors -> CursorStates]
  BY <1>2, Between
<1>4. IsFiniteSet(S) /\ S \subseteq Nat
  <2>1. cache[p] \in Cached
    BY <1>1, <1>3 DEF Types
  <2>. DEFINE D == DOMAIN cache[p]
              f == [o \in D |-> cache[p][o].n]
  <2>2. IsFiniteSet(D) /\ cache[p] \in [D -> Entry]
    BY <2>1, InPartials DEF Cached
  <2>3. \A o \in D : cache[p][o].n \in Nat
    BY <2>2 DEF Entry
  <2>4. f \in Surjection(D, S)
    BY DEF Surjection
  <2>. HIDE DEF f, D
  <2>5. IsFiniteSet(S)
    BY <2>2, <2>4, FS_Surjection
  <2>. QED  BY <2>3, <2>5 DEF D
<1>5. \A x \in S : \E o \in DOMAIN cache[p] : cache[p][o].n = x
  OBVIOUS
<1>. HIDE DEF S
<1>. DEFINE m == Cardinality(S)
<1>6. m \in Nat /\ names \in [1..m -> S] /\ DOMAIN names = 1..m
  BY <1>4, Listing
<1>. HIDE DEF names, m
<1>7. \A i \in 1..m : b[i] \in Steps /\ b[i].do = "close" /\ b[i].n \in S
  BY <1>4, <1>6 DEF Steps
<1>8. b \in [1..m -> Steps]
  BY <1>6, <1>7
<1>. HIDE DEF b
<1>9. b \in Seq(Steps) /\ Len(b) = m
  BY <1>6, <1>8, SeqDef, LenProperties
<1>10. SQL("none") \in Sqls
  <2>1. "none" \in Texts \ {"prepare"}
    BY DEF Texts
  <2>. QED  BY <2>1, NamedSqls
<1>11. r \in Steps
  BY <1>10 DEF Steps
<1>12. u \in Seq(Steps) /\ Chain(u) /\ u # <<>> /\ Len(u) = 1 /\ u[1] = Head(u) /\ Head(u) = r
  BY <1>11, Returning
<1>13. r.do = "return" /\ r.of = "close" /\ r.id = p
  OBVIOUS
<1>. HIDE DEF r, u
<1>14. Linked(b)
  <2>1. \A i \in 1..(m - 1) : i \in 1..m /\ i + 1 \in 1..m
    BY <1>6
  <2>2. \A i \in 1..(m - 1) : Follows(b[i], b[i + 1])
    BY <1>7, <2>1 DEF Follows
  <2>. QED  BY <1>9, <2>2 DEF Linked
<1>15. b # <<>> => Len(b) \in 1..m /\ Follows(b[Len(b)], Head(u))
  <2>1. SUFFICES ASSUME b # <<>> PROVE Len(b) \in 1..m /\ Follows(b[Len(b)], Head(u))
    OBVIOUS
  <2>2. m # 0
    BY <1>9, <2>1, EmptySeq
  <2>3. Len(b) \in 1..m
    BY <1>6, <1>9, <2>2
  <2>. QED  BY <1>7, <1>12, <1>13, <2>3 DEF Follows
<1>16. /\ t \in Seq(Steps) /\ Chain(t) /\ t # <<>> /\ t[Len(t)] = u[Len(u)]
       /\ \A i \in 1..Len(t) : \/ \E j \in 1..Len(b) : t[i] = b[j]
                               \/ \E j \in 1..Len(u) : t[i] = u[j]
  BY <1>9, <1>12, <1>14, <1>15, JoinedSteps
<1>. HIDE DEF t
<1>17. t[Len(t)] = r /\ \A i \in 1..Len(t) : (t[i].do = "close" /\ t[i].n \in S) \/ t[i] = r
  <2>1. \A j \in 1..Len(u) : u[j] = r
    BY <1>12
  <2>. QED  BY <1>7, <1>9, <1>12, <1>16, <2>1
<1>18. Head(t).do = "close" \/ Head(t) = r
  <2>1. Head(t) = t[1] /\ 1 \in 1..Len(t)
    BY <1>16, FirstStep
  <2>. QED  BY <1>17, <2>1
<1>19. Opens(t)
  <2>1. \A i \in 1..Len(t) : KeptFor(t[i])
    BY <1>13, <1>17 DEF KeptFor
  <2>. QED  BY <1>13, <1>16, <1>18, <2>1 DEF Opens
<1>20. ASSUME InPlace PROVE NamesNow' /\ Begun' /\ Promises'
  <2>1. NamesNow'
    <3>1. \A q : ~Closing(q)
      BY <1>2 DEF Closing, Step, At
    <3>2. \A q \in Statements : cache[q] # None => \A o \in DOMAIN cache[q] :
             Entered(q, o) /\ cache[q][o].desc # "other"
      BY <1>20, <3>1 DEF InPlace, NamesNow
    <3>3. (\A q \in Statements : cache[q] # None => \A o \in DOMAIN cache[q] :
              /\ cache[q][o].n \in DOMAIN server.named \/ ~Closing(q) => Entered(q, o)
              /\ cache[q][o].desc # "other")'
      BY <1>1, <3>2 DEF Entered
    <3>4. \A i \in 1..Len(t) : t[i].do = "close" =>
             \E o \in DOMAIN cache[p] : cache[p][o].n = t[i].n
      BY <1>5, <1>13, <1>17
    <3>5. (\A i \in 1..Len(todo) : todo[i].do = "close" =>
              \E q \in Statements :
                 /\ cache[q] # None /\ todo[Len(todo)].id = q
                 /\ \E o \in DOMAIN cache[q] : cache[q][o].n = todo[i].n)'
      BY <1>1, <1>2, <1>13, <1>17, <3>4
    <3>6. ~Step("prepared")' /\ ~Step("closed")'
      BY <1>2, <1>13, <1>18 DEF Step
    <3>7. (DOMAIN server.named \subseteq conn.nums)'
      BY <1>1, <1>20 DEF InPlace, NamesNow
    <3>. QED  BY <3>3, <3>5, <3>6, <3>7 DEF NamesNow
  <2>2. Begun'
    <3>1. ~Executes(Head(t))
      BY <1>13, <1>18 DEF Executes
    <3>. QED  BY <1>2, <3>1 DEF Begun, Executes
  <2>3. /\ ~At("execute")' /\ ~At("commit")' /\ ~At("prepare")' /\ ~At("tpc")' /\ ~At("rollback")'
        /\ ~Elsewhere'
    <3>1. ~Ending("tpc")'
      BY <1>2, <1>13, <1>17 DEF Ending
    <3>. QED  BY <1>2, <1>13, <1>18, <3>1 DEF At, Step, Elsewhere
  <2>4. Promises'
    BY <1>1, <1>2, <1>3, <1>20, <2>3, CallPromises DEF InPlace
  <2>. QED  BY <2>1, <2>2, <2>4
<1>21. OwnRows => OwnRows'
  BY <1>1 DEF OwnRows
<1>. QED  BY <1>1, <1>3, <1>19, <1>20, <1>21, CallKeeps

-----------------------------------------------------------------------------
(***************************************************************************)
(* The steps of a call that ask the server nothing.                        *)
(***************************************************************************)

LEMMA PromisesWait ==
    ASSUME Promises, UNCHANGED <<server, past, calls>>, conn'.open = conn.open, ~Step("return"),
           past.ended = None,
           ~At("execute")', ~At("commit")', ~At("prepare")', ~At("rollback")',
           At("tpc")' => server.status = "I",
           Formed /\ Elsewhere' => todo'[Len(todo')].id \notin DOMAIN server.prepared
    PROVE  Promises'
<1>1. ~At("rollback") /\ ~At("prepare") /\ ~At("tpc") /\ ~Undone
  BY DEF At, Undone
<1>2. (\A g \in DOMAIN past.pending :
          \/ past.pending[g] \subseteq server.durable \cup Held(server, g)
          \/ At("tpc") /\ Head(todo).sql.k = "rollback" /\ Head(todo).id = g)'
  BY <1>1 DEF Promises, Held
<1>3. /\ (server.status = "E" => past.failed)'
      /\ (conn.open /\ ~past.failed => past.acked \subseteq server.work \cup server.durable)'
  BY <1>1 DEF Promises
<1>4. (Formed => /\ Elsewhere => todo[Len(todo)].id \notin DOMAIN server.prepared
                 /\ past.ended # None => past.ended \notin DOMAIN server.prepared
                 /\ past.due \subseteq server.durable)'
  BY DEF Promises, Formed
<1>5. (At("commit") \/ At("rollback") \/ At("prepare") \/ At("tpc") => server.status = "I")'
  OBVIOUS
<1>. QED  BY <1>2, <1>3, <1>4, <1>5 DEF Promises

LEMMA FreeNumberKeeps == ASSUME ClientInv, FreeNumber PROVE ClientInv'
<1>. DEFINE n == Head(todo).n
            then == Tail(todo)
<1>1. /\ todo # <<>> /\ Head(todo).do = "closed" /\ Always
      /\ conn' = [conn EXCEPT !.nums = @ \ {n}] /\ todo' = then
      /\ UNCHANGED <<cursor, cache, unread, server, calls, past>>
  BY DEF FreeNumber, Step, ClientInv, Always
<1>2. /\ Exchanges /\ Types /\ conn \in Conns /\ server \in Servers
      /\ cursor \in [AllCursors -> CursorStates]
      /\ Head(todo) \in Steps /\ GoesOn(then)
      /\ then = <<>> => Ends(Head(todo))
      /\ then # <<>> => Follows(Head(todo), Head(then))
  BY <1>1, InHand
<1>3. /\ then # <<>>
      /\ Head(then).do = "close" \/ (Head(then).do = "return" /\ Head(then).of = "close")
  BY <1>1, <1>2 DEF Ends, Follows
<1>4. \A i \in 1..Len(then) : i + 1 \in 1..Len(todo) /\ then[i] = todo[i + 1]
  BY <1>1, FirstStep DEF Always, Types
<1>. HIDE DEF n, then
<1>5. /\ conn' \in Conns /\ conn'.open = conn.open /\ conn'.auto = conn.auto
      /\ conn'.inTx = conn.inTx /\ conn'.held = conn.held /\ conn'.nums = conn.nums \ {n}
  <2>1. conn.nums \in SUBSET Nat /\ IsFiniteSet(conn.nums)
    BY <1>2 DEF Conns
  <2>2. IsFiniteSet(conn.nums \ {n})
    BY <2>1, FS_RemoveElement
  <2>. QED  BY <1>1, <1>2, <2>1, <2>2 DEF Conns
<1>6. /\ then \in Seq(Steps) /\ Chain(then) /\ \A i \in 1..Len(then) : KeptFor(then[i])
      /\ then[Len(then)] = todo[Len(todo)]
  BY <1>2, <1>3 DEF GoesOn
<1>7. /\ ~Step("prepared")' /\ ~Step("closed")' /\ ~Step("execute")' /\ ~Step("query")'
      /\ ~Step("choose")' /\ ~Step("describe")'
  BY <1>1, <1>3 DEF Step
<1>8. /\ ~At("rollback")' /\ ~At("prepare")' /\ ~At("tpc")' /\ ~At("execute")' /\ ~At("commit")'
  BY <1>1, <1>3 DEF At, Step
<1>9. ~Elsewhere'
  <2>1. SUFFICES ASSUME Ending("tpc")', Step("return")' PROVE FALSE
    BY <1>7 DEF Elsewhere
  <2>2. then[Len(then)] = Head(then)
    BY <1>1, <1>3, <1>6, <2>1, ReturnIsLast DEF Step
  <2>. QED  BY <1>1, <1>3, <2>1, <2>2 DEF Ending, Step
<1>10. Always'
  <2>1. Types'
    BY <1>1, <1>2, <1>5, <1>6 DEF Types
  <2>2. Kept'
    BY <1>1, <1>6 DEF Kept, KeptFor
  <2>3. (conn.auto = past.auto \/ Step("wait for ever") \/ Ending("tpc"))'
    <3>1. conn.auto = past.auto \/ Ending("tpc")
      BY <1>1 DEF Always, Step
    <3>. QED  BY <1>1, <1>3, <1>5, <1>6, <3>1 DEF Ending
  <2>. QED  BY <1>1, <1>5, <1>6, <1>7, <2>1, <2>2, <2>3 DEF Always
<1>11. ASSUME ~past'.derailed PROVE InPlace'
  <2>1. InPlace
    BY <1>1, <1>11 DEF ClientInv, InPlace
  <2>2. NamesNow'
    <3>1. (DOMAIN server.named \subseteq conn.nums)'
      <4>1. n \notin DOMAIN server.named
        BY <1>1, <2>1 DEF InPlace, NamesNow, Step, n
      <4>. QED  BY <1>1, <1>5, <2>1, <4>1 DEF InPlace, NamesNow
    <3>2. \A p : Closing(p) <=> Closing(p)'
      BY <1>1, <1>3, <1>6 DEF Closing, Step, At
    <3>3. (\A p \in Statements : cache[p] # None => \A o \in DOMAIN cache[p] :
              /\ cache[p][o].n \in DOMAIN server.named \/ ~Closing(p) => Entered(p, o)
              /\ cache[p][o].desc # "other")'
      BY <1>1, <2>1, <3>2 DEF InPlace, NamesNow, Entered
    <3>4. ASSUME NEW i \in 1..Len(then), then[i].do = "close"
          PROVE  \E p \in Statements :
                    /\ cache[p] # None /\ then[Len(then)].id = p
                    /\ \E o \in DOMAIN cache[p] : cache[p][o].n = then[i].n
      BY <1>4, <1>6, <2>1, <3>4 DEF InPlace, NamesNow
    <3>5. (\A i \in 1..Len(todo) : todo[i].do = "close" =>
              \E p \in Statements :
                 /\ cache[p] # None /\ todo[Len(todo)].id = p
                 /\ \E o \in DOMAIN cache[p] : cache[p][o].n = todo[i].n)'
      BY <1>1, <3>4
    <3>. QED  BY <1>7, <3>1, <3>3, <3>5 DEF NamesNow
  <2>3. OwnRows'
    BY <1>1, <2>1 DEF InPlace, OwnRows
  <2>4. Talking'
    <3>1. ~conn.held
      BY <1>1, <2>1 DEF InPlace, Talking, Step
    <3>2. unread' = <<>> /\ (conn.open \/ ~past.started => (conn.inTx <=> server.status # "I"))'
      BY <1>1, <1>5, <2>1 DEF InPlace, Talking
    <3>. QED  BY <1>5, <1>7, <3>1, <3>2 DEF Talking
  <2>5. Begun'
    BY <1>1, <1>3 DEF Begun, Executes
  <2>6. Promises'
    <3>1. ~Step("return") /\ past.ended = None
      BY <1>1 DEF Step, Always
    <3>. QED  BY <1>1, <1>5, <1>8, <1>9, <2>1, <3>1, PromisesWait DEF InPlace
  <2>. QED  BY <2>2, <2>3, <2>4, <2>5, <2>6 DEF InPlace
<1>. QED  BY <1>10, <1>11 DEF ClientInv, InPlace

-----------------------------------------------------------------------------
\* What a tpc method goes on with, and what that says of its transaction.
Chosen(st, w) ==
    /\ w \in Seq(Steps) /\ Chain(w) /\ w # <<>> /\ w[Len(w)] = todo[Len(todo)]
    /\ \A i \in 1..Len(w) : w[i].do \in {"query", "return"}
    /\ ~Executes(Head(w))
    /\ Head(w).do = "return" => /\ Head(w).of = "tpc" /\ ~Listed(st.xid)
                                /\ st.of # "commit" /\ ~conn.inTx
    /\ Head(w).do = "query" /\ Head(w).sql.k \in {"commit", "rollback"} => ~Listed(st.xid)
    /\ w[Len(w)].id = st.xid.gid

LEMMA Choosing ==
    ASSUME Always, Step("choose"), NEW w,
           w = (IF Listed(Head(todo).xid) THEN Asks("own", Finish(Head(todo).of, Head(todo).xid.gid))
                ELSE IF Head(todo).of = "commit" \/ conn.inTx THEN Asks("own", SQL(Head(todo).of))
                ELSE <<>>) \o Tail(todo)
    PROVE  Chosen(Head(todo), w)
<1>. DEFINE st == Head(todo)
            t == Tail(todo)
            r == Head(t)
            g == st.xid.gid
<1>. SUFFICES Chosen(st, w)
  OBVIOUS
<1>1. todo # <<>> /\ st.do = "choose"
  BY DEF Step
<1>2. /\ st \in Steps /\ GoesOn(t)
      /\ t = <<>> => Ends(st)
      /\ t # <<>> => Follows(st, r)
      /\ "own" \in AllCursors
  BY <1>1, InHand
<1>3. st.of \in {"commit", "rollback"} /\ st.xid \in Xids /\ g \in Gids
  <2>1. st.of \in {"commit", "rollback"} /\ st.xid \in Xids
    BY <1>1, <1>2, StepFields
  <2>. QED  BY <2>1 DEF Xids
<1>4. /\ t # <<>> /\ r.do = "return" /\ r.of = "tpc" /\ r.sql = SQL(st.of) /\ r.id = g
      /\ r.id = st.xid.gid
  <2>1. t # <<>>
    BY <1>1, <1>2 DEF Ends
  <2>. QED  BY <1>1, <1>2, <2>1 DEF Follows
<1>5. Len(t) = 1 /\ todo[Len(todo)] = r /\ t[1] = r
  BY <1>1, <1>4, LastOfCall
<1>6. t \in Seq(Steps) /\ Chain(t)
  BY <1>2 DEF GoesOn
<1>7. \A i \in 1..Len(t) : t[i] = r
  BY <1>5
<1>8. w = (IF Listed(st.xid) THEN Asks("own", Finish(st.of, g))
           ELSE IF st.of = "commit" \/ conn.inTx THEN Asks("own", SQL(st.of)) ELSE <<>>) \o t
  OBVIOUS
<1>. HIDE DEF t, r, g, st
<1>9. ASSUME NEW sql \in Sqls, FollowsQuery([do |-> "query", c |-> "own", sql |-> sql], r), w = Asks("own", sql) \o t, sql.k \notin Operations,
             sql.k \in {"commit", "rollback"} => ~Listed(st.xid)
      PROVE  Chosen(st, w)
  <2>. DEFINE q == [do |-> "query", c |-> "own", sql |-> sql]
  <2>1. Asks("own", sql) = <<q>> /\ q \in Steps /\ q.do = "query" /\ q.sql = sql
    BY <1>2, <1>9, Asking
  <2>2. Follows(q, r)
    BY <1>9, <2>1 DEF Follows
  <2>. HIDE DEF q
  <2>3. Follows(q, Head(t))
    BY <2>2 DEF r, t
  <2>. DEFINE x == <<q>> \o t
  <2>4. /\ x \in Seq(Steps) /\ Chain(x) /\ x # <<>> /\ x[Len(x)] = t[Len(t)] /\ Head(x) = q
        /\ \A i \in 1..Len(x) : x[i] = q \/ \E j \in 1..Len(t) : x[i] = t[j]
    BY <1>4, <1>6, <2>1, <2>3, PutFirst
  <2>5. w = x
    BY <1>9, <2>1
  <2>. HIDE DEF x
  <2>6. x[Len(x)] = r /\ \A i \in 1..Len(x) : x[i] = q \/ x[i] = r
    BY <1>5, <1>7, <2>4
  <2>7. ~Executes(q)
    BY <1>9, <2>1 DEF Executes
  <2>. QED  BY Zenon, <1>4, <1>5, <1>9, <2>1, <2>4, <2>5, <2>6, <2>7 DEF Chosen
<1>10. CASE Listed(st.xid)
  <2>. DEFINE sql == Finish(st.of, g)
              q == [do |-> "query", c |-> "own", sql |-> sql]
  <2>1. /\ sql \in Sqls /\ sql.g = g
        /\ sql.k = (IF st.of = "commit" THEN "commit prepared" ELSE "rollback prepared")
    <3>. DEFINE k == IF st.of = "commit" THEN "commit prepared" ELSE "rollback prepared"
    <3>1. sql = On(k, g)
      BY DEF Finish
    <3>2. k \in Texts
      BY DEF Texts
    <3>. HIDE DEF k, sql
    <3>3. sql \in Sqls /\ sql.g = g /\ sql.k = k
      BY <1>3, <3>1, <3>2, NamedSqls
    <3>. QED  BY <3>3 DEF k
  <2>2. SQL(st.of).k = st.of
    BY DEF SQL
  <2>. HIDE DEF sql
  <2>3. FollowsQuery(q, r)
    BY <1>3, <1>4, <2>1, <2>2, PgClientAssumption DEF FollowsQuery
  <2>4. sql.k \notin Operations /\ sql.k \notin {"commit", "rollback"}
    BY <2>1, PgClientAssumption
  <2>5. w = Asks("own", sql) \o t
    BY Zenon, <1>8, <1>10 DEF sql
  <2>. QED  BY Zenon, <1>9, <2>1, <2>3, <2>4, <2>5
<1>11. CASE ~Listed(st.xid) /\ (st.of = "commit" \/ conn.inTx)
  <2>. DEFINE sql == SQL(st.of)
              q == [do |-> "query", c |-> "own", sql |-> sql]
  <2>1. sql \in Sqls /\ sql.k = st.of
    <3>1. st.of \in Texts \ {"prepare"}
      BY <1>3 DEF Texts
    <3>. QED  BY <3>1, NamedSqls
  <2>2. r.sql = sql
    BY <1>4
  <2>. HIDE DEF sql
  <2>3. FollowsQuery(q, r)
    BY <1>3, <1>4, <2>1, <2>2, PgClientAssumption DEF FollowsQuery
  <2>4. sql.k \notin Operations
    BY <1>3, <2>1, PgClientAssumption
  <2>5. w = Asks("own", sql) \o t
    BY Zenon, <1>8, <1>11 DEF sql
  <2>. QED  BY Zenon, <1>9, <1>11, <2>1, <2>3, <2>4, <2>5
<1>12. CASE ~Listed(st.xid) /\ ~(st.of = "commit" \/ conn.inTx)
  <2>1. w = t
    <3>1. w = <<>> \o t
      BY <1>8, <1>12
    <3>. QED  BY <1>6, <3>1, ConcatEmptySeq
  <2>2. ~Executes(r)
    BY <1>4 DEF Executes
  <2>3. Head(t) = r
    BY DEF r, t
  <2>. QED  BY ZenonT(30), <1>4, <1>5, <1>6, <1>7, <1>12, <2>1, <2>2, <2>3 DEF Chosen
<1>. QED  BY <1>10, <1>11, <1>12

LEMMA ChooseKeeps == ASSUME ClientInv, Choose PROVE ClientInv'
<1>. DEFINE st == Head(todo)
            w == (IF Listed(st.xid) THEN Asks("own", Finish(st.of, st.xid.gid))
                  ELSE IF st.of = "commit" \/ conn.inTx THEN Asks("own", SQL(st.of)) ELSE <<>>)
                 \o Tail(todo)
<1>1. /\ todo # <<>> /\ st.do = "choose" /\ Always /\ Step("choose") /\ todo' = w
      /\ UNCHANGED <<conn, cursor, cache, unread, server, calls, past>>
  BY DEF Choose, Step, ClientInv, Always
<1>2. Chosen(st, w)
  BY <1>1, Choosing
<1>. HIDE DEF w
<1>3. /\ Types /\ st \in Steps
  BY <1>1, InHand
<1>4. st.xid \in Xids
  BY <1>1, <1>3, StepFields
<1>5. Head(w).do \in {"query", "return"} /\ Head(w) = w[1] /\ ~Executes(Head(w))
  BY <1>2, FirstStep DEF Chosen
<1>6. /\ ~Step("prepared")' /\ ~Step("closed")' /\ ~Step("execute")' /\ ~Step("close")'
      /\ ~Step("choose")' /\ ~Step("describe")'
  BY <1>1, <1>5 DEF Step
<1>7. ~At("rollback")' /\ ~At("prepare")' /\ ~At("execute")' /\ ~At("commit")' /\ ~At("close")'
  BY <1>1, <1>2 DEF At, Step, Chosen
<1>8. Always'
  <2>1. Types'
    BY <1>1, <1>2, <1>3 DEF Types, Chosen
  <2>2. Kept'
    BY <1>1, <1>2 DEF Kept, KeptFor, Chosen
  <2>3. (conn.auto = past.auto \/ Step("wait for ever") \/ Ending("tpc"))'
    <3>1. conn.auto = past.auto \/ Ending("tpc")
      BY <1>1 DEF Always, Step
    <3>. QED  BY <1>1, <1>2, <3>1 DEF Ending, Chosen
  <2>4. Chain(todo')
    BY <1>1, <1>2 DEF Chosen
  <2>. QED  BY <1>1, <1>6, <2>1, <2>2, <2>3, <2>4 DEF Always
<1>9. ASSUME ~past'.derailed PROVE InPlace'
  <2>1. InPlace
    BY <1>1, <1>9 DEF ClientInv, InPlace
  <2>2. NamesNow'
    <3>1. \A p : ~Closing(p)
      BY <1>1 DEF Closing, Step, At
    <3>2. \A p \in Statements : cache[p] # None => \A o \in DOMAIN cache[p] :
             Entered(p, o) /\ cache[p][o].desc # "other"
      BY <2>1, <3>1 DEF InPlace, NamesNow
    <3>3. (\A p \in Statements : cache[p] # None => \A o \in DOMAIN cache[p] :
              /\ cache[p][o].n \in DOMAIN server.named \/ ~Closing(p) => Entered(p, o)
              /\ cache[p][o].desc # "other")'
      BY <1>1, <3>2 DEF Entered
    <3>4. \A i \in 1..Len(todo') : todo'[i].do # "close"
      BY <1>1, <1>2 DEF Chosen
    <3>5. (DOMAIN server.named \subseteq conn.nums)'
      BY <1>1, <2>1 DEF InPlace, NamesNow
    <3>. QED  BY <1>6, <3>3, <3>4, <3>5 DEF NamesNow
  <2>3. OwnRows'
    BY <1>1, <2>1 DEF InPlace, OwnRows
  <2>4. Talking'
    <3>1. ~conn.held
      BY <1>1, <2>1 DEF InPlace, Talking, Step
    <3>2. unread' = <<>> /\ (conn.open \/ ~past.started => (conn.inTx <=> server.status # "I"))'
      BY <1>1, <2>1 DEF InPlace, Talking
    <3>. QED  BY <1>1, <1>6, <3>1, <3>2 DEF Talking
  <2>5. Begun'
    BY <1>1, <1>5 DEF Begun, Executes
  <2>6. Promises'
    <3>1. ~Step("return") /\ past.ended = None
      BY <1>1 DEF Step, Always
    <3>2. At("tpc")' => server.status = "I"
      <4>1. conn.open /\ (conn.inTx <=> server.status # "I")
        BY <1>1, <2>1 DEF InPlace, Talking, Always
      <4>. QED  BY <1>1, <1>2, <4>1 DEF At, Step, Chosen
    <3>3. ASSUME Formed, Elsewhere' PROVE todo'[Len(todo')].id \notin DOMAIN server.prepared
      <4>1. ~Listed(st.xid)
        BY <1>1, <1>2, <3>3 DEF Elsewhere, Step, Chosen
      <4>2. st.xid.form = TRUE
        BY <1>4, <3>3, PgClientAssumption DEF Formed, Xids
      <4>3. \A i \in DOMAIN cursor["list"].rows : cursor["list"].rows[i].v # st.xid.gid
        BY <4>1, <4>2 DEF Listed
      <4>4. DOMAIN cursor["list"].rows = 1..Len(cursor["list"].rows)
        <5>1. cursor["list"].rows \in Seq(Messages)
          BY <1>3 DEF Types, CursorStates, AllCursors
        <5>. QED  BY <5>1, LenProperties
      <4>5. st.xid.gid \notin DOMAIN server.prepared
        BY <1>1, <2>1, <4>3, <4>4 DEF InPlace, Talking
      <4>. QED  BY <1>1, <1>2, <4>5 DEF Chosen
    <3>. QED  BY <1>1, <1>7, <2>1, <3>1, <3>2, <3>3, PromisesWait DEF InPlace
  <2>. QED  BY <2>2, <2>3, <2>4, <2>5, <2>6 DEF InPlace
<1>. QED  BY <1>8, <1>9 DEF ClientInv, InPlace

-----------------------------------------------------------------------------
\* What the return of a call does to what is promised.
Returned(st) ==
    /\ past' \in Pasts /\ past'.started = past.started /\ past'.auto = past.auto
    /\ past'.derailed = past.derailed
    /\ \/ /\ st.of = "execute" /\ st.sql.k = "update"
          /\ past'.acked = past.acked \cup {calls} /\ past'.failed = past.failed
          /\ past'.pending = past.pending /\ past'.due = past.due /\ past'.ended = past.ended
       \/ /\ st.of \in {"commit", "rollback"}
          /\ past'.acked = {} /\ past'.pending = past.pending /\ past'.ended = past.ended
          /\ past'.due = past.due \/ (st.of = "commit" /\ past'.due = past.due \cup Sound)
       \/ /\ st.of = "prepare"
          /\ past'.acked = {} /\ past'.pending = Known(past.pending, st.id, Sound)
          /\ past'.due = past.due /\ past'.ended = past.ended
       \/ /\ st.of = "tpc" /\ st.sql.k \in {"commit", "rollback"}
          /\ past'.acked = {} /\ past'.pending = Forget(past.pending, st.id)
          /\ past'.ended = st.id
          /\ \/ past'.due = past.due
             \/ /\ st.sql.k = "commit"
                /\ past'.due = past.due \cup Sound \cup Promised(st.id)
       \/ /\ past' = past
          /\ st.of \in {"execute", "close"} \/ (st.of = "tpc" /\ st.sql.k # "rollback")

LEMMA PastReturned == ASSUME Types, Return PROVE Returned(Head(todo))
<1>. DEFINE st == Head(todo)
            g == st.id
            sound == Sound
            promised == Promised(g)
            known == Known(past.pending, g, sound)
            less == Forget(past.pending, g)
<1>1. /\ todo # <<>> /\ st.do = "return" /\ todo \in Seq(Steps) /\ past \in Pasts
      /\ calls \in 0..MaxCalls
  BY DEF Return, Step, Types
<1>2. calls \in Nat
  <2>1. MaxCalls \in Nat
    BY PgClientAssumption
  <2>. QED  BY <1>1, <2>1, UpToIsNat
<1>3. st \in Steps
  <2>1. st = todo[1] /\ Len(todo) \in Nat /\ Len(todo) # 0
    BY <1>1, EmptySeq
  <2>2. 1 \in 1..Len(todo)
    BY <2>1
  <2>. QED  BY <1>1, <2>1, <2>2, ElementOfSeq
<1>4. /\ st.of \in {"execute", "commit", "rollback", "prepare", "tpc", "close"}
      /\ st.of \in {"prepare", "tpc"} => st.id \in Gids
  BY <1>1, <1>3, StepFields
<1>5. /\ past' = CASE st.of = "execute" /\ st.sql.k = "update" ->
                      [past EXCEPT !.acked = @ \cup {calls}]
                 [] st.of = "commit" -> [Over EXCEPT !.due = @ \cup sound]
                 [] st.of = "rollback" -> Over
                 [] st.of = "prepare" -> [Over EXCEPT !.pending = Known(@, st.id, sound)]
                 [] st.of = "tpc" /\ st.sql.k = "commit" ->
                      [Over EXCEPT !.due = @ \cup sound \cup promised, !.ended = st.id,
                                   !.pending = Forget(@, st.id)]
                 [] st.of = "tpc" /\ st.sql.k = "rollback" ->
                      [Over EXCEPT !.ended = st.id, !.pending = Forget(@, st.id)]
                 [] OTHER -> past
  BY DEF Return
<1>6. /\ past.acked \in SUBSET Nat /\ past.due \in SUBSET Nat
      /\ past.pending \in Partials(Gids, Updates)
  BY <1>1 DEF Pasts
<1>7. sound \in SUBSET Nat
  BY <1>6 DEF Sound
<1>8. promised \in SUBSET Nat
  BY <1>6, InPartials DEF Promised, Updates
<1>9. /\ Over \in Pasts /\ Over.started = past.started /\ Over.auto = past.auto
      /\ Over.derailed = past.derailed /\ Over.acked = {} /\ Over.pending = past.pending
      /\ Over.due = past.due /\ Over.ended = past.ended
  BY <1>1 DEF Over, Pasts
<1>. DEFINE over == Over
<1>. SUFFICES Returned(st)
  OBVIOUS
<1>10. CASE st.of = "execute" /\ st.sql.k = "update"
  <2>1. past' = [past EXCEPT !.acked = past.acked \cup {calls}]
    BY <1>5, <1>10
  <2>2. past.acked \cup {calls} \in SUBSET Nat
    BY <1>2, <1>6
  <2>3. /\ past' \in Pasts /\ past'.started = past.started /\ past'.auto = past.auto
        /\ past'.derailed = past.derailed
        /\ past'.acked = past.acked \cup {calls} /\ past'.failed = past.failed
        /\ past'.pending = past.pending /\ past'.due = past.due /\ past'.ended = past.ended
    BY <1>1, <2>1, <2>2 DEF Pasts
  <2>. QED  BY <1>10, <2>3 DEF Returned
<1>. HIDE DEF st, g, sound, promised, known, less, over
<1>11. over \in Pasts
  BY <1>9 DEF over
<1>12. /\ over.started = past.started /\ over.auto = past.auto
       /\ over.derailed = past.derailed /\ over.acked = {} /\ over.pending = past.pending
       /\ over.due = past.due /\ over.ended = past.ended
  BY <1>9 DEF over
<1>13. CASE st.of = "commit"
  <2>1. past' = [over EXCEPT !.due = past.due \cup sound]
    BY <1>5, <1>12, <1>13 DEF over
  <2>2. past.due \cup sound \in SUBSET Nat
    BY <1>6, <1>7
  <2>3. /\ past' \in Pasts /\ past'.started = past.started /\ past'.auto = past.auto
        /\ past'.derailed = past.derailed /\ past'.acked = {} /\ past'.pending = past.pending
        /\ past'.due = past.due \cup sound /\ past'.ended = past.ended
    BY <1>11, <1>12, <2>1, <2>2 DEF Pasts
  <2>. QED  BY <1>13, <2>3 DEF Returned, sound
<1>14. CASE st.of = "rollback"
  <2>1. past' = over
    BY <1>5, <1>14 DEF over
  <2>. QED  BY <1>11, <1>12, <1>14, <2>1 DEF Returned
<1>15. CASE st.of = "prepare"
  <2>1. past' = [over EXCEPT !.pending = known]
    BY <1>5, <1>12, <1>15 DEF over, known, g
  <2>2. known \in Partials(Gids, Updates)
    <3>. DEFINE f == past.pending
    <3>1. f \in Partials(Gids, Updates) /\ sound \in Updates /\ g \in Gids
      BY <1>4, <1>6, <1>7, <1>15 DEF Updates, g
    <3>. HIDE DEF f
    <3>2. Known(f, g, sound) \in Partials(Gids, Updates)
      BY <3>1, Extended
    <3>. QED  BY <3>2 DEF f, known
  <2>3. /\ past' \in Pasts /\ past'.started = past.started /\ past'.auto = past.auto
        /\ past'.derailed = past.derailed /\ past'.acked = {} /\ past'.pending = known
        /\ past'.due = past.due /\ past'.ended = past.ended
    BY <1>11, <1>12, <2>1, <2>2 DEF Pasts
  <2>. QED  BY <1>15, <2>3 DEF Returned, sound, known, g
<1>16. less \in Partials(Gids, Updates)
  <2>. DEFINE f == past.pending
  <2>1. f \in Partials(Gids, Updates)
    BY <1>6
  <2>. HIDE DEF f
  <2>2. Forget(f, g) \in Partials(Gids, Updates)
    BY <2>1, Reduced
  <2>. QED  BY <2>2 DEF f, less
<1>17. CASE st.of = "tpc" /\ st.sql.k = "commit"
  <2>1. past' = [over EXCEPT !.due = past.due \cup sound \cup promised, !.ended = g, !.pending = less]
    BY <1>5, <1>12, <1>17 DEF over, less, g
  <2>2. past.due \cup sound \cup promised \in SUBSET Nat /\ g \in Ids
    BY <1>4, <1>6, <1>7, <1>8, <1>17 DEF g, Ids
  <2>3. /\ past' \in Pasts /\ past'.started = past.started /\ past'.auto = past.auto
        /\ past'.derailed = past.derailed /\ past'.acked = {} /\ past'.pending = less
        /\ past'.due = past.due \cup sound \cup promised /\ past'.ended = g
    BY <1>11, <1>12, <1>16, <2>1, <2>2 DEF Pasts
  <2>. QED  BY <1>17, <2>3 DEF Returned, sound, promised, less, g
<1>18. CASE st.of = "tpc" /\ st.sql.k = "rollback"
  <2>1. past' = [over EXCEPT !.ended = g, !.pending = less]
    BY <1>5, <1>12, <1>18 DEF over, less, g
  <2>2. g \in Ids
    BY <1>4, <1>18 DEF g, Ids
  <2>3. /\ past' \in Pasts /\ past'.started = past.started /\ past'.auto = past.auto
        /\ past'.derailed = past.derailed /\ past'.acked = {} /\ past'.pending = less
        /\ past'.due = past.due /\ past'.ended = g
    BY <1>11, <1>12, <1>16, <2>1, <2>2 DEF Pasts
  <2>. QED  BY <1>18, <2>3 DEF Returned, less, g
<1>19. CASE /\ ~(st.of = "execute" /\ st.sql.k = "update")
            /\ st.of \notin {"commit", "rollback", "prepare"}
            /\ ~(st.of = "tpc" /\ st.sql.k \in {"commit", "rollback"})
  <2>1. past' = past
    BY <1>5, <1>19
  <2>. QED  BY <1>1, <1>4, <1>19, <2>1 DEF Returned
<1>. QED  BY <1>4, <1>10, <1>13, <1>14, <1>15, <1>17, <1>18, <1>19

-----------------------------------------------------------------------------
LEMMA PromisesReturned ==
    ASSUME Always, Promises, Step("return"), Returned(Head(todo)), server' = server, todo' = <<>>
    PROVE  Promises'
<1>. DEFINE st == Head(todo)
            g == st.id
<1>1. /\ todo # <<>> /\ st.do = "return" /\ todo \in Seq(Steps) /\ Chain(todo) /\ Types
      /\ conn.open /\ past.ended = None
  BY DEF Always, Types, Step
<1>2. st \in Steps /\ todo[Len(todo)] = st
  BY <1>1, FirstStep, ReturnIsLast
<1>3. /\ st.of \in {"execute", "commit", "rollback", "prepare", "tpc", "close"}
      /\ st.of \in {"prepare", "tpc"} => g \in Gids
  BY <1>1, <1>2, StepFields
<1>4. /\ At("execute") <=> st.of = "execute"
      /\ At("commit") <=> st.of = "commit"
      /\ At("rollback") <=> st.of = "rollback"
      /\ At("prepare") <=> st.of = "prepare"
      /\ At("tpc") <=> st.of = "tpc"
      /\ Elsewhere <=> st.of = "tpc"
  BY <1>1, <1>2 DEF At, Step, Elsewhere, Ending
<1>5. Undone <=> st.of \in {"rollback", "prepare"} \/ (st.of = "tpc" /\ st.sql.k = "rollback")
  BY <1>4 DEF Undone
<1>6. /\ server.status = "E" => past.failed
      /\ ~past.failed /\ ~Undone => past.acked \subseteq server.work \cup server.durable
      /\ \A h \in DOMAIN past.pending :
            \/ past.pending[h] \subseteq server.durable \cup Held(server, h)
            \/ st.of = "tpc" /\ st.sql.k = "rollback" /\ g = h
      /\ st.of = "execute" /\ st.sql.k = "update" => calls \in server.work \cup server.durable
      /\ st.of \in {"commit", "rollback", "prepare", "tpc"} => server.status = "I"
      /\ st.of = "prepare" /\ ~past.failed =>
            past.acked \subseteq server.durable \cup Held(server, g)
      /\ Formed => /\ st.of = "tpc" => g \notin DOMAIN server.prepared
                   /\ past.due \subseteq server.durable
  BY <1>1, <1>2, <1>4 DEF Promises
<1>7. server.status = "I" => server.work = {}
  BY <1>1, ServerFields DEF Types
<1>8. /\ \/ /\ st.of = "execute" /\ st.sql.k = "update"
            /\ past'.acked = past.acked \cup {calls} /\ past'.failed = past.failed
            /\ past'.pending = past.pending /\ past'.due = past.due /\ past'.ended = past.ended
         \/ /\ st.of \in {"commit", "rollback"}
            /\ past'.acked = {} /\ past'.pending = past.pending /\ past'.ended = past.ended
            /\ past'.due = past.due \/ (st.of = "commit" /\ past'.due = past.due \cup Sound)
         \/ /\ st.of = "prepare"
            /\ past'.acked = {} /\ past'.pending = Known(past.pending, st.id, Sound)
            /\ past'.due = past.due /\ past'.ended = past.ended
         \/ /\ st.of = "tpc" /\ st.sql.k \in {"commit", "rollback"}
            /\ past'.acked = {} /\ past'.pending = Forget(past.pending, st.id)
            /\ past'.ended = st.id
            /\ \/ past'.due = past.due
               \/ /\ st.sql.k = "commit"
                  /\ past'.due = past.due \cup Sound \cup Promised(st.id)
         \/ /\ past' = past
            /\ st.of \in {"execute", "close"} \/ (st.of = "tpc" /\ st.sql.k # "rollback")
  BY DEF Returned
<1>. HIDE DEF st
<1>9. server'.status = "E" => past'.failed
  BY <1>6, <1>8
<1>10. ASSUME ~past'.failed PROVE past'.acked \subseteq server'.work \cup server'.durable
  BY <1>5, <1>6, <1>8, <1>10
<1>11. ASSUME NEW h \in DOMAIN past'.pending
       PROVE  past'.pending[h] \subseteq server.durable \cup Held(server, h)
  <2>1. CASE past'.pending = past.pending /\ ~(st.of = "tpc" /\ st.sql.k = "rollback")
    BY <1>6, <1>11, <2>1
  <2>2. CASE st.of = "prepare" /\ past'.pending = Known(past.pending, g, Sound)
    <3>1. CASE h = g
      <4>1. past'.pending[h] = Sound
        BY <1>11, <2>2, <3>1 DEF Known
      <4>. QED  BY <1>6, <2>2, <3>1, <4>1 DEF Sound
    <3>2. CASE h # g
      <4>1. h \in DOMAIN past.pending /\ past'.pending[h] = past.pending[h]
        BY <1>11, <2>2, <3>2 DEF Known
      <4>. QED  BY <1>6, <2>2, <4>1
    <3>. QED  BY <3>1, <3>2
  <2>3. CASE past'.pending = Forget(past.pending, g)
    <3>1. h # g /\ h \in DOMAIN past.pending /\ past'.pending[h] = past.pending[h]
      BY <1>11, <2>3 DEF Forget
    <3>. QED  BY <1>6, <3>1
  <2>. QED  BY <1>8, <2>1, <2>2, <2>3
<1>12. ASSUME Formed PROVE past'.due \subseteq server.durable
  <2>1. CASE past'.due = past.due
    BY <1>6, <1>12, <2>1
  <2>2. ASSUME st.of = "commit" \/ (st.of = "tpc" /\ st.sql.k = "commit")
        PROVE  Sound \subseteq server.durable
    <3>1. server.work = {}
      BY <1>6, <1>7, <2>2
    <3>. QED  BY <1>5, <1>6, <2>2, <3>1 DEF Sound
  <2>3. CASE st.of = "commit" /\ past'.due = past.due \cup Sound
    BY <1>6, <1>12, <2>2, <2>3
  <2>4. CASE /\ st.of = "tpc" /\ st.sql.k = "commit"
             /\ past'.due = past.due \cup Sound \cup Promised(g)
    <3>1. Held(server, g) = {}
      BY <1>6, <1>12, <2>4 DEF Held
    <3>2. Promised(g) \subseteq server.durable
      BY <1>6, <2>4, <3>1 DEF Promised
    <3>. QED  BY <1>6, <1>12, <2>2, <2>4, <3>2
  <2>. QED  BY <1>8, <2>1, <2>3, <2>4
<1>13. ASSUME Formed, past'.ended # None PROVE past'.ended \notin DOMAIN server.prepared
  <2>1. st.of = "tpc" /\ past'.ended = g
    BY <1>1, <1>8, <1>13
  <2>. QED  BY <1>6, <1>13, <2>1
<1>14. /\ ~At("execute")' /\ ~At("commit")' /\ ~At("rollback")' /\ ~At("prepare")' /\ ~At("tpc")'
       /\ ~Elsewhere'
  BY DEF At, Step, Elsewhere, Ending
<1>15. (\A h \in DOMAIN past.pending :
           \/ past.pending[h] \subseteq server.durable \cup Held(server, h)
           \/ At("tpc") /\ Head(todo).sql.k = "rollback" /\ Head(todo).id = h)'
  BY <1>11 DEF Held
<1>16. (Formed => /\ Elsewhere => todo[Len(todo)].id \notin DOMAIN server.prepared
                  /\ past.ended # None => past.ended \notin DOMAIN server.prepared
                  /\ past.due \subseteq server.durable)'
  BY <1>12, <1>13, <1>14 DEF Formed
<1>. QED  BY <1>9, <1>10, <1>14, <1>15, <1>16 DEF Promises

LEMMA ReturnKeeps == ASSUME ClientInv, Return PROVE ClientInv'
<1>. DEFINE st == Head(todo)
<1>1. /\ todo # <<>> /\ st.do = "return" /\ Always /\ Step("return") /\ todo' = <<>>
      /\ UNCHANGED <<cursor, unread, server, calls>>
      /\ conn' = IF st.of = "tpc" THEN [Restored(conn) EXCEPT !.xid = None] ELSE conn
      /\ cache' = IF st.of = "close" THEN [cache EXCEPT ![st.id] = None] ELSE cache
  BY DEF Return, Step, ClientInv
<1>2. todo \in Seq(Steps) /\ Chain(todo) /\ Types /\ conn.open
  BY <1>1 DEF Always, Types
<1>3. st \in Steps /\ todo[Len(todo)] = st
  BY <1>1, <1>2, FirstStep, ReturnIsLast
<1>4. /\ st.of = "close" => st.id \in Statements
  BY <1>1, <1>3, StepFields
<1>5. Returned(st)
  BY <1>2, PastReturned
<1>6. /\ past' \in Pasts /\ past'.started = past.started /\ past'.auto = past.auto
      /\ past'.derailed = past.derailed
  BY <1>5 DEF Returned
<1>7. /\ conn' \in Conns /\ conn'.open = conn.open /\ conn'.inTx = conn.inTx
      /\ conn'.nums = conn.nums /\ conn'.held = conn.held
      /\ conn'.auto = IF st.of = "tpc" THEN past.auto ELSE conn.auto
  <2>1. conn \in Conns /\ past.auto \in BOOLEAN
    BY <1>2 DEF Types, Pasts
  <2>2. CASE st.of = "tpc"
    BY <1>1, <2>1, <2>2 DEF Restored, Conns
  <2>3. CASE st.of # "tpc"
    BY <1>1, <2>1, <2>3
  <2>. QED  BY <2>2, <2>3
<1>8. /\ cache \in [Statements -> Cached \cup {None}]
      /\ cache' \in [Statements -> Cached \cup {None}]
      /\ \A p \in Statements : cache'[p] # None =>
            cache'[p] = cache[p] /\ ~(st.of = "close" /\ st.id = p)
  <2>1. cache \in [Statements -> Cached \cup {None}]
    BY <1>2 DEF Types
  <2>. QED  BY <1>1, <1>4, <2>1
<1>. HIDE DEF st
<1>9. /\ ~Step("prepared")' /\ ~Step("closed")' /\ ~Step("execute")' /\ ~Step("close")'
      /\ ~Step("choose")' /\ ~Step("describe")' /\ ~Step("return")'
  BY <1>1 DEF Step
<1>10. \A i \in 1..Len(<<>>) : FALSE
  OBVIOUS
<1>11. <<>> \in Seq(Steps) /\ Chain(<<>>)
  BY NoSteps
<1>12. Always'
  <2>1. Types'
    BY <1>1, <1>2, <1>6, <1>7, <1>8, <1>11 DEF Types
  <2>2. Kept'
    BY <1>1, <1>10 DEF Kept
  <2>3. conn'.auto = past'.auto
    <3>1. CASE st.of = "tpc"
      BY <1>6, <1>7, <3>1
    <3>2. CASE st.of # "tpc"
      <4>1. conn.auto = past.auto
        BY <1>1, <1>3, <3>2 DEF Always, Step, Ending, st
      <4>. QED  BY <1>6, <1>7, <3>2, <4>1
    <3>. QED  BY <3>1, <3>2
  <2>4. past'.started
    BY <1>1, <1>6 DEF Always
  <2>5. todo' = <<>> /\ Chain(todo')
    BY <1>1, <1>11
  <2>. QED  BY <1>9, <2>1, <2>2, <2>3, <2>4, <2>5 DEF Always
<1>13. ASSUME ~past'.derailed PROVE InPlace'
  <2>1. InPlace
    BY <1>6, <1>13 DEF ClientInv, InPlace
  <2>2. NamesNow'
    <3>1. \A p : Closing(p) <=> st.of = "close" /\ st.id = p
      BY <1>1, <1>3 DEF Closing, Step, At, st
    <3>2. ASSUME NEW p \in Statements, cache'[p] # None, NEW o \in DOMAIN cache'[p]
          PROVE  /\ cache'[p][o].n \in DOMAIN server.named
                 /\ server.named[cache'[p][o].n] = <<p, o>> /\ cache'[p][o].desc # "other"
      <4>1. cache'[p] = cache[p] /\ ~Closing(p)
        BY <1>8, <3>1, <3>2
      <4>. QED  BY <2>1, <3>2, <4>1 DEF InPlace, NamesNow, Entered
    <3>3. (\A p \in Statements : cache[p] # None => \A o \in DOMAIN cache[p] :
              /\ cache[p][o].n \in DOMAIN server.named \/ ~Closing(p) => Entered(p, o)
              /\ cache[p][o].desc # "other")'
      BY <1>1, <3>2 DEF Entered
    <3>4. \A i \in 1..Len(todo') : FALSE
      BY <1>1, <1>10
    <3>5. (DOMAIN server.named \subseteq conn.nums)'
      BY <1>1, <1>7, <2>1 DEF InPlace, NamesNow
    <3>. QED  BY <1>9, <3>3, <3>4, <3>5 DEF NamesNow
  <2>3. OwnRows'
    BY <1>1, <2>1 DEF InPlace, OwnRows
  <2>4. Talking'
    <3>1. ~conn.held
      BY <1>1, <2>1 DEF InPlace, Talking, Step
    <3>2. unread' = <<>> /\ (conn.open \/ ~past.started => (conn.inTx <=> server.status # "I"))'
      BY <1>1, <1>6, <1>7, <2>1 DEF InPlace, Talking
    <3>. QED  BY <1>7, <1>9, <3>1, <3>2 DEF Talking
  <2>5. Begun'
    BY <1>1 DEF Begun
  <2>6. Promises'
    BY <1>1, <1>5, <2>1, PromisesReturned DEF InPlace, st
  <2>. QED  BY <2>2, <2>3, <2>4, <2>5, <2>6 DEF InPlace
<1>. QED  BY <1>12, <1>13 DEF ClientInv, InPlace

-----------------------------------------------------------------------------
(***************************************************************************)
(* What happens between calls, and another session.                        *)
(***************************************************************************)

LEMMA NothingToDo ==
    ASSUME todo = <<>>, todo' = <<>>
    PROVE  /\ \A kind : ~Step(kind) /\ ~Step(kind)'
           /\ \A kind : ~At(kind) /\ ~At(kind)' /\ ~Ending(kind) /\ ~Ending(kind)'
           /\ ~Elsewhere /\ ~Elsewhere' /\ ~Undone /\ ~Undone'
           /\ \A p : ~Closing(p) /\ ~Closing(p)'
           /\ \A i \in 1..Len(todo') : FALSE
           /\ Kept' /\ Begun'
<1>1. \A kind : ~Step(kind) /\ ~Step(kind)' /\ ~Ending(kind) /\ ~Ending(kind)'
  BY DEF Step, Ending
<1>2. \A kind : ~At(kind) /\ ~At(kind)'
  BY <1>1 DEF At
<1>3. \A p : ~Closing(p) /\ ~Closing(p)'
  BY <1>1, <1>2 DEF Closing
<1>4. ~Elsewhere /\ ~Elsewhere' /\ ~Undone /\ ~Undone'
  BY <1>1, <1>2 DEF Elsewhere, Undone
<1>5. \A i \in 1..Len(<<>>) : FALSE
  OBVIOUS
<1>6. Kept' /\ Begun'
  BY <1>5 DEF Kept, Begun
<1>. QED  BY <1>1, <1>2, <1>3, <1>4, <1>5, <1>6

LEMMA NamesRest ==
    ASSUME NamesNow, todo = <<>>, todo' = <<>>, cache' = cache, server'.named = server.named,
           conn'.nums = conn.nums
    PROVE  NamesNow'
<1>1. /\ \A kind : ~Step(kind) /\ ~Step(kind)'
      /\ \A p : ~Closing(p) /\ ~Closing(p)'
      /\ \A i \in 1..Len(todo') : FALSE
  BY NothingToDo
<1>2. \A p \in Statements : cache[p] # None => \A o \in DOMAIN cache[p] :
         Entered(p, o) /\ cache[p][o].desc # "other"
  BY <1>1 DEF NamesNow
<1>3. (\A p \in Statements : cache[p] # None => \A o \in DOMAIN cache[p] :
          /\ cache[p][o].n \in DOMAIN server.named \/ ~Closing(p) => Entered(p, o)
          /\ cache[p][o].desc # "other")'
  BY <1>2 DEF Entered
<1>4. (DOMAIN server.named \subseteq conn.nums)'
  BY DEF NamesNow
<1>. QED  BY <1>1, <1>3, <1>4 DEF NamesNow

\* Between calls: what is promised stays.
LEMMA PromisesRest ==
    ASSUME Promises, todo = <<>>, todo' = <<>>,
           server'.durable = server.durable, server'.prepared = server.prepared,
           past'.failed = past.failed, past'.acked = past.acked, past'.pending = past.pending,
           past'.due = past.due, past'.ended \in {past.ended, None},
           server'.status = server.status \/ server'.status = "I",
           conn'.open => past.acked = {} \/ (conn.open /\ server'.work = server.work)
    PROVE  Promises'
<1>1. /\ \A kind : ~At(kind) /\ ~At(kind)'
      /\ ~Elsewhere /\ ~Elsewhere' /\ ~Undone /\ ~Undone'
  BY NothingToDo
<1>2. (\A g \in DOMAIN past.pending :
          \/ past.pending[g] \subseteq server.durable \cup Held(server, g)
          \/ At("tpc") /\ Head(todo).sql.k = "rollback" /\ Head(todo).id = g)'
  BY <1>1 DEF Promises, Held
<1>3. /\ (server.status = "E" => past.failed)'
      /\ (conn.open /\ ~past.failed => past.acked \subseteq server.work \cup server.durable)'
  BY <1>1 DEF Promises
<1>4. (Formed => /\ past.ended # None => past.ended \notin DOMAIN server.prepared
                 /\ past.due \subseteq server.durable)'
  BY DEF Promises, Formed
<1>. QED  BY <1>1, <1>2, <1>3, <1>4 DEF Promises

\* A step between calls keeps the invariant when it keeps what it touches.
LEMMA RestKeeps ==
    ASSUME ClientInv, todo = <<>>, todo' = <<>>, UNCHANGED <<cache, unread>>,
           conn' \in Conns, cursor' \in [AllCursors -> CursorStates], server' \in Servers,
           calls' \in 0..MaxCalls, past' \in Pasts,
           conn'.auto = past'.auto, conn'.nums = conn.nums, conn'.held = conn.held,
           conn'.inTx = conn.inTx, conn'.open => past'.started, past'.started \/ past'.acked = {},
           past'.derailed = past.derailed, server'.named = server.named,
           InPlace => OwnRows' /\ Promises',
           InPlace /\ (conn'.open \/ ~past'.started) => (conn.inTx <=> server'.status # "I")
    PROVE  ClientInv'
<1>1. /\ \A kind : ~Step(kind) /\ ~Step(kind)'
      /\ Kept' /\ Begun'
  BY NothingToDo
<1>2. <<>> \in Seq(Steps) /\ Chain(<<>>)
  BY NoSteps
<1>3. Types'
  BY <1>2 DEF ClientInv, Always, Types
<1>4. Chain(todo')
  BY <1>2
<1>5. Always'
  BY <1>1, <1>3, <1>4 DEF Always
<1>6. ASSUME ~past'.derailed PROVE InPlace'
  <2>1. InPlace
    BY <1>6 DEF ClientInv, InPlace
  <2>2. NamesNow'
    BY <2>1, NamesRest DEF InPlace
  <2>3. Talking'
    BY <1>1, <2>1 DEF InPlace, Talking
  <2>. QED  BY <1>1, <2>1, <2>2, <2>3 DEF InPlace
<1>. QED  BY <1>5, <1>6 DEF ClientInv, InPlace

LEMMA ConnectKeeps ==
    ASSUME ClientInv, NEW auth, NEW w, Connect(auth, w)
    PROVE  ClientInv'
<1>. DEFINE o == CanAnswer(auth, w) /\ (auth = "trust" \/ w = "right")
<1>1. /\ ~conn.open /\ ~past.started /\ past' = [past EXCEPT !.started = TRUE]
      /\ conn' = [conn EXCEPT !.open = o]
      /\ UNCHANGED <<cursor, cache, unread, server, todo, calls>> /\ Always
  BY DEF Connect, ClientInv
<1>2. todo = <<>> /\ todo' = <<>> /\ past.acked = {}
  BY <1>1 DEF Always
<1>3. /\ conn.auto = past.auto /\ Types /\ conn \in Conns
      /\ cursor \in [AllCursors -> CursorStates]
  BY <1>1, <1>2, Between
<1>4. o \in BOOLEAN
  BY DEF CanAnswer
<1>. HIDE DEF o
<1>5. /\ conn' \in Conns /\ conn'.auto = conn.auto /\ conn'.nums = conn.nums
      /\ conn'.held = conn.held /\ conn'.inTx = conn.inTx
  BY <1>1, <1>3, <1>4 DEF Conns
<1>6. /\ past' \in Pasts /\ past'.auto = past.auto /\ past'.started /\ past'.acked = past.acked
      /\ past'.derailed = past.derailed /\ past'.failed = past.failed
      /\ past'.pending = past.pending /\ past'.due = past.due /\ past'.ended = past.ended
  BY <1>1, <1>3 DEF Types, Pasts
<1>7. InPlace => OwnRows' /\ Promises'
  <2>1. InPlace => OwnRows'
    BY <1>1 DEF InPlace, OwnRows
  <2>2. InPlace => Promises'
    BY <1>1, <1>2, <1>6, PromisesRest DEF InPlace
  <2>. QED  BY <2>1, <2>2
<1>8. InPlace => (conn.inTx <=> server'.status # "I")
  BY <1>1 DEF InPlace, Talking
<1>9. server' \in Servers /\ calls' \in 0..MaxCalls
  BY <1>1, <1>3 DEF Types
<1>. QED  BY <1>1, <1>2, <1>3, <1>5, <1>6, <1>7, <1>8, <1>9, RestKeeps

LEMMA CountUp == ASSUME calls \in 0..MaxCalls, calls < MaxCalls PROVE calls + 1 \in 0..MaxCalls
<1>1. \A m \in Nat : \A n \in 0..m : n < m => n + 1 \in 0..m
  OBVIOUS
<1>. QED  BY <1>1, PgClientAssumption

LEMMA SetAutocommitKeeps == ASSUME ClientInv, SetAutocommit PROVE ClientInv'
<1>1. /\ todo = <<>> /\ todo' = <<>> /\ conn.open /\ calls < MaxCalls /\ calls' = calls + 1
      /\ conn' = [conn EXCEPT !.auto = ~@] /\ past' = [past EXCEPT !.auto = ~@, !.ended = None]
      /\ UNCHANGED <<cursor, cache, unread, server>> /\ Always
  BY DEF SetAutocommit, ClientInv
<1>2. /\ conn.auto = past.auto /\ Types /\ conn \in Conns
      /\ cursor \in [AllCursors -> CursorStates]
  BY <1>1, Between
<1>. DEFINE a == ~conn.auto
<1>3. a \in BOOLEAN
  OBVIOUS
<1>4. conn' = [conn EXCEPT !.auto = a] /\ past' = [past EXCEPT !.auto = a, !.ended = None]
  BY <1>1, <1>2
<1>. HIDE DEF a
<1>5. /\ conn' \in Conns /\ conn'.auto = a /\ conn'.nums = conn.nums
      /\ conn'.held = conn.held /\ conn'.inTx = conn.inTx /\ conn'.open
  BY <1>1, <1>2, <1>3, <1>4 DEF Conns
<1>6. /\ past' \in Pasts /\ past'.auto = a /\ past'.started = past.started
      /\ past'.acked = past.acked
      /\ past'.derailed = past.derailed /\ past'.failed = past.failed
      /\ past'.pending = past.pending /\ past'.due = past.due /\ past'.ended = None
  BY <1>2, <1>3, <1>4 DEF Types, Pasts, Ids
<1>7. past.started
  BY <1>1 DEF Always
<1>8. InPlace => OwnRows' /\ Promises'
  <2>1. InPlace => OwnRows'
    BY <1>1 DEF InPlace, OwnRows
  <2>2. InPlace => Promises'
    BY <1>1, <1>6, PromisesRest DEF InPlace
  <2>. QED  BY <2>1, <2>2
<1>9. InPlace => (conn.inTx <=> server'.status # "I")
  BY <1>1 DEF InPlace, Talking
<1>10. server' \in Servers /\ calls' \in 0..MaxCalls
  BY <1>1, <1>2, CountUp DEF Types
<1>. QED  BY <1>1, <1>2, <1>5, <1>6, <1>7, <1>8, <1>9, <1>10, RestKeeps

LEMMA CloseKeeps == ASSUME ClientInv, Close PROVE ClientInv'
<1>1. /\ todo = <<>> /\ todo' = <<>> /\ conn.open /\ calls < MaxCalls /\ calls' = calls + 1
      /\ conn' = [conn EXCEPT !.open = FALSE] /\ server' = Ended(server)
      /\ UNCHANGED <<cursor, cache, unread, past>> /\ Always
  BY DEF Close, ClientInv
<1>2. /\ conn.auto = past.auto /\ Types /\ conn \in Conns
      /\ cursor \in [AllCursors -> CursorStates]
  BY <1>1, Between
<1>3. /\ conn' \in Conns /\ conn'.auto = conn.auto /\ conn'.nums = conn.nums
      /\ conn'.held = conn.held /\ conn'.inTx = conn.inTx /\ ~conn'.open
  BY <1>1, <1>2 DEF Conns
<1>4. /\ server' \in Servers /\ server'.status = "I" /\ server'.durable = server.durable
      /\ server'.prepared = server.prepared /\ server'.named = server.named
  BY <1>1, <1>2 DEF Types, Servers, Ended
<1>5. past.started /\ past \in Pasts
  BY <1>1, <1>2 DEF Always, Types
<1>6. InPlace => OwnRows' /\ Promises'
  <2>1. InPlace => OwnRows'
    BY <1>1 DEF InPlace, OwnRows
  <2>2. InPlace => Promises'
    BY <1>1, <1>3, <1>4, PromisesRest DEF InPlace
  <2>. QED  BY <2>1, <2>2
<1>7. calls' \in 0..MaxCalls
  BY <1>1, <1>2, CountUp DEF Types
<1>. QED  BY <1>1, <1>2, <1>3, <1>4, <1>5, <1>6, <1>7, RestKeeps

LEMMA FetchKeeps ==
    ASSUME ClientInv, NEW c \in Cursors \cup {"run"}, Fetch(c)
    PROVE  ClientInv'
<1>. DEFINE r == Tail(cursor[c].rows)
            d == [cursor[c] EXCEPT !.rows = r]
<1>1. /\ todo = <<>> /\ todo' = <<>> /\ cursor[c].rows # <<>>
      /\ cursor' = [cursor EXCEPT ![c].rows = Tail(@)]
      /\ UNCHANGED <<conn, cache, unread, server, calls, past>> /\ Always
  BY DEF Fetch, ClientInv
<1>2. /\ conn.auto = past.auto /\ Types /\ conn \in Conns
      /\ cursor \in [AllCursors -> CursorStates] /\ c \in AllCursors
  <2>1. c \in AllCursors
    BY DEF AllCursors
  <2>. QED  BY <1>1, <2>1, Between
<1>3. /\ r \in Seq(Messages) /\ \A i \in 1..Len(r) : i + 1 \in 1..Len(cursor[c].rows)
                                                     /\ r[i] = cursor[c].rows[i + 1]
  <2>1. cursor[c].rows \in Seq(Messages) /\ Len(cursor[c].rows) \in Nat
    BY <1>2, LenProperties DEF CursorStates
  <2>. DEFINE s == cursor[c].rows
  <2>. HIDE DEF s
  <2>2. s \in Seq(Messages) /\ s # <<>> /\ Len(s) \in Nat
    BY <1>1, <2>1 DEF s
  <2>3. /\ Tail(s) \in Seq(Messages) /\ Len(Tail(s)) = Len(s) - 1
        /\ \A i \in 1..Len(Tail(s)) : Tail(s)[i] = s[i + 1]
    BY <2>2, HeadTailProperties
  <2>4. \A i \in 1..(Len(s) - 1) : i + 1 \in 1..Len(s)
    BY <2>2
  <2>5. /\ Tail(s) \in Seq(Messages)
        /\ \A i \in 1..Len(Tail(s)) : i + 1 \in 1..Len(s) /\ Tail(s)[i] = s[i + 1]
    BY <2>3, <2>4
  <2>. QED  BY <2>5 DEF s
<1>4. cursor' = [cursor EXCEPT ![c] = d]
  BY <1>1, <1>2
<1>. HIDE DEF r
<1>5. d \in CursorStates /\ d.rows = r /\ d.desc = cursor[c].desc /\ d.count = cursor[c].count
  BY <1>2, <1>3 DEF CursorStates
<1>. HIDE DEF d
<1>6. cursor' \in [AllCursors -> CursorStates] /\ cursor'[c] = d
      /\ \A x \in AllCursors : x # c => cursor'[x] = cursor[x]
  BY <1>2, <1>4, <1>5
<1>7. InPlace => OwnRows' /\ Promises'
  <2>1. ASSUME InPlace, NEW x \in AllCursors PROVE OwnState(cursor'[x])
    <3>1. OwnState(cursor[x]) /\ OwnState(cursor[c])
      BY <1>2, <2>1 DEF InPlace, OwnRows, OwnState
    <3>2. OwnState(d)
      BY <1>3, <1>5, <3>1 DEF OwnState
    <3>. QED  BY <1>6, <3>1, <3>2
  <2>2. InPlace => OwnRows'
    <3>1. InPlace => \A x \in AllCursors : OwnState(cursor'[x])
      BY <2>1
    <3>. QED  BY <3>1 DEF OwnRows, OwnState
  <2>3. InPlace => Promises'
    BY <1>1, PromisesRest DEF InPlace
  <2>. QED  BY <2>2, <2>3
<1>8. InPlace /\ (conn.open \/ ~past.started) => (conn.inTx <=> server.status # "I")
  BY DEF InPlace, Talking
<1>9. /\ conn.open => past.started
      /\ past.started \/ past.acked = {}
      /\ server \in Servers /\ calls \in 0..MaxCalls /\ past \in Pasts
  BY <1>1, <1>2 DEF Always, Types
<1>. QED  BY <1>1, <1>2, <1>6, <1>7, <1>8, <1>9, RestKeeps

-----------------------------------------------------------------------------
LEMMA OtherCommitsKeeps ==
    ASSUME ClientInv, NEW gid \in Gids, OtherCommits(gid)
    PROVE  ClientInv'
<1>. DEFINE w == server.prepared[gid]
            d == server.durable \cup w
            f == Forget(server.prepared, gid)
<1>1. /\ gid \in DOMAIN server.prepared
      /\ server' = [server EXCEPT !.durable = d, !.prepared = f]
      /\ UNCHANGED <<conn, cursor, cache, unread, todo, calls, past>> /\ Always /\ Types
  BY DEF OtherCommits, ClientInv, Always
<1>2. /\ server \in Servers /\ server.durable \subseteq Nat /\ w \subseteq Nat
      /\ server.prepared \in Partials(Gids, Updates) /\ IsFiniteSet(DOMAIN server.prepared)
  <2>1. server \in Servers
    BY <1>1 DEF Types
  <2>. QED  BY <1>1, <2>1, ServerFields
<1>3. /\ f \in Partials(Gids, Updates) /\ DOMAIN f = DOMAIN server.prepared \ {gid}
      /\ IsFiniteSet(DOMAIN f)
  <2>. DEFINE g == server.prepared
  <2>1. g \in Partials(Gids, Updates) /\ IsFiniteSet(DOMAIN g)
    BY <1>2
  <2>. HIDE DEF g
  <2>2. /\ Forget(g, gid) \in Partials(Gids, Updates) /\ DOMAIN Forget(g, gid) = DOMAIN g \ {gid}
        /\ IsFiniteSet(DOMAIN Forget(g, gid))
    BY <2>1, Reduced
  <2>. QED  BY <2>2 DEF g
<1>4. \A h \in DOMAIN f : h \in DOMAIN server.prepared /\ f[h] = server.prepared[h]
  BY DEF Forget
<1>5. d \subseteq Nat /\ server.durable \subseteq d
  BY <1>2
<1>6. \A h : Held(server, h) \subseteq d \cup (IF h \in DOMAIN f THEN f[h] ELSE {})
  BY <1>3, <1>4 DEF Held
<1>. HIDE DEF d, f
<1>7. /\ server' \in Servers /\ server'.durable = d /\ server'.prepared = f
      /\ server'.status = server.status /\ server'.work = server.work
      /\ server'.named = server.named /\ server'.unnamed = server.unnamed
  BY <1>1, <1>2, <1>3, <1>5 DEF Servers
<1>8. \A h : Held(server, h) \subseteq d \cup Held(server', h)
  BY <1>6, <1>7 DEF Held
<1>9. Always'
  <2>1. Types'
    BY <1>1, <1>7 DEF Types
  <2>2. Kept'
    BY <1>1 DEF Always, Kept, KeptFor
  <2>. QED  BY <1>1, <2>1, <2>2 DEF Always, Step, Ending
<1>10. ASSUME ~past'.derailed PROVE InPlace'
  <2>1. InPlace
    BY <1>1, <1>10 DEF ClientInv, InPlace
  <2>2. NamesNow'
    <3>1. \A p : Closing(p) <=> Closing(p)'
      BY <1>1 DEF Closing, Step, At
    <3>2. (\A p \in Statements : cache[p] # None => \A o \in DOMAIN cache[p] :
              /\ cache[p][o].n \in DOMAIN server.named \/ ~Closing(p) => Entered(p, o)
              /\ cache[p][o].desc # "other")'
      BY <1>1, <1>7, <2>1, <3>1 DEF InPlace, NamesNow, Entered
    <3>3. (\A i \in 1..Len(todo) : todo[i].do = "close" =>
              \E p \in Statements :
                 /\ cache[p] # None /\ todo[Len(todo)].id = p
                 /\ \E o \in DOMAIN cache[p] : cache[p][o].n = todo[i].n)'
      BY <1>1, <2>1 DEF InPlace, NamesNow
    <3>4. /\ (DOMAIN server.named \subseteq conn.nums)'
          /\ (Step("prepared") => /\ Head(todo).n \in DOMAIN server.named
                                  /\ server.named[Head(todo).n] = <<Head(todo).p, Head(todo).o>>)'
          /\ (Step("closed") => Head(todo).n \notin DOMAIN server.named)'
      BY <1>1, <1>7, <2>1 DEF InPlace, NamesNow, Step
    <3>. QED  BY <3>2, <3>3, <3>4 DEF NamesNow
  <2>3. OwnRows'
    BY <1>1, <2>1 DEF InPlace, OwnRows
  <2>4. Talking'
    <3>1. Step("choose")' => \A h \in DOMAIN f :
             \E i \in 1..Len(cursor["list"].rows) : cursor["list"].rows[i].v = h
      BY <1>1, <1>4, <2>1 DEF InPlace, Talking, Step
    <3>2. (Step("choose") => \A h \in DOMAIN server.prepared :
              \E i \in 1..Len(cursor["list"].rows) : cursor["list"].rows[i].v = h)'
      BY <1>1, <1>7, <3>1
    <3>3. /\ unread' = <<>>
          /\ (conn.open \/ ~past.started => (conn.inTx <=> server.status # "I"))'
          /\ (conn.held => Step("execute"))'
          /\ (Step("describe") \/ Step("execute") =>
                server.unnamed = Head(todo).sql /\ server.status # "E")'
      BY <1>1, <1>7, <2>1 DEF InPlace, Talking, Step
    <3>. QED  BY <3>2, <3>3 DEF Talking
  <2>5. Begun'
    BY <1>1, <1>7, <2>1 DEF InPlace, Begun, Executes
  <2>6. Promises'
    <3>a. \A kind : Step(kind) <=> Step(kind)'
      BY <1>1 DEF Step
    <3>b. \A kind : At(kind) <=> At(kind)'
      BY <1>1, <3>a DEF At
    <3>c. \A kind : Ending(kind) <=> Ending(kind)'
      BY <1>1 DEF Ending
    <3>d. Undone <=> Undone'
      BY <1>1, <3>a, <3>b DEF Undone
    <3>e. Elsewhere <=> Elsewhere'
      BY <1>1, <3>a, <3>b, <3>c DEF Elsewhere
    <3>2. /\ server.status = "E" => past.failed
          /\ conn.open /\ ~past.failed /\ ~Undone => past.acked \subseteq server.work \cup server.durable
          /\ \A g \in DOMAIN past.pending :
                \/ past.pending[g] \subseteq server.durable \cup Held(server, g)
                \/ At("tpc") /\ Head(todo).sql.k = "rollback" /\ Head(todo).id = g
          /\ At("execute") /\ Head(todo).sql.k = "update" => calls \in server.work \cup server.durable
          /\ At("commit") \/ At("rollback") \/ At("prepare") \/ At("tpc") => server.status = "I"
          /\ At("prepare") /\ ~past.failed =>
                past.acked \subseteq server.durable \cup Held(server, Head(todo).id)
          /\ Formed => /\ Elsewhere => todo[Len(todo)].id \notin DOMAIN server.prepared
                       /\ past.ended # None => past.ended \notin DOMAIN server.prepared
                       /\ past.due \subseteq server.durable
      BY <2>1 DEF InPlace, Promises
    <3>f. (server.status = "E" => past.failed)'
      BY <1>1, <1>7, <3>2
    <3>g. (conn.open /\ ~past.failed /\ ~Undone =>
              past.acked \subseteq server.work \cup server.durable)'
      BY <1>1, <1>5, <1>7, <3>d, <3>2
    <3>h. (At("execute") /\ Head(todo).sql.k = "update" =>
              calls \in server.work \cup server.durable)'
      BY <1>1, <1>5, <1>7, <3>b, <3>2
    <3>i. (At("commit") \/ At("rollback") \/ At("prepare") \/ At("tpc") => server.status = "I")'
      BY <1>1, <1>7, <3>b, <3>2
    <3>4. \A g \in DOMAIN past.pending :
             \/ past.pending[g] \subseteq d \cup Held(server', g)
             \/ At("tpc") /\ Head(todo).sql.k = "rollback" /\ Head(todo).id = g
      BY <1>5, <1>8, <3>2
    <3>5. (\A g \in DOMAIN past.pending :
              \/ past.pending[g] \subseteq server.durable \cup Held(server, g)
              \/ At("tpc") /\ Head(todo).sql.k = "rollback" /\ Head(todo).id = g)'
      BY <1>1, <1>7, <3>b, <3>4 DEF Held
    <3>6. At("prepare") /\ ~past.failed => past.acked \subseteq d \cup Held(server', Head(todo).id)
      BY <1>5, <1>8, <3>2
    <3>7. (At("prepare") /\ ~past.failed =>
              past.acked \subseteq server.durable \cup Held(server, Head(todo).id))'
      BY <1>1, <1>7, <3>b, <3>6 DEF Held
    <3>j. Formed' <=> Formed
      BY DEF Formed
    <3>k. Formed /\ Elsewhere => todo[Len(todo)].id \notin DOMAIN f
      BY <1>3, <3>2
    <3>l. Formed /\ past.ended # None => past.ended \notin DOMAIN f
      BY <1>3, <3>2
    <3>m. Formed => past.due \subseteq d
      BY <1>5, <3>2
    <3>8. (Formed => /\ Elsewhere => todo[Len(todo)].id \notin DOMAIN server.prepared
                     /\ past.ended # None => past.ended \notin DOMAIN server.prepared
                     /\ past.due \subseteq server.durable)'
      BY <1>1, <1>7, <3>e, <3>j, <3>k, <3>l, <3>m
    <3>. QED  BY <3>f, <3>g, <3>h, <3>i, <3>5, <3>7, <3>8 DEF Promises
  <2>. QED  BY <2>2, <2>3, <2>4, <2>5, <2>6 DEF InPlace
<1>. QED  BY <1>9, <1>10 DEF ClientInv, InPlace

LEMMA NothingKeeps == ASSUME ClientInv, UNCHANGED vars PROVE ClientInv'
<1>1. UNCHANGED <<conn, cursor, cache, unread, server, todo, calls, past>>
  BY DEF vars
<1>a. \A kind : Step(kind) <=> Step(kind)'
  BY <1>1 DEF Step
<1>b. \A kind : At(kind) <=> At(kind)'
  BY <1>1, <1>a DEF At
<1>c. \A kind : Ending(kind) <=> Ending(kind)'
  BY <1>1 DEF Ending
<1>d. Undone <=> Undone'
  BY <1>1, <1>a, <1>b DEF Undone
<1>e. Elsewhere <=> Elsewhere'
  BY <1>1, <1>a, <1>b, <1>c DEF Elsewhere
<1>f. \A p : Closing(p) <=> Closing(p)'
  BY <1>1, <1>a, <1>b DEF Closing
<1>g. \A p, o : Entered(p, o) <=> Entered(p, o)'
  BY <1>1 DEF Entered
<1>h. Kept <=> Kept'
  BY <1>1 DEF Kept, KeptFor
<1>3. Types <=> Types'
  BY <1>1 DEF Types
<1>4. Always <=> Always'
  BY <1>1, <1>a, <1>c, <1>h, <1>3 DEF Always
<1>5. NamesNow <=> NamesNow'
  BY <1>1, <1>a, <1>f, <1>g DEF NamesNow
<1>6. OwnRows <=> OwnRows'
  BY <1>1 DEF OwnRows
<1>7. Talking <=> Talking'
  BY <1>1, <1>a DEF Talking
<1>8. Begun <=> Begun'
  BY <1>1 DEF Begun, Executes
<1>i. \A g : Held(server, g) = Held(server, g)'
  BY <1>1 DEF Held
<1>9. Promises => Promises'
  <2>. SUFFICES ASSUME Promises PROVE Promises'
    OBVIOUS
  <2>1. (\A g \in DOMAIN past.pending :
            \/ past.pending[g] \subseteq server.durable \cup Held(server, g)
            \/ At("tpc") /\ Head(todo).sql.k = "rollback" /\ Head(todo).id = g)'
    BY <1>1, <1>b, <1>i DEF Promises
  <2>2. (server.status = "E" => past.failed)'
    BY <1>1 DEF Promises
  <2>3. (conn.open /\ ~past.failed /\ ~Undone =>
            past.acked \subseteq server.work \cup server.durable)'
    BY <1>1, <1>d DEF Promises
  <2>4. (At("execute") /\ Head(todo).sql.k = "update" =>
            calls \in server.work \cup server.durable)'
    BY <1>1, <1>b DEF Promises
  <2>5. (At("commit") \/ At("rollback") \/ At("prepare") \/ At("tpc") => server.status = "I")'
    BY <1>1, <1>b DEF Promises
  <2>6. (At("prepare") /\ ~past.failed =>
            past.acked \subseteq server.durable \cup Held(server, Head(todo).id))'
    BY <1>1, <1>b, <1>i DEF Promises
  <2>7. (Formed => /\ Elsewhere => todo[Len(todo)].id \notin DOMAIN server.prepared
                   /\ past.ended # None => past.ended \notin DOMAIN server.prepared
                   /\ past.due \subseteq server.durable)'
    BY <1>1, <1>e DEF Promises, Formed
  <2>. QED  BY <2>1, <2>2, <2>3, <2>4, <2>5, <2>6, <2>7 DEF Promises
<1>. QED  BY <1>1, <1>4, <1>5, <1>6, <1>7, <1>8, <1>9 DEF ClientInv

LEMMA FirstState == ASSUME Init PROVE ClientInv
<1>1. /\ conn = [open |-> FALSE, auto |-> FALSE, inTx |-> FALSE, xid |-> None, nums |-> {},
                 held |-> FALSE]
      /\ cursor = [c \in AllCursors |-> NewCursor]
      /\ cache = [p \in Statements |-> <<>>]
      /\ unread = <<>>
      /\ server = [status |-> "I", work |-> {}, durable |-> {}, prepared |-> <<>>,
                   named |-> <<>>, unnamed |-> None]
      /\ todo = <<>> /\ calls = 0
      /\ past = [started |-> FALSE, auto |-> FALSE, derailed |-> FALSE, failed |-> FALSE,
                 acked |-> {}, pending |-> <<>>, due |-> {}, ended |-> None]
  BY DEF Init
<1>2. \A A, B : <<>> \in Partials(A, B)
  <2>. TAKE A, B
  <2>1. DOMAIN <<>> = {} /\ <<>> \in [{} -> B] /\ {} \subseteq A
    OBVIOUS
  <2>. QED  BY <2>1, InPartials
<1>3. DOMAIN <<>> = {} /\ IsFiniteSet({}) /\ Len(<<>>) = 0
  BY FS_EmptySet
<1>. DEFINE e == <<>>
<1>4. /\ DOMAIN e = {} /\ IsFiniteSet(DOMAIN e) /\ e \in Partials(Gids, Updates)
      /\ e \in Partials(Nat, Statements \X Oids) /\ e \in Partials(Oids, Entry)
      /\ \A i \in 1..Len(e) : FALSE
  BY <1>2, <1>3
<1>5. e \in Seq(Messages) /\ e \in Seq(Steps) /\ Chain(e)
  BY NoSteps
<1>6. /\ server = [status |-> "I", work |-> {}, durable |-> {}, prepared |-> e,
                   named |-> e, unnamed |-> None]
      /\ past = [started |-> FALSE, auto |-> FALSE, derailed |-> FALSE, failed |-> FALSE,
                 acked |-> {}, pending |-> e, due |-> {}, ended |-> None]
      /\ cache = [p \in Statements |-> e] /\ todo = e /\ unread = e
  BY <1>1
<1>7. NewCursor \in CursorStates /\ OwnState(NewCursor)
  <2>1. NewCursor \in CursorStates
    BY DEF NewCursor, CursorStates, Descs
  <2>2. None # "other"
    BY PgClientAssumption
  <2>3. NewCursor.rows = <<>> /\ NewCursor.desc = None /\ NewCursor.count = None
    BY DEF NewCursor
  <2>4. \A i \in 1..Len(NewCursor.rows) : FALSE
    BY <2>3
  <2>. QED  BY <2>1, <2>2, <2>3, <2>4 DEF OwnState
<1>. HIDE DEF e
<1>8. /\ server \in Servers /\ server.status = "I" /\ server.work = {}
      /\ DOMAIN server.named = {} /\ DOMAIN server.prepared = {} /\ server.durable = {}
  BY <1>4, <1>6 DEF Servers
<1>9. /\ past \in Pasts /\ past.auto = FALSE /\ past.acked = {} /\ past.pending = e
      /\ past.due = {} /\ past.ended = None /\ ~past.started
  BY <1>4, <1>6 DEF Pasts, Ids
<1>10. conn \in Conns
  BY <1>1, <1>3 DEF Conns
<1>11. cache \in [Statements -> Cached \cup {None}]
  BY <1>4, <1>6 DEF Cached
<1>12. calls \in 0..MaxCalls
  <2>1. \A m \in Nat : 0 \in 0..m
    OBVIOUS
  <2>. QED  BY <1>1, <2>1, PgClientAssumption
<1>13. Types
  BY <1>1, <1>5, <1>6, <1>7, <1>8, <1>9, <1>10, <1>11, <1>12 DEF Types
<1>14. \A kind : ~Step(kind) /\ ~At(kind) /\ ~Ending(kind)
  BY <1>1 DEF Step, At, Ending
<1>15. ~Elsewhere /\ ~Undone /\ \A p : ~Closing(p)
  BY <1>14 DEF Elsewhere, Undone, Closing
<1>16. Always
  <2>1. Kept
    BY <1>4, <1>6 DEF Kept
  <2>. QED  BY <1>1, <1>5, <1>6, <1>9, <1>13, <1>14, <2>1 DEF Always
<1>17. NamesNow
  <2>1. \A p \in Statements : DOMAIN cache[p] = {}
    BY <1>4, <1>6
  <2>2. \A i \in 1..Len(todo) : FALSE
    BY <1>4, <1>6
  <2>. QED  BY <1>8, <1>14, <2>1, <2>2 DEF NamesNow
<1>18. OwnRows
  <2>1. \A c \in AllCursors : OwnState(cursor[c])
    BY <1>1, <1>7
  <2>. QED  BY <2>1 DEF OwnRows, OwnState
<1>19. Talking
  BY <1>1, <1>8, <1>14 DEF Talking
<1>20. Begun
  BY <1>1 DEF Begun
<1>21. Promises
  BY <1>4, <1>8, <1>9, <1>14, <1>15 DEF Promises
<1>. QED  BY <1>16, <1>17, <1>18, <1>19, <1>20, <1>21 DEF ClientInv

-----------------------------------------------------------------------------
(***************************************************************************)
(* The invariant, and what it says of the connection.                      *)
(***************************************************************************)

LEMMA NextKeeps == ASSUME ClientInv, Next PROVE ClientInv'
<1>1. CASE \E auth \in {"trust", "cleartext", "md5", "scram", "gss"},
              w \in {"none", "right", "wrong"} : Connect(auth, w)
  BY <1>1, ConnectKeeps
<1>2. CASE \E c \in Cursors, k \in Operations, params, stream \in BOOLEAN :
              /\ stream => k = "copy out" /\ params
              /\ Execute(c, SQL(k), params, stream)
  BY <1>2, ExecuteKeeps
<1>3. CASE \E p \in Statements : ClosePrepared(p) \/ \E o \in Oids : RunPrepared(p, o)
  BY <1>3, ClosePreparedKeeps, RunPreparedKeeps
<1>4. CASE SimpleQuery
  BY <1>4, SimpleQueryKeeps
<1>5. CASE ParseUnnamed
  BY <1>5, ParseUnnamedKeeps
<1>6. CASE DescribeUnnamed
  BY <1>6, DescribeUnnamedKeeps
<1>7. CASE BindExecute
  BY <1>7, BindExecuteKeeps
<1>8. CASE PrepareNamed
  BY <1>8, PrepareNamedKeeps
<1>9. CASE KeepPrepared
  BY <1>9, KeepPreparedKeeps
<1>10. CASE ExecuteNamed
  BY <1>10, ExecuteNamedKeeps
<1>11. CASE CloseNamed
  BY <1>11, CloseNamedKeeps
<1>12. CASE FreeNumber
  BY <1>12, FreeNumberKeeps
<1>13. CASE Commit
  BY <1>13, CommitKeeps
<1>14. CASE Rollback
  BY <1>14, RollbackKeeps
<1>15. CASE SetAutocommit
  BY <1>15, SetAutocommitKeeps
<1>16. CASE \E gid \in Gids, form \in Forms : TpcBegin(gid, form)
  BY <1>16, TpcBeginKeeps
<1>17. CASE TpcPrepare
  BY <1>17, TpcPrepareKeeps
<1>18. ASSUME NEW method \in {"commit", "rollback"}, conn.xid # None, Tpc(method, conn.xid)
       PROVE  ClientInv'
  <2>1. conn \in Conns
    BY DEF ClientInv, Always, Types
  <2>2. conn.xid \in Xids
    BY <1>18, <2>1 DEF Conns
  <2>. QED  BY <1>18, <2>2, TpcKeeps
<1>19. ASSUME NEW method \in {"commit", "rollback"}, NEW gid \in Gids, NEW form \in Forms,
              Tpc(method, [gid |-> gid, form |-> form])
       PROVE  ClientInv'
  <2>1. [gid |-> gid, form |-> form] \in Xids
    BY PgClientAssumption DEF Xids
  <2>. QED  BY <1>19, <2>1, TpcKeeps
<1>20. CASE Choose
  BY <1>20, ChooseKeeps
<1>21. CASE Return
  BY <1>21, ReturnKeeps
<1>22. CASE \E c \in Cursors \cup {"run"} : Fetch(c)
  BY <1>22, FetchKeeps
<1>23. CASE Close
  BY <1>23, CloseKeeps
<1>24. CASE \E gid \in Gids : OtherCommits(gid)
  BY <1>24, OtherCommitsKeeps
<1>. QED  BY <1>1, <1>2, <1>3, <1>4, <1>5, <1>6, <1>7, <1>8, <1>9, <1>10, <1>11, <1>12, <1>13,
             <1>14, <1>15, <1>16, <1>17, <1>18, <1>19, <1>20, <1>21, <1>22, <1>23, <1>24 DEF Next

\* In every reachable state the invariant holds: whatever the calls and their
\* order, each exchange reads the whole of its own answer until a handler has
\* raised in the middle of one, and names, rows and promises follow from that.
THEOREM ClientInvariant == Spec => []ClientInv
<1>1. Init => ClientInv
  BY FirstState
<1>2. ClientInv /\ [Next]_vars => ClientInv'
  BY NextKeeps, NothingKeeps
<1>. QED  BY <1>1, <1>2, PTL DEF Spec

LEMMA FieldsRight ==
    ASSUME Types
    PROVE  /\ server \in Servers /\ conn \in Conns /\ past \in Pasts /\ calls \in 0..MaxCalls
           /\ \A c \in AllCursors : /\ cursor[c].desc \in Descs
                                    /\ DOMAIN cursor[c].rows = 1..Len(cursor[c].rows)
<1>1. /\ server \in Servers /\ conn \in Conns /\ past \in Pasts /\ calls \in 0..MaxCalls
      /\ cursor \in [AllCursors -> CursorStates]
  BY DEF Types
<1>2. \A c \in AllCursors : cursor[c].desc \in Descs /\ cursor[c].rows \in Seq(Messages)
  BY <1>1 DEF CursorStates
<1>3. \A s \in Seq(Messages) : DOMAIN s = 1..Len(s)
  OBVIOUS
<1>. QED  BY <1>1, <1>2, <1>3

LEMMA WellFormed == ASSUME ClientInv PROVE TypeOK
<1>1. Types
  BY DEF ClientInv, Always
<1>2. server \in Servers /\ conn \in Conns
  BY <1>1, FieldsRight
<1>3. /\ server.status \in {"I", "T", "E"}
      /\ server.status = "I" => server.work = {}
  BY <1>2, ServerFields
<1>4. conn.nums \subseteq Nat
  BY <1>2 DEF Conns
<1>5. \A c \in AllCursors : cursor[c].desc \in {None, "empty", "own", "other"}
  BY <1>1, FieldsRight DEF Descs
<1>6. calls \in 0..MaxCalls
  BY <1>1, FieldsRight
<1>7. conn.held /\ ~past.derailed => Step("execute")
  BY DEF ClientInv, Talking
<1>. QED  BY <1>3, <1>4, <1>5, <1>6, <1>7 DEF TypeOK

\* The client stays in step with the backend: between calls it has read all it
\* was sent, knows whether a transaction is open, and every row, description and
\* count a cursor holds answers that cursor's own statement, until a handler has
\* raised in the middle of an answer.
THEOREM StaysInStep == Spec => []InStep
<1>1. ClientInv => InStep
  <2>. SUFFICES ASSUME ClientInv PROVE InStep
    OBVIOUS
  <2>1. ASSUME Quiet, ~past.derailed
        PROVE  /\ unread = <<>>
               /\ conn.inTx <=> (server.status # "I")
               /\ \A c \in AllCursors :
                    /\ "other" \notin {cursor[c].desc, cursor[c].count}
                    /\ \A i \in DOMAIN cursor[c].rows : cursor[c].rows[i].own
    <3>1. Types /\ Talking /\ OwnRows /\ conn.open
      BY <2>1 DEF ClientInv, Always, Quiet
    <3>2. \A c \in AllCursors : DOMAIN cursor[c].rows = 1..Len(cursor[c].rows)
      BY <3>1, FieldsRight
    <3>3. unread = <<>> /\ (conn.inTx <=> (server.status # "I"))
      BY <3>1 DEF Talking
    <3>. QED  BY <3>1, <3>2, <3>3 DEF OwnRows
  <2>. QED  BY <2>1, WellFormed DEF InStep
<1>. QED  BY <1>1, ClientInvariant, PTL

\* Names of prepared statements agree: what the server knows is not handed out
\* again, and what the cache of a statement names is what the server prepared
\* for that statement and those types.
THEOREM NamesStayAgreed == Spec => []NamesAgree
<1>1. ClientInv => NamesAgree
  <2>. SUFFICES ASSUME ClientInv, ~past.derailed PROVE NamesAgree
    BY DEF NamesAgree
  <2>1. NamesNow
    BY DEF ClientInv
  <2>2. ASSUME Quiet PROVE \A p : ~Closing(p)
    BY <2>2 DEF Quiet, Closing, Step, At
  <2>3. DOMAIN server.named \subseteq conn.nums
    BY <2>1 DEF NamesNow
  <2>4. ASSUME Quiet, NEW p \in Statements, cache[p] # None, NEW o \in DOMAIN cache[p]
        PROVE  cache[p][o].n \in DOMAIN server.named /\ server.named[cache[p][o].n] = <<p, o>>
    BY <2>1, <2>2, <2>4 DEF NamesNow, Entered
  <2>. QED  BY <2>3, <2>4 DEF NamesAgree
<1>. QED  BY <1>1, ClientInvariant, PTL

\* commit, and tpc_commit after tpc_prepare, keep what they promise when every
\* xid is of the form tpc_recover makes: every update acknowledged in a
\* transaction of which no call raised is durable.
THEOREM CommitsHonest == ASSUME FALSE \notin Forms PROVE Spec => []CommitHonest
<1>1. ClientInv => CommitHonest
  BY DEF ClientInv, Promises, Formed, CommitHonest
<1>. QED  BY <1>1, ClientInvariant, PTL

\* Between calls autocommit is what the application set it to, whatever raised in
\* the call before and whatever form an xid had: the finally clauses of tpc_commit
\* and tpc_rollback put it back.
THEOREM AutocommitRestored == Spec => [](Quiet => conn.auto = past.auto)
<1>1. ClientInv => (Quiet => conn.auto = past.auto)
  BY Between DEF ClientInv, Quiet
<1>. QED  BY <1>1, ClientInvariant, PTL

\* A tpc_commit or tpc_rollback that returned, of an xid as tpc_recover forms it, leaves its
\* transaction not prepared, and whatever raised autocommit is what the
\* application set it to.
THEOREM TpcsEnd == ASSUME FALSE \notin Forms PROVE Spec => []TpcEnds
<1>1. ClientInv => TpcEnds
  <2>. SUFFICES ASSUME ClientInv PROVE TpcEnds
    OBVIOUS
  <2>1. past.ended # None /\ ~past.derailed => past.ended \notin DOMAIN server.prepared
    BY DEF ClientInv, Promises, Formed
  <2>2. Quiet => conn.auto = past.auto
    BY Between DEF ClientInv, Quiet
  <2>. QED  BY <2>1, <2>2 DEF TpcEnds
<1>. QED  BY <1>1, ClientInvariant, PTL

-----------------------------------------------------------------------------
(***************************************************************************)
(* What may make an update durable.                                        *)
(***************************************************************************)

DurableFor(sql) ==
    server'.durable # server.durable => past.auto \/ sql.k \in {"commit", "commit prepared"}

\* A statement run for a step that executes one, or that is no update.
LEMMA RanDurable ==
    ASSUME ClientInv, ~past.derailed, todo # <<>>, NEW sql \in Sqls,
           sql.k = "update" => Executes(Head(todo)),
           server'.durable = Ran(server, sql).durable
    PROVE  DurableFor(sql)
<1>1. server \in Servers /\ calls \in Nat
  <2>1. server \in Servers /\ calls \in 0..MaxCalls
    BY FieldsRight DEF ClientInv, Always
  <2>. QED  BY <2>1, UpToIsNat, PgClientAssumption
<1>2. Changes(server, sql, Ran(server, sql))
  BY <1>1, RanRight DEF Effects
<1>3. server'.durable # server.durable =>
         \/ sql.k = "update" /\ server.status = "I"
         \/ sql.k \in {"commit", "commit prepared"}
  BY <1>2 DEF Changes
<1>4. Begun
  BY DEF ClientInv
<1>. QED  BY <1>3, <1>4 DEF DurableFor, Begun

LEMMA QueryDurable ==
    ASSUME ClientInv, ~past.derailed, SimpleQuery
    PROVE  DurableFor(Head(todo).sql)
<1>. DEFINE st == Head(todo)
            r == Ran(server, st.sql)
            x == [r EXCEPT !.unnamed = None]
<1>1. todo # <<>> /\ st.do = "query" /\ Always /\ Talking
  BY DEF SimpleQuery, Step, ClientInv
<1>2. /\ server \in Servers /\ calls \in Nat /\ st \in Steps
      /\ Tail(todo) = <<>> => Ends(st)
      /\ Tail(todo) # <<>> => Follows(st, Head(Tail(todo)))
  BY <1>1, InHand
<1>3. st.sql \in Sqls
  BY <1>1, <1>2, StepFields
<1>4. st.sql.k = "update" => Executes(st)
  <2>. SUFFICES ASSUME st.sql.k = "update" PROVE st.sql.k \in Operations
    BY <1>1 DEF Executes
  <2>1. Tail(todo) # <<>>
    BY <1>1, <1>2 DEF Ends
  <2>2. FollowsQuery(st, Head(Tail(todo)))
    BY <1>1, <1>2, <2>1 DEF Follows
  <2>. QED  BY <2>2 DEF FollowsQuery
<1>5. ~BindLost
  BY <1>1, BindIsKept
<1>6. server' = x
  BY Zenon, <1>5 DEF SimpleQuery, Exchange, Unless
<1>7. r \in Servers
  BY <1>2, <1>3, RanRight
<1>. HIDE DEF r
<1>8. x.durable = r.durable
  BY <1>7, ServerNamed
<1>9. server'.durable = Ran(server, st.sql).durable
  BY <1>6, <1>8 DEF r
<1>. QED  BY <1>1, <1>3, <1>4, <1>9, RanDurable

LEMMA BindDurable ==
    ASSUME ClientInv, ~past.derailed, BindExecute
    PROVE  DurableFor(Head(todo).sql)
<1>. DEFINE st == Head(todo)
<1>1. todo # <<>> /\ st.do = "execute" /\ Always /\ Talking /\ Step("execute")
  BY DEF BindExecute, Step, ClientInv
<1>2. st \in Steps
  BY <1>1, InHand
<1>3. st.sql \in Sqls
  BY <1>1, <1>2, StepFields, AskedSqls
<1>4. ~BindLost /\ server.unnamed = st.sql
  BY <1>1, BindIsKept DEF Talking
<1>5. server' = Ran(server, st.sql)
  BY Zenon, <1>4 DEF BindExecute, Exchange
<1>6. Executes(st)
  BY <1>1 DEF Executes
<1>. QED  BY <1>1, <1>3, <1>5, <1>6, RanDurable

LEMMA NamedDurable ==
    ASSUME ClientInv, ~past.derailed, ExecuteNamed, server'.durable # server.durable
    PROVE  past.auto
<1>. DEFINE st == Head(todo)
            kept == cache[st.p][st.o]
            found == kept.n \in DOMAIN server.named
            sql == SQL(KindOf[server.named[kept.n][1]])
<1>1. todo # <<>> /\ st.do = "run" /\ Always /\ Talking
  BY Zenon DEF ExecuteNamed, Step, ClientInv
<1>2. server \in Servers /\ calls \in Nat
  BY <1>1, InHand
<1>3. ~BindLost
  BY <1>1, BindIsKept
<1>4. server' = IF found THEN Ran(server, sql) ELSE ParseError(server)
  BY ZenonT(30), <1>3 DEF ExecuteNamed, Exchange, Unless
<1>5. found
  BY ZenonT(30), <1>2, <1>4, ParseErrorRight
<1>6. /\ server.named[kept.n][1] \in Statements
      /\ KindOf[server.named[kept.n][1]] \in {"select", "update", "failing"}
  <2>1. server.named \in [DOMAIN server.named -> Statements \X Oids]
    BY <1>2, ServerFields, InPartials
  <2>. QED  BY Zenon, <1>5, <2>1, PgClientAssumption
<1>7. sql \in Sqls /\ sql.k \notin {"commit", "commit prepared"}
  BY Zenon, <1>6 DEF SQL, Sqls, Ids, Texts
<1>. HIDE DEF sql, kept
<1>8. Executes(st)
  BY <1>1 DEF Executes
<1>9. server' = Ran(server, sql)
  BY <1>4, <1>5
<1>10. DurableFor(sql)
  BY <1>1, <1>7, <1>8, <1>9, RanDurable
<1>. QED  BY <1>7, <1>10 DEF DurableFor

\* The other exchanges change nothing that lasts.
LEMMA NothingDurable ==
    ASSUME ClientInv,
           ParseUnnamed \/ DescribeUnnamed \/ PrepareNamed \/ CloseNamed
    PROVE  server'.durable = server.durable
<1>1. server \in Servers /\ Always
  BY FieldsRight DEF ClientInv, Always
<1>. DEFINE e == ParseError(server)
<1>2. e \in Servers /\ e.durable = server.durable
  BY <1>1, ParseErrorRight
<1>3. ASSUME NEW u PROVE /\ [server EXCEPT !.unnamed = u].durable = server.durable
                         /\ [e EXCEPT !.unnamed = u].durable = server.durable
                         /\ [server EXCEPT !.named = u].durable = server.durable
  BY <1>1, <1>2 DEF Servers
<1>. HIDE DEF e
<1>4. CASE ParseUnnamed
  <2>. DEFINE sv == IF ParseFails(server, Head(todo).sql) THEN [e EXCEPT !.unnamed = None]
                    ELSE [server EXCEPT !.unnamed = Head(todo).sql]
  <2>1. server' = IF BindLost THEN e ELSE sv
    BY Zenon, <1>4 DEF ParseUnnamed, Exchange, Unless, e
  <2>. QED  BY <1>2, <1>3, <2>1
<1>5. CASE DescribeUnnamed
  <2>1. server' = e \/ server' = server
    BY Zenon, <1>5 DEF DescribeUnnamed, Exchange, e
  <2>. QED  BY <1>2, <2>1
<1>6. CASE PrepareNamed
  <2>1. server' = e \/ \E u : server' = [server EXCEPT !.named = u]
    BY Zenon, <1>6 DEF PrepareNamed, Exchange, Unless, e
  <2>. QED  BY Zenon, <1>2, <1>3, <2>1
<1>7. CASE CloseNamed
  <2>1. server' = e \/ \E u : server' = [server EXCEPT !.named = u]
    BY Zenon, <1>7 DEF CloseNamed, Exchange, Unless, e
  <2>. QED  BY <1>2, <1>3, <2>1
<1>. QED  BY <1>4, <1>5, <1>6, <1>7

\* No work strays: while autocommit is off, an update of this connection becomes
\* durable in an exchange that commits and in no other, for every statement was
\* preceded by the begin it needed; nothing else a call does makes it durable.
THEOREM WorkNeverStrays == Spec => NoStrayWork
<1>1. ClientInv /\ [Next]_vars => [DurableByCommit]_vars
  <2>. SUFFICES ASSUME ClientInv, Next, server'.durable # server.durable, ~past.derailed,
                       todo' # todo
                PROVE  past.auto \/ Head(todo).sql.k \in {"commit", "commit prepared"}
    BY DEF DurableByCommit
  <2>1. CASE SimpleQuery \/ BindExecute
    BY <2>1, QueryDurable, BindDurable DEF DurableFor
  <2>2. CASE ExecuteNamed
    BY <2>2, NamedDurable
  <2>3. CASE ParseUnnamed \/ DescribeUnnamed \/ PrepareNamed \/ CloseNamed
    BY <2>3, NothingDurable
  <2>4. CASE \E gid \in Gids : OtherCommits(gid)
    BY <2>4 DEF OtherCommits
  <2>5. CASE Close
    <3>1. server' = Ended(server) /\ server \in Servers
      BY <2>5, FieldsRight DEF Close, ClientInv, Always
    <3>2. Ended(server).durable = server.durable
      BY <3>1 DEF Ended, Servers
    <3>. QED  BY <3>1, <3>2
  <2>6. CASE KeepPrepared \/ FreeNumber \/ SetAutocommit \/ Choose \/ Return
             \/ Commit \/ Rollback \/ TpcPrepare
    BY Zenon, <2>6
        DEF KeepPrepared, FreeNumber, SetAutocommit, Choose, Return, Commit, Rollback, TpcPrepare
  <2>7. CASE \E gid \in Gids, form \in Forms : TpcBegin(gid, form)
    BY <2>7 DEF TpcBegin
  <2>8. ASSUME NEW method, NEW xid, Tpc(method, xid) PROVE FALSE
    BY <2>8 DEF Tpc
  <2>9. CASE \E auth \in {"trust", "cleartext", "md5", "scram", "gss"},
                w \in {"none", "right", "wrong"} : Connect(auth, w)
    BY <2>9 DEF Connect
  <2>10. CASE \E c \in Cursors, k \in Operations, params, stream \in BOOLEAN :
                 /\ stream => k = "copy out" /\ params
                 /\ Execute(c, SQL(k), params, stream)
    BY <2>10 DEF Execute
  <2>11. CASE \E p \in Statements : ClosePrepared(p) \/ \E o \in Oids : RunPrepared(p, o)
    BY <2>11 DEF ClosePrepared, RunPrepared
  <2>12. CASE \E c \in Cursors \cup {"run"} : Fetch(c)
    BY <2>12 DEF Fetch
  <2>. QED  BY <2>1, <2>2, <2>3, <2>4, <2>5, <2>6, <2>7, <2>8, <2>9, <2>10, <2>11, <2>12 DEF Next
<1>. QED  BY <1>1, ClientInvariant, PTL DEF Spec, NoStrayWork
=============================================================================
