------------------------ MODULE ScramExchangeProofs ------------------------
(***************************************************************************)
(* For any users, passwords and accounts, any order of calls and any       *)
(* delivery of messages, each side of the exchange trusts the other only   *)
(* for what both signed in this exchange.  The argument is about who can   *)
(* have made what is on the wire (WireOk): a proof that ends in the        *)
(* server's nonce is the client's own, and a signature over a nonce that   *)
(* begins with the client's is the server's own.                           *)
(***************************************************************************)
EXTENDS ScramExchange, SequenceTheorems, TLAPS

\* The fields of the two objects.
ClientFields ==
    /\ client = [f \in {"stage", "username", "password", "nonce", "bare", "full", "salt",
                        "i", "auth", "expects", "trusts"} |-> client[f]]
    /\ client.nonce = "c1"
ServerFields ==
    /\ server = [f \in {"stage", "nonce", "full", "user", "bare", "first", "keys", "auth",
                        "signature", "trusts"} |-> server[f]]
    /\ server.nonce = "s1"
Fields == ClientFields /\ ServerFields

\* The keys the client's password gives with the salt it was told.
ClientSalted == Salted(client.password, client.salt, client.i)

\* What the client signs holds a nonce that begins with its own, and what it
\* expects is a signature over that.
ClientOk ==
    /\ client.stage \in 0..4 /\ client.trusts \in BOOLEAN
    /\ (client.bare # NoMessage) <=> (client.stage >= 1)
    /\ client.auth # Nothing =>
          client.stage >= 2 /\ client.auth[3] = client.full /\ client.full[1] = "c1"
    /\ client.expects # Nothing =>
          /\ client.stage >= 3 /\ client.auth # Nothing
          /\ client.expects = Signature(ServerKey(ClientSalted), client.auth)

\* The server's keys are those of its user's account, and it signs after it has
\* trusted.
ServerOk ==
    /\ server.stage \in 0..4 /\ server.trusts \in BOOLEAN
    /\ server.trusts => server.stage >= 3 /\ server.auth # Nothing
    /\ server.keys # Nothing =>
          /\ server.stage >= 1 /\ server.user \in DOMAIN Accounts
          /\ server.keys = Salted(Accounts[server.user], SaltOf[server.user], Iterations)
    /\ server.auth # Nothing =>
          server.stage >= 2 /\ server.keys # Nothing /\ server.auth[3] = server.full
    /\ server.signature # Nothing => server.stage >= 3 /\ server.trusts

\* Who trusts, and for what.
Trust ==
    /\ server.trusts =>
          /\ client.stage >= 3 /\ client.auth = server.auth
          /\ Prep[client.password] = Accounts[server.user]
    /\ client.trusts =>
          /\ server.trusts /\ client.full = server.full
          /\ client.expects = server.signature
Bounds == calls \in 0..MaxCalls /\ raised \subseteq {"client", "server"}

\* A final message is of the earlier exchange, or made by its owner in this one.
ClientMade(m) ==
    /\ client.stage >= 3 /\ client.auth # Nothing
    /\ m.p = Over(ClientKey(ClientSalted), Signature(StoredKey(ClientSalted), client.auth))
ServerMade(m) == server.signature # Nothing /\ m.v = server.signature
WireOk ==
    \A m \in wire :
       /\ m.kind = "client final" => m.r[Len(m.r)] = "s0" \/ ClientMade(m)
       /\ m.kind = "server final" =>
             \/ m.v # Nothing /\ m.v[3][3][1] = "c0"
             \/ ServerMade(m)

ScramInv == Fields /\ ClientOk /\ ServerOk /\ WireOk /\ Trust /\ Bounds

-----------------------------------------------------------------------------

\* The earlier exchange's nonces are not of this one.
LEMMA EarlierFinals ==
    ASSUME NEW user \in DOMAIN Accounts, NEW m \in EarlierExchange(user)
    PROVE  /\ m.kind = "client final" => m.r[Len(m.r)] = "s0"
           /\ m.kind = "server final" => m.v # Nothing /\ m.v[3][3][1] = "c0"
<1>. DEFINE nonce  == <<"c0", "s0">>
            first  == ServerFirst(nonce, SaltOf[user], Iterations)
            bare   == ClientFirst(user, <<"c0">>)
            auth   == AuthMessage(nonce, bare, first)
            salted == Salted(Accounts[user], SaltOf[user], Iterations)
            proof  == Over(ClientKey(salted), Signature(StoredKey(salted), auth))
            sign   == Signature(ServerKey(salted), auth)
<1>1. m \in {bare, first, ClientFinal(nonce, proof), ServerFinal(sign)}
  BY DEF EarlierExchange
<1>2. nonce[Len(nonce)] = "s0" /\ nonce[1] = "c0"
  <2>1. Len(nonce) = 2
    OBVIOUS
  <2>. QED  BY <2>1
<1>3. auth[3] = nonce
  BY DEF AuthMessage
<1>4. sign # Nothing /\ sign[3] = auth
  BY DEF Signature, Nothing
<1>. HIDE DEF nonce, first, bare, auth, sign, proof
<1>5. CASE m = bare
  <2>1. m.kind = "client first"
    BY <1>5 DEF bare, ClientFirst
  <2>. QED  BY <2>1
<1>6. CASE m = first
  <2>1. m.kind = "server first"
    BY <1>6 DEF first, ServerFirst
  <2>. QED  BY <2>1
<1>7. CASE m = ClientFinal(nonce, proof)
  <2>1. m.kind = "client final" /\ m.r = nonce
    BY <1>7 DEF ClientFinal
  <2>. QED  BY <1>2, <2>1
<1>8. CASE m = ServerFinal(sign)
  <2>1. m.kind = "server final" /\ m.v = sign
    BY <1>8 DEF ServerFinal
  <2>. QED  BY <1>2, <1>3, <1>4, <2>1
<1>. QED  BY <1>1, <1>5, <1>6, <1>7, <1>8

LEMMA Start == Init => ScramInv
<1>. SUFFICES ASSUME Init PROVE ScramInv
  OBVIOUS
<1>1. PICK user \in Users, password \in Passwords : client = NewClient(user, password, "c1")
  BY DEF Init
<1>2. Fields /\ ClientOk /\ ServerOk
  <2>1. Fields
    BY <1>1 DEF Init, NewClient, NewServer, Fields, ClientFields, ServerFields
  <2>2. ClientOk /\ ServerOk
    BY <1>1 DEF Init, NewClient, NewServer, ClientOk, ServerOk
  <2>. QED  BY <2>1, <2>2
<1>3. WireOk
  BY EarlierFinals DEF Init, WireOk
<1>4. Trust /\ Bounds
  BY <1>1, ScramAssumption DEF Init, NewClient, NewServer, Trust, Bounds
<1>. QED  BY <1>2, <1>3, <1>4 DEF ScramInv

\* A key comes off a proof only under the signature that was put over it, and
\* equal signatures are of equal keys over equal messages.
LEMMA ProofOpens ==
    ASSUME NEW mine, NEW yours, NEW a, NEW b,
           <<"hash", TakenOff(Over(ClientKey(mine), Signature(StoredKey(mine), a)),
                              Signature(StoredKey(yours), b))>> = StoredKey(yours)
    PROVE  a = b /\ mine = yours
<1>1. TakenOff(Over(ClientKey(mine), Signature(StoredKey(mine), a)),
               Signature(StoredKey(yours), b)) = ClientKey(yours)
  BY DEF StoredKey
<1>2. Signature(StoredKey(mine), a) = Signature(StoredKey(yours), b)
  BY <1>1 DEF TakenOff, Over, ClientKey
<1>. QED  BY <1>2 DEF Signature, StoredKey, ClientKey

\* The bounds, whatever is called.
LEMMA Bounded ==
    ASSUME Bounds, NEW fresh, Call(fresh), NEW who \in {"client", "server"},
           Raise(who) \/ UNCHANGED raised
    PROVE  Bounds'
<1>1. calls' \in 0..MaxCalls
  BY ScramAssumption DEF Bounds, Call
<1>2. raised' \subseteq {"client", "server"}
  BY DEF Bounds, Raise
<1>. QED  BY <1>1, <1>2 DEF Bounds

\* A call out of turn leaves both objects as they are.
LEMMA OutOfTurnStep ==
    ASSUME ScramInv, NEW who \in {"client", "server"}, NEW side, NEW stage,
           OutOfTurn(who, side, stage)
    PROVE  ScramInv'
<1>1. UNCHANGED <<client, server, wire>>
  BY DEF OutOfTurn
<1>2. Bounds'
  BY Bounded DEF ScramInv, OutOfTurn
<1>3. Fields' /\ ClientOk' /\ ServerOk' /\ Trust'
  BY <1>1 DEF ScramInv, Fields, ClientFields, ServerFields, ClientOk, ServerOk, Trust,
              ClientSalted
<1>4. WireOk'
  BY <1>1 DEF ScramInv, WireOk, ClientMade, ServerMade, ClientSalted
<1>. QED  BY <1>2, <1>3, <1>4 DEF ScramInv

\* A client whose message is refused: only its stage moves.
LEMMA ClientRefuses ==
    ASSUME ScramInv, NEW stage \in 2..4, client.stage = stage - 1,
           client' = [client EXCEPT !.stage = stage], UNCHANGED <<server, wire>>, Bounds'
    PROVE  ScramInv'
<1>1. /\ client'.stage = stage /\ client'.password = client.password
      /\ client'.bare = client.bare /\ client'.full = client.full
      /\ client'.salt = client.salt /\ client'.i = client.i /\ client'.auth = client.auth
      /\ client'.expects = client.expects /\ client'.trusts = client.trusts
  BY DEF ScramInv, Fields, ClientFields
<1>2. Fields'
  <2>1. ClientFields'
    BY DEF ScramInv, Fields, ClientFields
  <2>2. ServerFields'
    BY DEF ScramInv, Fields, ServerFields
  <2>. QED  BY <2>1, <2>2 DEF Fields
<1>3. ClientSalted' = ClientSalted
  BY <1>1 DEF ClientSalted
<1>4. ClientOk'
  BY <1>1, <1>3 DEF ScramInv, ClientOk
<1>5. ServerOk' /\ Trust'
  BY <1>1 DEF ScramInv, ServerOk, Trust
<1>6. WireOk'
  <2>1. ASSUME NEW m, ClientMade(m) PROVE ClientMade(m)'
    <3>1. client'.stage >= 3
      BY <1>1, <2>1 DEF ClientMade, ScramInv, ClientOk
    <3>. QED  BY <1>1, <1>3, <2>1, <3>1 DEF ClientMade
  <2>2. ASSUME NEW m, ServerMade(m) PROVE ServerMade(m)'
    BY <2>2 DEF ServerMade
  <2>. QED  BY <2>1, <2>2 DEF ScramInv, WireOk
<1>. QED  BY <1>2, <1>4, <1>5, <1>6 DEF ScramInv

\* A server that refuses.
LEMMA ServerRefuses ==
    ASSUME ScramInv, NEW stage \in 1..4, server.stage = stage - 1,
           server' = [server EXCEPT !.stage = stage], UNCHANGED <<client, wire>>, Bounds'
    PROVE  ScramInv'
<1>1. /\ server'.stage = stage /\ server'.full = server.full /\ server'.user = server.user
      /\ server'.keys = server.keys /\ server'.auth = server.auth
      /\ server'.signature = server.signature /\ server'.trusts = server.trusts
  BY DEF ScramInv, Fields, ServerFields
<1>2. Fields'
  <2>1. ServerFields'
    BY DEF ScramInv, Fields, ServerFields
  <2>2. ClientFields'
    BY DEF ScramInv, Fields, ClientFields
  <2>. QED  BY <2>1, <2>2 DEF Fields
<1>3. ClientOk' /\ ClientSalted' = ClientSalted
  BY DEF ScramInv, ClientOk, ClientSalted
<1>4. ServerOk'
  BY <1>1 DEF ScramInv, ServerOk
<1>5. Trust'
  BY <1>1 DEF ScramInv, Trust
<1>6. WireOk'
  BY <1>1, <1>3 DEF ScramInv, WireOk, ClientMade, ServerMade
<1>. QED  BY <1>2, <1>3, <1>4, <1>5, <1>6 DEF ScramInv

-----------------------------------------------------------------------------

LEMMA CGetFirstStep == ScramInv /\ CGetFirst => ScramInv'
<1>. SUFFICES ASSUME ScramInv, CGetFirst PROVE ScramInv'
  OBVIOUS
<1>1. CASE OutOfTurn("client", client, 1)
  BY <1>1, OutOfTurnStep
<1>2. CASE ~OutOfTurn("client", client, 1)
  <2>. DEFINE message == ClientFirst(Prep[client.username], <<client.nonce>>)
  <2>1. /\ client' = [client EXCEPT !.stage = 1, !.bare = message]
        /\ wire' = wire \cup {message} /\ UNCHANGED <<server, raised>>
        /\ Call(TRUE) /\ InTurn(client, 1)
    BY <1>2 DEF CGetFirst
  <2>2. client.stage = 0 /\ client.auth = Nothing /\ client.expects = Nothing
    BY <2>1 DEF InTurn, ScramInv, ClientOk
  <2>3. server.trusts = FALSE /\ client.trusts = FALSE /\ server.signature = Nothing
    BY <2>2 DEF ScramInv, ClientOk, ServerOk, Trust
  <2>4. message.kind = "client first" /\ message # NoMessage
    BY DEF ClientFirst, NoMessage
  <2>. HIDE DEF message
  <2>5. /\ client'.stage = 1 /\ client'.bare = message /\ client'.full = client.full
        /\ client'.auth = client.auth /\ client'.expects = client.expects
        /\ client'.trusts = client.trusts
    BY <2>1 DEF ScramInv, Fields, ClientFields
  <2>6. Fields'
    <3>1. ClientFields'
      BY <2>1 DEF ScramInv, Fields, ClientFields
    <3>2. ServerFields'
      BY <2>1 DEF ScramInv, Fields, ServerFields
    <3>. QED  BY <3>1, <3>2 DEF Fields
  <2>7. ClientOk'
    <3>1. client'.auth = Nothing /\ client'.expects = Nothing /\ client'.trusts \in BOOLEAN
      BY <2>2, <2>3, <2>5
    <3>2. client'.bare # NoMessage
      BY <2>4, <2>5
    <3>3. client'.stage \in 0..4 /\ client'.stage >= 1
      BY <2>5
    <3>. QED  BY <3>1, <3>2, <3>3 DEF ClientOk
  <2>8. ServerOk' /\ Trust'
    BY <2>1, <2>3, <2>5 DEF ScramInv, ServerOk, Trust
  <2>9. WireOk'
    BY <2>1, <2>2, <2>3, <2>4 DEF ScramInv, WireOk, ClientMade, ServerMade
  <2>10. Bounds'
    BY <2>1, Bounded DEF ScramInv
  <2>. QED  BY <2>6, <2>7, <2>8, <2>9, <2>10 DEF ScramInv
<1>. QED  BY <1>1, <1>2

LEMMA CSetFirstStep == \A m \in wire : ScramInv /\ CSetFirst(m) => ScramInv'
<1>. SUFFICES ASSUME NEW m \in wire, ScramInv, CSetFirst(m) PROVE ScramInv'
  OBVIOUS
<1>1. CASE OutOfTurn("client", client, 2)
  BY <1>1, OutOfTurnStep
<1>2. CASE ~OutOfTurn("client", client, 2)
  <2>1. /\ InTurn(client, 2) /\ UNCHANGED <<server, wire>>
        /\ Call(server.stage = 2 /\ m = server.first)
        /\ Raise("client") \/ UNCHANGED raised
    BY <1>2 DEF CSetFirst
  <2>2. client.stage = 1 /\ client.auth = Nothing /\ client.expects = Nothing
    BY <2>1 DEF InTurn, ScramInv, ClientOk
  <2>3. Bounds'
    BY <2>1, Bounded DEF ScramInv
  <2>4. CASE ~(m.kind = "server first" /\ m.r[1] = client.nonce)
    <3>1. client' = [client EXCEPT !.stage = 2]
      BY <1>2, <2>4 DEF CSetFirst
    <3>. QED  BY <2>1, <2>2, <2>3, <3>1, ClientRefuses
  <2>5. CASE m.kind = "server first" /\ m.r[1] = client.nonce
    <3>. DEFINE auth == AuthMessage(m.r, client.bare, m)
    <3>1. client' = [client EXCEPT !.stage = 2, !.full = m.r, !.salt = m.s, !.i = m.i,
                                   !.auth = auth]
      BY <1>2, <2>5 DEF CSetFirst
    <3>2. auth[3] = m.r
      BY DEF AuthMessage
    <3>. HIDE DEF auth
    <3>3. /\ client'.stage = 2 /\ client'.full = m.r /\ client'.auth = auth
          /\ client'.bare = client.bare /\ client'.expects = client.expects
          /\ client'.trusts = client.trusts
      BY <3>1 DEF ScramInv, Fields, ClientFields
    <3>4. Fields'
      <4>1. ClientFields'
        BY <3>1 DEF ScramInv, Fields, ClientFields
      <4>2. ServerFields'
        BY <2>1 DEF ScramInv, Fields, ServerFields
      <4>. QED  BY <4>1, <4>2 DEF Fields
    <3>5. m.r[1] = "c1"
      BY <2>5 DEF ScramInv, Fields, ClientFields
    <3>6. server.trusts = FALSE /\ client.trusts = FALSE
      BY <2>2 DEF ScramInv, ServerOk, ClientOk, Trust
    <3>7. ClientOk'
      <4>1. client'.auth # Nothing => client'.auth[3] = client'.full /\ client'.full[1] = "c1"
        BY <3>2, <3>3, <3>5
      <4>2. client'.bare # NoMessage
        BY <2>2, <3>3 DEF ScramInv, ClientOk
      <4>3. client'.expects = Nothing /\ client'.trusts \in BOOLEAN
        BY <2>2, <3>3, <3>6
      <4>4. client'.stage = 2
        BY <3>3
      <4>. QED  BY <4>1, <4>2, <4>3, <4>4 DEF ClientOk
    <3>8. ServerOk' /\ Trust'
      BY <2>1, <3>3, <3>6 DEF ScramInv, ServerOk, Trust
    <3>9. WireOk'
      <4>1. \A n : ~ClientMade(n)
        BY <2>2 DEF ClientMade
      <4>2. \A n : ServerMade(n) => ServerMade(n)'
        BY <2>1 DEF ServerMade
      <4>. QED  BY <2>1, <4>1, <4>2 DEF ScramInv, WireOk
    <3>. QED  BY <2>3, <3>4, <3>7, <3>8, <3>9 DEF ScramInv
  <2>. QED  BY <2>4, <2>5
<1>. QED  BY <1>1, <1>2

LEMMA CGetFinalStep == ScramInv /\ CGetFinal => ScramInv'
<1>. SUFFICES ASSUME ScramInv, CGetFinal PROVE ScramInv'
  OBVIOUS
<1>1. CASE OutOfTurn("client", client, 3)
  BY <1>1, OutOfTurnStep
<1>2. CASE ~OutOfTurn("client", client, 3)
  <2>1. /\ InTurn(client, 3) /\ UNCHANGED server /\ Call(TRUE)
        /\ Raise("client") \/ UNCHANGED raised
    BY <1>2 DEF CGetFinal
  <2>2. client.stage = 2 /\ client.expects = Nothing
    BY <2>1 DEF InTurn, ScramInv, ClientOk
  <2>3. Bounds'
    BY <2>1, Bounded DEF ScramInv
  <2>4. CASE client.auth = Nothing
    <3>1. client' = [client EXCEPT !.stage = 3] /\ UNCHANGED wire
      BY <1>2, <2>4 DEF CGetFinal
    <3>. QED  BY <2>1, <2>2, <2>3, <3>1, ClientRefuses
  <2>5. CASE client.auth # Nothing
    <3>. DEFINE proof == Over(ClientKey(ClientSalted),
                              Signature(StoredKey(ClientSalted), client.auth))
                sign  == Signature(ServerKey(ClientSalted), client.auth)
                final == ClientFinal(client.full, proof)
    <3>1. /\ client' = [client EXCEPT !.stage = 3, !.expects = sign]
          /\ wire' = wire \cup {final}
      BY <1>2, <2>5 DEF CGetFinal, ClientSalted
    <3>2. sign # Nothing /\ final.kind = "client final" /\ final.p = proof
      BY DEF Signature, Nothing, ClientFinal
    <3>. HIDE DEF final, sign
    <3>3. /\ client'.stage = 3 /\ client'.full = client.full /\ client'.auth = client.auth
          /\ client'.bare = client.bare /\ client'.expects = sign
          /\ client'.trusts = client.trusts /\ client'.password = client.password
          /\ client'.salt = client.salt /\ client'.i = client.i
      BY <3>1 DEF ScramInv, Fields, ClientFields
    <3>4. ClientSalted' = ClientSalted
      BY <3>3 DEF ClientSalted
    <3>5. Fields'
      <4>1. ClientFields'
        BY <3>1 DEF ScramInv, Fields, ClientFields
      <4>2. ServerFields'
        BY <2>1 DEF ScramInv, Fields, ServerFields
      <4>. QED  BY <4>1, <4>2 DEF Fields
    <3>6. server.trusts = FALSE /\ client.trusts = FALSE
      BY <2>2 DEF ScramInv, ServerOk, ClientOk, Trust
    <3>7. ClientOk'
      <4>1. client'.auth[3] = client'.full /\ client'.full[1] = "c1"
        BY <2>5, <3>3 DEF ScramInv, ClientOk
      <4>2. client'.bare # NoMessage
        BY <2>2, <3>3 DEF ScramInv, ClientOk
      <4>3. client'.expects = Signature(ServerKey(ClientSalted'), client'.auth)
        BY <3>3, <3>4 DEF sign
      <4>4. client'.stage = 3 /\ client'.trusts \in BOOLEAN /\ client'.auth # Nothing
        BY <2>5, <3>3, <3>6
      <4>. QED  BY <4>1, <4>2, <4>3, <4>4 DEF ClientOk
    <3>8. ServerOk' /\ Trust'
      BY <2>1, <3>3, <3>6 DEF ScramInv, ServerOk, Trust
    <3>9. WireOk'
      <4>1. ASSUME NEW n, n = final PROVE ClientMade(n)'
        <5>1. n.p = Over(ClientKey(ClientSalted'),
                         Signature(StoredKey(ClientSalted'), client'.auth))
          BY <3>2, <3>3, <3>4, <4>1
        <5>. QED  BY <2>5, <3>3, <5>1 DEF ClientMade
      <4>2. \A n \in wire : ~ClientMade(n)
        BY <2>2 DEF ClientMade
      <4>3. \A n : ServerMade(n) => ServerMade(n)'
        BY <2>1 DEF ServerMade
      <4>4. ASSUME NEW n \in wire PROVE n.kind = "server final" =>
                  (n.v # Nothing /\ n.v[3][3][1] = "c0") \/ ServerMade(n)'
        BY <4>3 DEF ScramInv, WireOk
      <4>5. ASSUME NEW n \in wire PROVE n.kind = "client final" => n.r[Len(n.r)] = "s0"
        BY <4>2 DEF ScramInv, WireOk
      <4>6. final.kind # "server final"
        BY <3>2
      <4>. QED  BY <3>1, <4>1, <4>4, <4>5, <4>6 DEF WireOk
    <3>. QED  BY <2>3, <3>5, <3>7, <3>8, <3>9 DEF ScramInv
  <2>. QED  BY <2>4, <2>5
<1>. QED  BY <1>1, <1>2

\* A signature the client expects is over a nonce that begins with its own, so
\* the server of this exchange made it, after it had trusted.
LEMMA CSetFinalStep == \A m \in wire : ScramInv /\ CSetFinal(m) => ScramInv'
<1>. SUFFICES ASSUME NEW m \in wire, ScramInv, CSetFinal(m) PROVE ScramInv'
  OBVIOUS
<1>1. CASE OutOfTurn("client", client, 4)
  BY <1>1, OutOfTurnStep
<1>2. CASE ~OutOfTurn("client", client, 4)
  <2>1. /\ InTurn(client, 4) /\ UNCHANGED <<server, wire>>
        /\ Call(server.stage = 4 /\ m = ServerFinal(server.signature))
        /\ Raise("client") \/ UNCHANGED raised
    BY <1>2 DEF CSetFinal
  <2>2. client.stage = 3
    BY <2>1 DEF InTurn, ScramInv, ClientOk
  <2>3. Bounds'
    BY <2>1, Bounded DEF ScramInv
  <2>4. CASE ~(m.kind = "server final" /\ m.v = client.expects)
    <3>1. client' = [client EXCEPT !.stage = 4]
      BY <1>2, <2>4 DEF CSetFinal
    <3>. QED  BY <2>1, <2>2, <2>3, <3>1, ClientRefuses
  <2>5. CASE m.kind = "server final" /\ m.v = client.expects
    <3>1. client' = [client EXCEPT !.stage = 4, !.trusts = TRUE]
      BY <1>2, <2>5 DEF CSetFinal
    <3>2. ServerMade(m)
      <4>1. CASE client.expects = Nothing
        BY <2>5, <4>1 DEF ScramInv, WireOk
      <4>2. CASE client.expects # Nothing
        <5>1. client.expects[3] = client.auth /\ client.auth # Nothing
          BY <4>2 DEF ScramInv, ClientOk, Signature
        <5>2. client.auth[3][1] = "c1"
          BY <5>1 DEF ScramInv, ClientOk
        <5>3. m.v[3][3][1] # "c0"
          BY <2>5, <5>1, <5>2
        <5>. QED  BY <2>5, <5>3 DEF ScramInv, WireOk
      <4>. QED  BY <4>1, <4>2
    <3>3. /\ server.trusts = TRUE /\ client.auth = server.auth /\ server.auth # Nothing
          /\ client.expects = server.signature
      BY <2>5, <3>2 DEF ServerMade, ScramInv, ServerOk, Trust
    <3>4. client.full = server.full
      BY <3>3 DEF ScramInv, ServerOk, ClientOk
    <3>5. /\ client'.stage = 4 /\ client'.full = client.full /\ client'.auth = client.auth
          /\ client'.bare = client.bare /\ client'.expects = client.expects
          /\ client'.trusts = TRUE /\ client'.password = client.password
          /\ client'.salt = client.salt /\ client'.i = client.i
      BY <3>1 DEF ScramInv, Fields, ClientFields
    <3>6. ClientSalted' = ClientSalted
      BY <3>5 DEF ClientSalted
    <3>7. Fields'
      <4>1. ClientFields'
        BY <3>1 DEF ScramInv, Fields, ClientFields
      <4>2. ServerFields'
        BY <2>1 DEF ScramInv, Fields, ServerFields
      <4>. QED  BY <4>1, <4>2 DEF Fields
    <3>8. ClientOk'
      <4>1. client'.auth[3] = client'.full /\ client'.full[1] = "c1" /\ client'.auth # Nothing
        BY <3>3, <3>5 DEF ScramInv, ClientOk
      <4>2. client'.bare # NoMessage
        BY <2>2, <3>5 DEF ScramInv, ClientOk
      <4>3. client'.expects # Nothing
              => client'.expects = Signature(ServerKey(ClientSalted'), client'.auth)
        BY <3>5, <3>6 DEF ScramInv, ClientOk
      <4>4. client'.stage = 4 /\ client'.trusts \in BOOLEAN
        BY <3>5
      <4>. QED  BY <4>1, <4>2, <4>3, <4>4 DEF ClientOk
    <3>9. ServerOk'
      BY <2>1 DEF ScramInv, ServerOk
    <3>10. Trust'
      BY <2>1, <2>2, <3>3, <3>4, <3>5 DEF ScramInv, Trust
    <3>11. WireOk'
      <4>1. \A n : ClientMade(n) => ClientMade(n)'
        BY <3>5, <3>6 DEF ClientMade
      <4>2. \A n : ServerMade(n) => ServerMade(n)'
        BY <2>1 DEF ServerMade
      <4>. QED  BY <2>1, <4>1, <4>2 DEF ScramInv, WireOk
    <3>. QED  BY <2>3, <3>7, <3>8, <3>9, <3>10, <3>11 DEF ScramInv
  <2>. QED  BY <2>4, <2>5
<1>. QED  BY <1>1, <1>2

\* What a server that has not signed leaves of the client and of the wire.
LEMMA ClientRests ==
    ASSUME ScramInv, UNCHANGED <<client, wire>>, server.signature = Nothing
    PROVE  ClientFields' /\ ClientOk' /\ WireOk'
<1>1. ClientSalted' = ClientSalted
  BY DEF ClientSalted
<1>2. ClientFields' /\ ClientOk'
  BY <1>1 DEF ScramInv, Fields, ClientFields, ClientOk
<1>3. \A n : ClientMade(n) => ClientMade(n)'
  BY <1>1 DEF ClientMade
<1>4. \A n : ~ServerMade(n)
  BY DEF ServerMade
<1>. QED  BY <1>2, <1>3, <1>4 DEF ScramInv, WireOk

LEMMA SSetFirstStep == \A m \in wire : ScramInv /\ SSetFirst(m) => ScramInv'
<1>. SUFFICES ASSUME NEW m \in wire, ScramInv, SSetFirst(m) PROVE ScramInv'
  OBVIOUS
<1>1. CASE OutOfTurn("server", server, 1)
  BY <1>1, OutOfTurnStep
<1>2. CASE ~OutOfTurn("server", server, 1)
  <2>1. /\ InTurn(server, 1) /\ UNCHANGED <<client, wire>>
        /\ Call(client.stage = 1 /\ m = client.bare)
        /\ Raise("server") \/ UNCHANGED raised
    BY <1>2 DEF SSetFirst
  <2>2. /\ server.stage = 0 /\ server.keys = Nothing /\ server.auth = Nothing
        /\ server.signature = Nothing /\ server.trusts = FALSE
    BY <2>1 DEF InTurn, ScramInv, ServerOk
  <2>3. Bounds'
    BY <2>1, Bounded DEF ScramInv
  <2>4. CASE m.kind # "client first"
    <3>1. server' = [server EXCEPT !.stage = 1]
      BY <1>2, <2>4 DEF SSetFirst
    <3>. QED  BY <2>1, <2>2, <2>3, <3>1, ServerRefuses
  <2>5. CASE m.kind = "client first"
    <3>. DEFINE user == Cut[m.n]
                keys == IF user \in DOMAIN Accounts
                        THEN Salted(Accounts[user], SaltOf[user], Iterations) ELSE Nothing
                full == Append(m.r, server.nonce)
                read == [server EXCEPT !.stage = 1, !.full = full, !.user = user, !.bare = m]
    <3>1. \/ user \in DOMAIN Accounts /\ server' = [read EXCEPT !.keys = keys]
          \/ user \notin DOMAIN Accounts /\ server' = read
      BY <1>2, <2>5 DEF SSetFirst
    <3>2. /\ server'.stage = 1 /\ server'.user = user /\ server'.keys = keys
          /\ server'.auth = Nothing /\ server'.signature = Nothing /\ server'.trusts = FALSE
      <4>. HIDE DEF user, full
      <4>. QED  BY <2>2, <3>1 DEF ScramInv, Fields, ServerFields
    <3>3. ServerFields'
      <4>. HIDE DEF user, keys, full
      <4>. QED  BY <3>1 DEF ScramInv, Fields, ServerFields
    <3>4. ServerOk'
      <4>1. server'.keys # Nothing =>
              /\ server'.user \in DOMAIN Accounts
              /\ server'.keys = Salted(Accounts[server'.user], SaltOf[server'.user], Iterations)
        BY <3>2
      <4>2. server'.stage \in 0..4 /\ server'.stage >= 1
        BY <3>2
      <4>3. server'.trusts \in BOOLEAN /\ ~server'.trusts
        BY <3>2, Zenon
      <4>4. server'.auth = Nothing /\ server'.signature = Nothing
        BY <3>2
      <4>. QED  BY <4>1, <4>2, <4>3, <4>4 DEF ServerOk
    <3>5. client.trusts = FALSE
      BY <2>2 DEF ScramInv, Trust, ClientOk
    <3>6. Trust'
      BY <2>1, <3>2, <3>5 DEF Trust
    <3>. QED  BY <2>1, <2>2, <2>3, <3>3, <3>4, <3>6, ClientRests DEF ScramInv, Fields
  <2>. QED  BY <2>4, <2>5
<1>. QED  BY <1>1, <1>2

LEMMA SGetFirstStep == ScramInv /\ SGetFirst => ScramInv'
<1>. SUFFICES ASSUME ScramInv, SGetFirst PROVE ScramInv'
  OBVIOUS
<1>1. CASE OutOfTurn("server", server, 2)
  BY <1>1, OutOfTurnStep
<1>2. CASE ~OutOfTurn("server", server, 2)
  <2>1. /\ InTurn(server, 2) /\ UNCHANGED client /\ Call(TRUE)
        /\ Raise("server") \/ UNCHANGED raised
    BY <1>2 DEF SGetFirst
  <2>2. /\ server.stage = 1 /\ server.auth = Nothing
        /\ server.signature = Nothing /\ server.trusts = FALSE
    BY <2>1 DEF InTurn, ScramInv, ServerOk
  <2>3. Bounds'
    BY <2>1, Bounded DEF ScramInv
  <2>4. CASE server.keys = Nothing
    <3>1. server' = [server EXCEPT !.stage = 2] /\ UNCHANGED wire
      BY <1>2, <2>4 DEF SGetFirst
    <3>. QED  BY <2>1, <2>2, <2>3, <3>1, ServerRefuses
  <2>5. CASE server.keys # Nothing
    <3>. DEFINE message == ServerFirst(server.full, SaltOf[server.user], Iterations)
                auth    == AuthMessage(server.full, server.bare, message)
    <3>1. /\ server' = [server EXCEPT !.stage = 2, !.first = message, !.auth = auth]
          /\ wire' = wire \cup {message}
      BY <1>2, <2>5 DEF SGetFirst
    <3>2. auth[3] = server.full /\ message.kind = "server first"
      BY DEF AuthMessage, ServerFirst
    <3>. HIDE DEF auth, message
    <3>3. /\ server'.stage = 2 /\ server'.full = server.full /\ server'.user = server.user
          /\ server'.keys = server.keys /\ server'.auth = auth
          /\ server'.signature = Nothing /\ server'.trusts = FALSE
      BY <2>2, <3>1 DEF ScramInv, Fields, ServerFields
    <3>4. ServerFields'
      BY <3>1 DEF ScramInv, Fields, ServerFields
    <3>5. ServerOk'
      <4>1. server'.auth[3] = server'.full /\ server'.keys # Nothing
        BY <2>5, <3>2, <3>3
      <4>2. /\ server'.user \in DOMAIN Accounts
            /\ server'.keys = Salted(Accounts[server'.user], SaltOf[server'.user], Iterations)
        BY <2>5, <3>3 DEF ScramInv, ServerOk
      <4>3. server'.stage \in 0..4 /\ server'.stage >= 1 /\ server'.stage >= 2
        BY <3>3
      <4>4. server'.trusts \in BOOLEAN /\ ~server'.trusts
        BY <3>3, Zenon
      <4>5. server'.signature = Nothing
        BY <3>3
      <4>. QED  BY <4>1, <4>2, <4>3, <4>4, <4>5 DEF ServerOk
    <3>6. client.trusts = FALSE
      BY <2>2 DEF ScramInv, Trust, ClientOk
    <3>7. Trust'
      BY <2>1, <3>3, <3>6 DEF Trust
    <3>8. ClientSalted' = ClientSalted
      BY <2>1 DEF ClientSalted
    <3>9. ClientFields' /\ ClientOk'
      BY <2>1, <3>8 DEF ScramInv, Fields, ClientFields, ClientOk
    <3>10. WireOk'
      <4>1. \A n : ClientMade(n) => ClientMade(n)'
        BY <2>1, <3>8 DEF ClientMade
      <4>2. \A n : ~ServerMade(n)
        BY <2>2 DEF ServerMade
      <4>. QED  BY <3>1, <3>2, <4>1, <4>2 DEF ScramInv, WireOk
    <3>. QED  BY <2>3, <3>4, <3>5, <3>7, <3>9, <3>10 DEF ScramInv, Fields
  <2>. QED  BY <2>4, <2>5
<1>. QED  BY <1>1, <1>2

\* A proof that ends in the server's nonce is not of the earlier exchange, and
\* opens only when this exchange's client signed the same with the same keys.
LEMMA SSetFinalStep == \A m \in wire : ScramInv /\ SSetFinal(m) => ScramInv'
<1>. SUFFICES ASSUME NEW m \in wire, ScramInv, SSetFinal(m) PROVE ScramInv'
  OBVIOUS
<1>1. CASE OutOfTurn("server", server, 3)
  BY <1>1, OutOfTurnStep
<1>2. CASE ~OutOfTurn("server", server, 3)
  <2>. DEFINE accepts == server.auth # Nothing /\ m.kind = "client final" /\ ProofHolds(m)
  <2>1. /\ InTurn(server, 3) /\ UNCHANGED <<client, wire>>
        /\ Call(client.stage = 3 /\ m.kind = "client final" /\ m.r = client.full)
        /\ Raise("server") \/ UNCHANGED raised
    BY <1>2 DEF SSetFinal
  <2>2. server.stage = 2 /\ server.signature = Nothing /\ server.trusts = FALSE
    <3>1. InTurn(server, 3)
      BY <2>1, Zenon
    <3>2. server.stage = 2
      BY <3>1 DEF InTurn, ScramInv, ServerOk
    <3>. QED  BY <3>2 DEF ScramInv, ServerOk
  <2>3. Bounds'
    BY <2>1, Bounded DEF ScramInv
  <2>4. CASE ~accepts
    <3>1. server' = [server EXCEPT !.stage = 3]
      <4>1. ~(server.auth # Nothing /\ m.kind = "client final" /\ ProofHolds(m))
        BY <2>4
      <4>2. IF server.auth # Nothing /\ m.kind = "client final" /\ ProofHolds(m)
            THEN TRUE ELSE server' = [server EXCEPT !.stage = 3]
        BY <1>2 DEF SSetFinal
      <4>. QED  BY <4>1, <4>2
    <3>2. UNCHANGED <<client, wire>>
      BY <2>1, Zenon
    <3>. QED  BY <2>2, <2>3, <3>1, <3>2, ServerRefuses
  <2>5. CASE accepts
    <3>. DEFINE sign == Signature(ServerKey(server.keys), server.auth)
    <3>1. server' = [server EXCEPT !.stage = 3, !.trusts = TRUE, !.signature = sign]
      BY <1>2, <2>5 DEF SSetFinal
    <3>. HIDE DEF sign
    <3>2. ClientMade(m)
      <4>1. m.r[Len(m.r)] = "s1"
        BY <2>5 DEF ProofHolds, ScramInv, Fields, ServerFields
      <4>. QED  BY <2>5, <4>1 DEF ScramInv, WireOk
    <3>3. client.auth = server.auth /\ ClientSalted = server.keys
      <4>1. <<"hash", TakenOff(m.p, Signature(StoredKey(server.keys), server.auth))>>
              = StoredKey(server.keys)
        BY <2>5 DEF ProofHolds
      <4>2. m.p = Over(ClientKey(ClientSalted), Signature(StoredKey(ClientSalted), client.auth))
        BY <3>2 DEF ClientMade
      <4>3. <<"hash", TakenOff(Over(ClientKey(ClientSalted),
                                    Signature(StoredKey(ClientSalted), client.auth)),
                               Signature(StoredKey(server.keys), server.auth))>>
              = StoredKey(server.keys)
        BY <4>1, <4>2, Zenon
      <4>. QED  BY <4>3, ProofOpens
    <3>4. Prep[client.password] = Accounts[server.user]
      <4>1. server.keys = Salted(Accounts[server.user], SaltOf[server.user], Iterations)
            /\ server.user \in DOMAIN Accounts
        BY <2>5 DEF ScramInv, ServerOk
      <4>2. Prep[client.password] = Prep[Accounts[server.user]]
        BY <3>3, <4>1 DEF ClientSalted, Salted
      <4>. QED  BY <4>1, <4>2, ScramAssumption
    <3>5. /\ server'.stage = 3 /\ server'.full = server.full /\ server'.user = server.user
          /\ server'.keys = server.keys /\ server'.auth = server.auth /\ server'.trusts = TRUE
      BY <3>1 DEF ScramInv, Fields, ServerFields
    <3>6. ServerFields'
      BY <3>1 DEF ScramInv, Fields, ServerFields
    <3>7. ServerOk'
      <4>1. server.auth # Nothing
        BY <2>5
      <4>2. server'.auth # Nothing /\ server'.keys # Nothing /\ server'.auth[3] = server'.full
        BY <3>5, <4>1 DEF ScramInv, ServerOk
      <4>3. /\ server'.user \in DOMAIN Accounts
            /\ server'.keys = Salted(Accounts[server'.user], SaltOf[server'.user], Iterations)
        BY <3>5, <4>1 DEF ScramInv, ServerOk
      <4>4. /\ server'.stage \in 0..4 /\ server'.stage >= 3
            /\ server'.stage >= 1 /\ server'.stage >= 2
        BY <3>5
      <4>5. server'.trusts \in BOOLEAN /\ server'.trusts
        BY <3>5, Zenon
      <4>. QED  BY <4>2, <4>3, <4>4, <4>5 DEF ServerOk
    <3>8. client.trusts = FALSE /\ client.stage >= 3
      BY <2>2, <3>2 DEF ScramInv, Trust, ClientOk, ClientMade
    <3>9. Trust'
      BY <2>1, <3>3, <3>4, <3>5, <3>8 DEF Trust
    <3>. QED  BY <2>1, <2>2, <2>3, <3>6, <3>7, <3>9, ClientRests DEF ScramInv, Fields
  <2>. QED  BY <2>4, <2>5
<1>. QED  BY <1>1, <1>2

LEMMA SGetFinalStep == ScramInv /\ SGetFinal => ScramInv'
<1>. SUFFICES ASSUME ScramInv, SGetFinal PROVE ScramInv'
  OBVIOUS
<1>1. CASE OutOfTurn("server", server, 4)
  BY <1>1, OutOfTurnStep
<1>2. CASE ~OutOfTurn("server", server, 4)
  <2>1. /\ InTurn(server, 4) /\ UNCHANGED client /\ Call(TRUE)
        /\ Raise("server") \/ UNCHANGED raised
        /\ server' = [server EXCEPT !.stage = 4]
    BY <1>2 DEF SGetFinal
  <2>2. server.stage = 3
    BY <2>1 DEF InTurn, ScramInv, ServerOk
  <2>3. Bounds'
    BY <2>1, Bounded DEF ScramInv
  <2>4. CASE server.signature = Nothing
    <3>1. UNCHANGED wire
      BY <1>2, <2>4 DEF SGetFinal
    <3>. QED  BY <2>1, <2>2, <2>3, <3>1, ServerRefuses
  <2>5. CASE server.signature # Nothing
    <3>. DEFINE final == ServerFinal(server.signature)
    <3>1. wire' = wire \cup {final}
      BY <1>2, <2>5 DEF SGetFinal
    <3>2. final.kind = "server final" /\ final.v = server.signature
      BY DEF ServerFinal
    <3>. HIDE DEF final
    <3>3. /\ server'.stage = 4 /\ server'.full = server.full /\ server'.user = server.user
          /\ server'.keys = server.keys /\ server'.auth = server.auth
          /\ server'.signature = server.signature /\ server'.trusts = server.trusts
      BY <2>1 DEF ScramInv, Fields, ServerFields
    <3>4. ServerFields'
      BY <2>1 DEF ScramInv, Fields, ServerFields
    <3>5. ServerOk'
      BY <2>2, <3>3 DEF ScramInv, ServerOk
    <3>6. Trust'
      BY <2>1, <3>3 DEF ScramInv, Trust
    <3>7. ClientSalted' = ClientSalted
      BY <2>1 DEF ClientSalted
    <3>8. ClientFields' /\ ClientOk'
      BY <2>1, <3>7 DEF ScramInv, Fields, ClientFields, ClientOk
    <3>9. WireOk'
      <4>1. \A n : ClientMade(n) => ClientMade(n)'
        BY <2>1, <3>7 DEF ClientMade
      <4>2. \A n : ServerMade(n) => ServerMade(n)'
        BY <3>3 DEF ServerMade
      <4>3. ASSUME NEW n, n = final PROVE ServerMade(n)'
        BY <2>5, <3>2, <3>3, <4>3 DEF ServerMade
      <4>4. final.kind # "client final"
        BY <3>2
      <4>. QED  BY <3>1, <4>1, <4>2, <4>3, <4>4 DEF ScramInv, WireOk
    <3>. QED  BY <2>3, <3>4, <3>5, <3>6, <3>8, <3>9 DEF ScramInv, Fields
  <2>. QED  BY <2>4, <2>5
<1>. QED  BY <1>1, <1>2

-----------------------------------------------------------------------------

LEMMA Kept == ScramInv /\ [Next]_vars => ScramInv'
<1>. SUFFICES ASSUME ScramInv, [Next]_vars PROVE ScramInv'
  OBVIOUS
<1>1. CASE UNCHANGED vars
  BY <1>1 DEF vars, ScramInv, Fields, ClientFields, ServerFields, ClientOk, ServerOk, WireOk,
              Trust, Bounds, ClientMade, ServerMade, ClientSalted
<1>2. CASE CGetFirst \/ CGetFinal \/ SGetFirst \/ SGetFinal
  BY <1>2, CGetFirstStep, CGetFinalStep, SGetFirstStep, SGetFinalStep
<1>3. CASE \E m \in wire : CSetFirst(m) \/ CSetFinal(m) \/ SSetFirst(m) \/ SSetFinal(m)
  BY <1>3, CSetFirstStep, CSetFinalStep, SSetFirstStep, SSetFinalStep
<1>. QED  BY <1>1, <1>2, <1>3 DEF Next

LEMMA Invariance == Spec => []ScramInv
  BY Start, Kept, PTL DEF Spec

\* A server trusts only a client that has the password of the user it named,
\* and only for what both signed in this exchange (scramp core.py:162-166, 257-271).
THEOREM HolderTrusted == Spec => []ServerTrustsHolder
<1>1. ScramInv => ServerTrustsHolder
  BY DEF ScramInv, ClientOk, ServerOk, Trust, Bounds, ServerTrustsHolder, TypeOK
<1>. QED  BY <1>1, Invariance, PTL

\* A client trusts only the server of this exchange, after that server has
\* accepted its proof (scramp core.py:132-136, 278-291).
THEOREM ServerTrusted == Spec => []ClientTrustsServer
<1>1. ScramInv => ClientTrustsServer
  BY DEF ScramInv, Trust, ClientTrustsServer
<1>. QED  BY <1>1, Invariance, PTL

-----------------------------------------------------------------------------
(***************************************************************************)
(* No false alarm.  While every call is in turn and takes the newest       *)
(* message of the peer, the two sides go through their stages together and *)
(* have the same of each other; so every check finds what it looks for.    *)
(***************************************************************************)

Account == Cut[Prep[client.username]]
RightPassword == Account \in DOMAIN Accounts /\ Prep[client.password] = Accounts[Account]

Together ==
    <<client.stage, server.stage>> \in
        {<<0, 0>>, <<1, 0>>, <<1, 1>>, <<1, 2>>, <<2, 2>>, <<3, 2>>, <<3, 3>>, <<3, 4>>, <<4, 4>>}

ClientHas ==
    /\ client.stage >= 1 => client.bare = ClientFirst(Prep[client.username], <<"c1">>)
    /\ client.stage >= 2 => /\ client.full = <<"c1", "s1">> /\ client.salt = SaltOf[Account]
                            /\ client.i = Iterations /\ client.auth = server.auth
    /\ client.stage >= 3 => client.expects = Signature(ServerKey(ClientSalted), client.auth)

ServerHas ==
    /\ server.stage >= 1 => /\ server.user = Account /\ server.full = <<"c1", "s1">>
                            /\ server.bare = client.bare
                            /\ server.keys = Salted(Accounts[Account], SaltOf[Account], Iterations)
    /\ server.stage >= 2 => /\ server.first = ServerFirst(server.full, SaltOf[Account], Iterations)
                            /\ server.auth = AuthMessage(server.full, server.bare, server.first)
    /\ server.stage >= 3 => server.signature = Signature(ServerKey(server.keys), server.auth)

InStep == raised = {} /\ Together /\ ClientHas /\ ServerHas
HonestInv == straight /\ RightPassword => InStep

\* The password as it was typed gives the keys the server has of the account.
LEMMA SameKeys ==
    ASSUME RightPassword, ClientHas, client.stage >= 2
    PROVE  ClientSalted = Salted(Accounts[Account], SaltOf[Account], Iterations)
<1>1. Prep[Accounts[Account]] = Accounts[Account]
  BY ScramAssumption DEF RightPassword
<1>. QED  BY <1>1 DEF RightPassword, ClientHas, ClientSalted, Salted

\* A step that leads to a straight exchange comes from one.
LEMMA WasStraight ==
    ASSUME HonestInv, NEW fresh, Call(fresh), straight' /\ RightPassword',
           client'.username = client.username, client'.password = client.password
    PROVE  fresh /\ RightPassword /\ Account' = Account /\ InStep
<1>1. fresh /\ straight
  BY DEF Call
<1>2. RightPassword /\ Account' = Account
  BY DEF RightPassword, Account
<1>. QED  BY <1>1, <1>2 DEF HonestInv

\* A call out of turn is not straight.
LEMMA OutOfTurnBent ==
    ASSUME NEW who, NEW side, NEW stage, OutOfTurn(who, side, stage)
    PROVE  HonestInv'
  BY DEF OutOfTurn, Call, HonestInv

LEMMA AppendOne == ASSUME NEW x, NEW y PROVE Append(<<x>>, y) = <<x, y>>
<1>1. <<x>> \in Seq({x, y}) /\ Len(<<x>>) = 1 /\ <<x, y>> \in Seq({x, y}) /\ Len(<<x, y>>) = 2
  OBVIOUS
<1>2. /\ Append(<<x>>, y) \in Seq({x, y}) /\ Len(Append(<<x>>, y)) = 2
      /\ Append(<<x>>, y)[1] = x /\ Append(<<x>>, y)[2] = y
  BY <1>1, AppendProperties
<1>3. \A i \in 1..2 : Append(<<x>>, y)[i] = <<x, y>>[i]
  BY <1>2
<1>. QED  BY <1>1, <1>2, <1>3, SeqEqual

LEMMA Before ==
    ASSUME ScramInv
    PROVE  /\ (InTurn(client, 1) => client.stage = 0) /\ (InTurn(server, 1) => server.stage = 0)
           /\ (InTurn(client, 2) => client.stage = 1) /\ (InTurn(server, 2) => server.stage = 1)
           /\ (InTurn(client, 3) => client.stage = 2) /\ (InTurn(server, 3) => server.stage = 2)
           /\ (InTurn(client, 4) => client.stage = 3) /\ (InTurn(server, 4) => server.stage = 3)
  BY DEF InTurn, ScramInv, ClientOk, ServerOk

LEMMA CGetFirstHonest == ScramInv /\ HonestInv /\ CGetFirst => HonestInv'
<1>. SUFFICES ASSUME ScramInv, HonestInv, CGetFirst, ~OutOfTurn("client", client, 1),
                     straight' /\ RightPassword'
              PROVE  InStep'
  BY OutOfTurnBent DEF HonestInv
<1>. DEFINE message == ClientFirst(Prep[client.username], <<client.nonce>>)
<1>1. /\ client' = [client EXCEPT !.stage = 1, !.bare = message]
      /\ UNCHANGED <<server, raised>> /\ Call(TRUE) /\ client.stage = 0
  <2>1. /\ client' = [client EXCEPT !.stage = 1, !.bare = message]
        /\ UNCHANGED <<server, raised>> /\ Call(TRUE) /\ InTurn(client, 1)
    BY DEF CGetFirst
  <2>. QED  BY <2>1, Before
<1>2. client.nonce = "c1"
  BY DEF ScramInv, Fields, ClientFields
<1>. HIDE DEF message
<1>3. /\ client'.stage = 1 /\ client'.bare = message
      /\ client'.username = client.username /\ client'.password = client.password
  BY <1>1 DEF ScramInv, Fields, ClientFields
<1>4. InStep /\ Account' = Account
  BY <1>1, <1>3, WasStraight
<1>5. server.stage = 0 /\ server'.stage = 0 /\ raised' = {}
  BY <1>1, <1>4 DEF InStep, Together
<1>6. ClientHas'
  BY <1>2, <1>3 DEF ClientHas, message
<1>7. ServerHas' /\ Together'
  BY <1>3, <1>5 DEF ServerHas, Together
<1>. QED  BY <1>5, <1>6, <1>7 DEF InStep

LEMMA SSetFirstHonest == \A m \in wire : ScramInv /\ HonestInv /\ SSetFirst(m) => HonestInv'
<1>. SUFFICES ASSUME NEW m \in wire, ScramInv, HonestInv, SSetFirst(m),
                     ~OutOfTurn("server", server, 1), straight' /\ RightPassword'
              PROVE  InStep'
  BY OutOfTurnBent DEF HonestInv
<1>1. /\ UNCHANGED <<client, wire>> /\ Call(client.stage = 1 /\ m = client.bare)
      /\ server.stage = 0
  <2>1. UNCHANGED <<client, wire>> /\ Call(client.stage = 1 /\ m = client.bare) /\ InTurn(server, 1)
    BY DEF SSetFirst
  <2>. QED  BY <2>1, Before
<1>2. /\ client.stage = 1 /\ m = client.bare
      /\ InStep /\ RightPassword /\ Account' = Account
  BY <1>1, WasStraight
<1>3. m = ClientFirst(Prep[client.username], <<"c1">>)
  BY <1>2 DEF InStep, ClientHas
<1>4. m.kind = "client first" /\ m.n = Prep[client.username] /\ m.r = <<"c1">>
  BY <1>3 DEF ClientFirst
<1>. DEFINE full == Append(m.r, server.nonce)
            keys == Salted(Accounts[Account], SaltOf[Account], Iterations)
            read == [server EXCEPT !.stage = 1, !.full = full, !.user = Account, !.bare = m]
<1>5. server' = [read EXCEPT !.keys = keys] /\ UNCHANGED raised
  BY <1>1, <1>2, <1>4 DEF SSetFirst, InTurn, Account, RightPassword, OutOfTurn
<1>6. full = <<"c1", "s1">>
  <2>1. server.nonce = "s1"
    BY DEF ScramInv, Fields, ServerFields
  <2>2. Append(<<"c1">>, "s1") = <<"c1", "s1">>
    BY AppendOne
  <2>. QED  BY <1>4, <2>1, <2>2
<1>. HIDE DEF full, keys
<1>7. /\ server'.stage = 1 /\ server'.full = full /\ server'.user = Account /\ server'.bare = m
      /\ server'.keys = keys
  BY <1>5 DEF ScramInv, Fields, ServerFields
<1>8. ServerHas'
  BY <1>1, <1>2, <1>6, <1>7 DEF ServerHas, keys
<1>9. ClientHas' /\ Together' /\ raised' = {}
  BY <1>1, <1>2, <1>5, <1>7 DEF InStep, ClientHas, Together, Account
<1>. QED  BY <1>8, <1>9 DEF InStep

LEMMA SGetFirstHonest == ScramInv /\ HonestInv /\ SGetFirst => HonestInv'
<1>. SUFFICES ASSUME ScramInv, HonestInv, SGetFirst, ~OutOfTurn("server", server, 2),
                     straight' /\ RightPassword'
              PROVE  InStep'
  BY OutOfTurnBent DEF HonestInv
<1>1. UNCHANGED client /\ Call(TRUE) /\ server.stage = 1
  <2>1. UNCHANGED client /\ Call(TRUE) /\ InTurn(server, 2)
    BY DEF SGetFirst
  <2>. QED  BY <2>1, Before
<1>2. InStep /\ RightPassword /\ Account' = Account
  BY <1>1, WasStraight
<1>3. client.stage = 1 /\ server.user = Account /\ server.keys # Nothing
  BY <1>1, <1>2 DEF InStep, Together, ServerHas, Salted, Nothing
<1>. DEFINE message == ServerFirst(server.full, SaltOf[server.user], Iterations)
            auth == AuthMessage(server.full, server.bare, message)
<1>4. server' = [server EXCEPT !.stage = 2, !.first = message, !.auth = auth] /\ UNCHANGED raised
  BY <1>3 DEF SGetFirst
<1>. HIDE DEF message, auth
<1>5. /\ server'.stage = 2 /\ server'.first = message /\ server'.auth = auth
      /\ server'.full = server.full /\ server'.user = server.user /\ server'.bare = server.bare
      /\ server'.keys = server.keys
  BY <1>4 DEF ScramInv, Fields, ServerFields
<1>6. ServerHas'
  BY <1>1, <1>2, <1>3, <1>5 DEF InStep, ServerHas, message, auth
<1>7. ClientHas' /\ Together' /\ raised' = {}
  BY <1>1, <1>2, <1>3, <1>4, <1>5 DEF InStep, ClientHas, Together
<1>. QED  BY <1>6, <1>7 DEF InStep

LEMMA CSetFirstHonest == \A m \in wire : ScramInv /\ HonestInv /\ CSetFirst(m) => HonestInv'
<1>. SUFFICES ASSUME NEW m \in wire, ScramInv, HonestInv, CSetFirst(m),
                     ~OutOfTurn("client", client, 2), straight' /\ RightPassword'
              PROVE  InStep'
  BY OutOfTurnBent DEF HonestInv
<1>1. /\ UNCHANGED <<server, wire>> /\ Call(server.stage = 2 /\ m = server.first)
      /\ client.stage = 1
  <2>1. UNCHANGED <<server, wire>> /\ Call(server.stage = 2 /\ m = server.first) /\ InTurn(client, 2)
    BY DEF CSetFirst
  <2>. QED  BY <2>1, Before
<1>. DEFINE auth == AuthMessage(m.r, client.bare, m)
            set == [client EXCEPT !.stage = 2, !.full = m.r, !.salt = m.s, !.i = m.i, !.auth = auth]
<1>2. client' = set \/ client' = [client EXCEPT !.stage = 2]
  BY DEF CSetFirst, OutOfTurn
<1>3. client'.username = client.username /\ client'.password = client.password
  <2>. HIDE DEF auth
  <2>. QED  BY <1>2 DEF ScramInv, Fields, ClientFields
<1>4. /\ server.stage = 2 /\ m = server.first
      /\ InStep /\ RightPassword /\ Account' = Account
  BY <1>1, <1>3, WasStraight
<1>5. /\ server.full = <<"c1", "s1">> /\ server.bare = client.bare
      /\ server.auth = AuthMessage(server.full, server.bare, m)
      /\ m = ServerFirst(server.full, SaltOf[Account], Iterations)
  BY <1>4 DEF InStep, ServerHas
<1>6. /\ m.kind = "server first" /\ m.r = <<"c1", "s1">>
      /\ m.s = SaltOf[Account] /\ m.i = Iterations
  BY <1>5 DEF ServerFirst
<1>7. m.r[1] = client.nonce
  <2>1. client.nonce = "c1"
    BY DEF ScramInv, Fields, ClientFields
  <2>2. <<"c1", "s1">>[1] = "c1"
    OBVIOUS
  <2>. QED  BY <1>6, <2>1, <2>2
<1>8. client' = set /\ UNCHANGED raised
  BY <1>6, <1>7 DEF CSetFirst, OutOfTurn
<1>9. auth = server.auth
  BY <1>5, <1>6
<1>. HIDE DEF auth
<1>10. /\ client'.stage = 2 /\ client'.full = m.r /\ client'.salt = m.s /\ client'.i = m.i
       /\ client'.auth = auth /\ client'.bare = client.bare
  BY <1>8 DEF ScramInv, Fields, ClientFields
<1>11. ClientHas'
  <2>1. client'.bare = ClientFirst(Prep[client'.username], <<"c1">>)
    BY <1>1, <1>3, <1>4, <1>10 DEF InStep, ClientHas
  <2>2. /\ client'.full = <<"c1", "s1">> /\ client'.salt = SaltOf[Account'] /\ client'.i = Iterations
        /\ client'.auth = server'.auth
    BY <1>1, <1>4, <1>6, <1>9, <1>10
  <2>3. ~(client'.stage >= 3)
    BY <1>10
  <2>. QED  BY <2>1, <2>2, <2>3 DEF ClientHas
<1>12. ServerHas' /\ Together' /\ raised' = {}
  BY <1>1, <1>4, <1>8, <1>10 DEF InStep, ServerHas, Together
<1>. QED  BY <1>11, <1>12 DEF InStep

LEMMA CGetFinalHonest == ScramInv /\ HonestInv /\ CGetFinal => HonestInv'
<1>. SUFFICES ASSUME ScramInv, HonestInv, CGetFinal, ~OutOfTurn("client", client, 3),
                     straight' /\ RightPassword'
              PROVE  InStep'
  BY OutOfTurnBent DEF HonestInv
<1>1. UNCHANGED server /\ Call(TRUE) /\ client.stage = 2
  <2>1. UNCHANGED server /\ Call(TRUE) /\ InTurn(client, 3)
    BY DEF CGetFinal
  <2>. QED  BY <2>1, Before
<1>. DEFINE expects == Signature(ServerKey(ClientSalted), client.auth)
            set == [client EXCEPT !.stage = 3, !.expects = expects]
<1>2. \/ client.auth = Nothing /\ client' = [client EXCEPT !.stage = 3]
      \/ client.auth # Nothing /\ client' = set /\ UNCHANGED raised
  BY DEF CGetFinal, OutOfTurn, ClientSalted
<1>. HIDE DEF expects
<1>3. client'.username = client.username /\ client'.password = client.password
  BY <1>2 DEF ScramInv, Fields, ClientFields
<1>4. InStep /\ RightPassword /\ Account' = Account
  BY <1>1, <1>3, WasStraight
<1>5. server.stage = 2 /\ client.auth = server.auth /\ server.auth # Nothing
  BY <1>1, <1>4 DEF InStep, Together, ClientHas, ServerHas, AuthMessage, Nothing
<1>6. client' = set /\ UNCHANGED raised
  BY <1>2, <1>5
<1>7. /\ client'.stage = 3 /\ client'.expects = expects /\ client'.full = client.full
      /\ client'.salt = client.salt /\ client'.i = client.i
      /\ client'.auth = client.auth /\ client'.bare = client.bare
  BY <1>6 DEF ScramInv, Fields, ClientFields
<1>8. ClientSalted' = ClientSalted
  BY <1>3, <1>7 DEF ClientSalted
<1>9. ClientHas'
  BY <1>1, <1>3, <1>4, <1>7, <1>8 DEF InStep, ClientHas, expects
<1>10. ServerHas' /\ Together' /\ raised' = {}
  BY <1>1, <1>4, <1>5, <1>6, <1>7 DEF InStep, ServerHas, Together
<1>. QED  BY <1>9, <1>10 DEF InStep

LEMMA SSetFinalHonest == \A m \in wire : ScramInv /\ HonestInv /\ SSetFinal(m) => HonestInv'
<1>. SUFFICES ASSUME NEW m \in wire, ScramInv, HonestInv, SSetFinal(m),
                     ~OutOfTurn("server", server, 3), straight' /\ RightPassword'
              PROVE  InStep'
  BY OutOfTurnBent DEF HonestInv
<1>1. /\ UNCHANGED <<client, wire>> /\ server.stage = 2
      /\ Call(client.stage = 3 /\ m.kind = "client final" /\ m.r = client.full)
  <2>1. /\ UNCHANGED <<client, wire>> /\ InTurn(server, 3)
        /\ Call(client.stage = 3 /\ m.kind = "client final" /\ m.r = client.full)
    BY DEF SSetFinal
  <2>. QED  BY <2>1, Before
<1>2. /\ client.stage = 3 /\ m.kind = "client final" /\ m.r = client.full
      /\ InStep /\ RightPassword /\ Account' = Account
  BY <1>1, WasStraight
<1>3. /\ client.full = <<"c1", "s1">> /\ client.auth = server.auth
      /\ server.keys = Salted(Accounts[Account], SaltOf[Account], Iterations)
  <2>1. client.stage = 3 /\ server.stage = 2 /\ InStep
    BY <1>1, <1>2, Zenon
  <2>2. client.stage >= 2 /\ server.stage >= 1
    BY <2>1
  <2>. QED  BY <2>1, <2>2 DEF InStep, ClientHas, ServerHas
<1>4. m.r[Len(m.r)] = "s1"
  <2>1. Len(<<"c1", "s1">>) = 2 /\ <<"c1", "s1">>[2] = "s1"
    OBVIOUS
  <2>. QED  BY <1>2, <1>3, <2>1
<1>5. ClientMade(m)
  BY <1>2, <1>4 DEF ScramInv, WireOk
<1>6. ClientSalted = server.keys
  <2>1. client.stage = 3 /\ RightPassword /\ ClientHas
    BY <1>2, Zenon DEF InStep
  <2>2. client.stage >= 2
    BY <2>1
  <2>. QED  BY <1>3, <2>1, <2>2, SameKeys
<1>7. ProofHolds(m)
  <2>. DEFINE stored == StoredKey(server.keys)
  <2>1. m.p = Over(ClientKey(server.keys), Signature(stored, server.auth))
    BY <1>3, <1>5, <1>6 DEF ClientMade
  <2>2. TakenOff(m.p, Signature(stored, server.auth)) = ClientKey(server.keys)
    <3>. HIDE DEF stored
    <3>. QED  BY <2>1 DEF TakenOff, Over
  <2>3. server.nonce = "s1"
    BY DEF ScramInv, Fields, ServerFields
  <2>. QED  BY <1>4, <2>2, <2>3 DEF ProofHolds, StoredKey
<1>8. server.auth # Nothing
  BY <1>5, <1>3 DEF ClientMade
<1>. DEFINE signature == Signature(ServerKey(server.keys), server.auth)
<1>9. server' = [server EXCEPT !.stage = 3, !.trusts = TRUE, !.signature = signature] /\ UNCHANGED raised
  BY <1>2, <1>7, <1>8 DEF SSetFinal, OutOfTurn
<1>. HIDE DEF signature
<1>10. /\ server'.stage = 3 /\ server'.signature = signature /\ server'.auth = server.auth
       /\ server'.full = server.full /\ server'.user = server.user /\ server'.bare = server.bare
       /\ server'.keys = server.keys /\ server'.first = server.first
  BY <1>9 DEF ScramInv, Fields, ServerFields
<1>11. ServerHas'
  <2>1. /\ server'.user = Account /\ server'.full = <<"c1", "s1">> /\ server'.bare = client'.bare
        /\ server'.keys = Salted(Accounts[Account], SaltOf[Account], Iterations)
        /\ server'.first = ServerFirst(server'.full, SaltOf[Account], Iterations)
        /\ server'.auth = AuthMessage(server'.full, server'.bare, server'.first)
    <3>1. server.stage = 2 /\ ServerHas /\ client' = client
      BY <1>1, <1>2, Zenon DEF InStep
    <3>2. server.stage >= 1 /\ server.stage >= 2
      BY <3>1
    <3>. QED  BY <1>10, <3>1, <3>2 DEF ServerHas
  <2>2. server'.signature = Signature(ServerKey(server'.keys), server'.auth)
    BY <1>10 DEF signature
  <2>. QED  BY <1>2, <2>1, <2>2 DEF ServerHas
<1>12. ClientHas' /\ Together' /\ raised' = {}
  <2>1. ClientSalted' = ClientSalted
    BY <1>1 DEF ClientSalted
  <2>. QED  BY <1>1, <1>2, <1>9, <1>10, <2>1 DEF InStep, ClientHas, Together
<1>. QED  BY <1>11, <1>12 DEF InStep

LEMMA SGetFinalHonest == ScramInv /\ HonestInv /\ SGetFinal => HonestInv'
<1>. SUFFICES ASSUME ScramInv, HonestInv, SGetFinal, ~OutOfTurn("server", server, 4),
                     straight' /\ RightPassword'
              PROVE  InStep'
  BY OutOfTurnBent DEF HonestInv
<1>1. /\ UNCHANGED client /\ Call(TRUE) /\ server.stage = 3
      /\ server' = [server EXCEPT !.stage = 4]
  <2>1. /\ UNCHANGED client /\ Call(TRUE) /\ InTurn(server, 4)
        /\ server' = [server EXCEPT !.stage = 4]
    BY DEF SGetFinal
  <2>. QED  BY <2>1, Before
<1>2. InStep /\ RightPassword /\ Account' = Account
  BY <1>1, WasStraight
<1>3. client.stage = 3 /\ server.signature # Nothing
  BY <1>1, <1>2 DEF InStep, Together, ServerHas, Signature, Nothing
<1>4. raised' = {}
  BY <1>2, <1>3 DEF SGetFinal, OutOfTurn, InStep
<1>5. /\ server'.stage = 4 /\ server'.signature = server.signature /\ server'.auth = server.auth
      /\ server'.full = server.full /\ server'.user = server.user /\ server'.bare = server.bare
      /\ server'.keys = server.keys /\ server'.first = server.first
  BY <1>1 DEF ScramInv, Fields, ServerFields
<1>6. ServerHas'
  BY <1>1, <1>2, <1>5 DEF InStep, ServerHas
<1>7. ClientHas' /\ Together'
  <2>1. ClientSalted' = ClientSalted
    BY <1>1 DEF ClientSalted
  <2>. QED  BY <1>1, <1>2, <1>3, <1>5, <2>1 DEF InStep, ClientHas, Together
<1>. QED  BY <1>4, <1>6, <1>7 DEF InStep

LEMMA CSetFinalHonest == \A m \in wire : ScramInv /\ HonestInv /\ CSetFinal(m) => HonestInv'
<1>. SUFFICES ASSUME NEW m \in wire, ScramInv, HonestInv, CSetFinal(m),
                     ~OutOfTurn("client", client, 4), straight' /\ RightPassword'
              PROVE  InStep'
  BY OutOfTurnBent DEF HonestInv
<1>1. /\ UNCHANGED <<server, wire>> /\ client.stage = 3
      /\ Call(server.stage = 4 /\ m = ServerFinal(server.signature))
      /\ \/ client' = [client EXCEPT !.stage = 4, !.trusts = TRUE]
         \/ client' = [client EXCEPT !.stage = 4]
  <2>1. /\ UNCHANGED <<server, wire>> /\ InTurn(client, 4)
        /\ Call(server.stage = 4 /\ m = ServerFinal(server.signature))
        /\ \/ client' = [client EXCEPT !.stage = 4, !.trusts = TRUE]
           \/ client' = [client EXCEPT !.stage = 4]
    BY DEF CSetFinal
  <2>. QED  BY <2>1, Before
<1>2. /\ client'.stage = 4 /\ client'.expects = client.expects /\ client'.full = client.full
      /\ client'.salt = client.salt /\ client'.i = client.i
      /\ client'.auth = client.auth /\ client'.bare = client.bare
      /\ client'.username = client.username /\ client'.password = client.password
  BY <1>1 DEF ScramInv, Fields, ClientFields
<1>3. /\ server.stage = 4 /\ m = ServerFinal(server.signature)
      /\ InStep /\ RightPassword /\ Account' = Account
  BY <1>1, <1>2, WasStraight
<1>4. m.kind = "server final" /\ m.v = server.signature
  BY <1>3 DEF ServerFinal
<1>5. ClientSalted = server.keys /\ client.auth = server.auth
  <2>1. client.stage >= 2 /\ server.stage >= 1
    BY <1>1, <1>3
  <2>2. ClientSalted = Salted(Accounts[Account], SaltOf[Account], Iterations)
    BY <1>3, <2>1, SameKeys DEF InStep
  <2>. QED  BY <1>3, <2>1, <2>2 DEF InStep, ClientHas, ServerHas
<1>6. m.v = client.expects
  <2>1. client.stage >= 3 /\ server.stage >= 3
    BY <1>1, <1>3
  <2>2. /\ client.expects = Signature(ServerKey(ClientSalted), client.auth)
        /\ server.signature = Signature(ServerKey(server.keys), server.auth)
    BY <1>3, <2>1 DEF InStep, ClientHas, ServerHas
  <2>. QED  BY <1>4, <1>5, <2>2
<1>7. raised' = {}
  BY <1>3, <1>4, <1>6 DEF CSetFinal, OutOfTurn, InStep
<1>8. ClientSalted' = ClientSalted
  BY <1>2 DEF ClientSalted
<1>9. ClientHas'
  BY <1>1, <1>2, <1>3, <1>8 DEF InStep, ClientHas
<1>10. ServerHas' /\ Together'
  BY <1>1, <1>2, <1>3 DEF InStep, ServerHas, Together
<1>. QED  BY <1>7, <1>9, <1>10 DEF InStep

LEMMA HonestStep == ScramInv /\ HonestInv /\ [Next]_vars => HonestInv'
<1>. SUFFICES ASSUME ScramInv, HonestInv, [Next]_vars PROVE HonestInv'
  OBVIOUS
<1>1. CASE UNCHANGED vars
  BY <1>1 DEF vars, HonestInv, RightPassword, Account, InStep, Together, ClientHas, ServerHas,
              ClientSalted
<1>2. CASE CGetFirst \/ CGetFinal \/ SGetFirst \/ SGetFinal
  BY <1>2, CGetFirstHonest, CGetFinalHonest, SGetFirstHonest, SGetFinalHonest
<1>3. CASE \E m \in wire : CSetFirst(m) \/ CSetFinal(m) \/ SSetFirst(m) \/ SSetFinal(m)
  BY <1>3, CSetFirstHonest, CSetFinalHonest, SSetFirstHonest, SSetFinalHonest
<1>. QED  BY <1>1, <1>2, <1>3 DEF Next

\* With the right password, however it is typed, and every call in turn with the
\* peer's newest message, no method of either side raises (scramp core.py:113-136,
\* 148-170): an honest client gets in, though messages of an earlier exchange are
\* on the wire too.
THEOREM HonestGetsIn == Spec => []HonestSucceeds
<1>1. Init => HonestInv
  <2>. SUFFICES ASSUME Init PROVE HonestInv
    OBVIOUS
  <2>1. client.stage = 0 /\ server.stage = 0 /\ raised = {}
    BY DEF Init, NewClient, NewServer
  <2>. QED  BY <2>1 DEF HonestInv, InStep, Together, ClientHas, ServerHas
<1>2. HonestInv => HonestSucceeds
  BY DEF HonestInv, InStep, HonestSucceeds, RightPassword, Account
<1>. QED  BY <1>1, <1>2, HonestStep, Invariance, PTL DEF Spec
=============================================================================
