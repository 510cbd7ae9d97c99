--------------------------- MODULE ScramExchange ---------------------------
(***************************************************************************)
(* scramp: the salted challenge-response exchange of a ScramClient, which  *)
(* pg8000 drives when the server asks for SASL, and a ScramServer.  Their  *)
(* methods may be called in any order and with any message that was ever   *)
(* on the wire, those of an earlier exchange included.  Hashes and the     *)
(* exclusive or are symbols: two are equal when they are made of equal     *)
(* parts, and only the signature that was put over a key takes it off.     *)
(***************************************************************************)
EXTENDS Naturals, Sequences

CONSTANTS
    Passwords,  \* what the client may be given
    Users,      \* user names the client may be given
    Accounts,   \* user name -> password, both prepared: what auth_fn knows
    SaltOf,     \* user name -> salt
    Prep,       \* saslprep on user names and passwords, a function
    Cut,        \* user names -> what _parse_message makes of "n=" up to a comma
    MaxCalls    \* bound: method calls of an exchange

ASSUME ScramAssumption ==
    /\ Passwords \cup Users \subseteq DOMAIN Prep
    /\ DOMAIN SaltOf = DOMAIN Accounts
    /\ \A user \in DOMAIN Accounts : Prep[Accounts[user]] = Accounts[user]
    /\ MaxCalls \in Nat

VARIABLES
    client,   \* the ScramClient
    server,   \* the ScramServer
    wire,     \* the messages there have been
    calls,    \* how many methods were called
    raised,   \* history: who has raised
    straight  \* history: each call in turn, with the newest message of the peer

vars == <<client, server, wire, calls, raised, straight>>

Iterations == 4096

(* The keys a password gives (_make_salted_password, _c_key_stored_key_s_key). *)
\* Mutant: the password is taken as it was typed.
SaltedAsTyped(password, salt, i) == <<"hi", password, salt, i>>
Salted(password, salt, i) == <<"hi", Prep[password], salt, i>>
ClientKey(salted) == <<"hmac", salted, "Client Key">>
StoredKey(salted) == <<"hash", ClientKey(salted)>>
ServerKey(salted) == <<"hmac", salted, "Server Key">>
Signature(key, message) == <<"hmac", key, message>>
Over(key, signature) == <<"xor", key, signature>>
TakenOff(proof, signature) ==
    IF proof[3] = signature THEN proof[2] ELSE <<"xor", proof, signature>>

(* What both sides sign: the bare first message of the client, the first   *)
(* message of the server and the nonce.                                    *)
AuthMessage(nonce, bare, first) == <<bare, first, nonce>>

(* Messages.  The nonce of a first message is the client's, of the others  *)
(* the client's followed by the server's.                                  *)
ClientFirst(user, nonce) == [kind |-> "client first", n |-> user, r |-> nonce]
ServerFirst(nonce, salt, i) == [kind |-> "server first", r |-> nonce, s |-> salt, i |-> i]
ClientFinal(nonce, proof) == [kind |-> "client final", r |-> nonce, p |-> proof]
ServerFinal(signature) == [kind |-> "server final", v |-> signature]

Nothing == <<>>
NoMessage == [kind |-> "none"]

(* The stages of either side, in order; 0 is None.                         *)
InTurn(side, stage) == side.stage < 4 /\ stage = side.stage + 1

(***************************************************************************)
(* A call out of turn raises and leaves the object as it is.  A call in    *)
(* turn moves the stage first, so when the message is refused the stage    *)
(* has moved all the same.                                                 *)
(***************************************************************************)
Call(fresh) ==
    /\ calls < MaxCalls
    /\ calls' = calls + 1
    /\ straight' = (straight /\ fresh)

Raise(who) == raised' = raised \cup {who}

OutOfTurn(who, side, stage) ==
    /\ ~InTurn(side, stage)
    /\ Call(FALSE)
    /\ Raise(who)
    /\ UNCHANGED <<client, server, wire>>

CGetFirst ==
    \/ OutOfTurn("client", client, 1)
    \/ /\ InTurn(client, 1)
       /\ Call(TRUE)
       /\ LET message == ClientFirst(Prep[client.username], <<client.nonce>>)
          IN /\ client' = [client EXCEPT !.stage = 1, !.bare = message]
             /\ wire' = wire \cup {message}
       /\ UNCHANGED <<server, raised>>

CSetFirst(m) ==
    \/ OutOfTurn("client", client, 2)
    \/ /\ InTurn(client, 2)
       /\ Call(server.stage = 2 /\ m = server.first)
       /\ IF m.kind = "server first" /\ m.r[1] = client.nonce
          THEN /\ client' = [client EXCEPT !.stage = 2, !.full = m.r, !.salt = m.s, !.i = m.i,
                                           !.auth = AuthMessage(m.r, client.bare, m)]
               /\ UNCHANGED raised
          ELSE client' = [client EXCEPT !.stage = 2] /\ Raise("client")
       /\ UNCHANGED <<server, wire>>

(* The signature the server is to show is computed here.                   *)
CGetFinal ==
    \/ OutOfTurn("client", client, 3)
    \/ /\ InTurn(client, 3)
       /\ Call(TRUE)
       /\ IF client.auth = Nothing
          THEN client' = [client EXCEPT !.stage = 3] /\ Raise("client") /\ UNCHANGED wire
          ELSE LET salted == Salted(client.password, client.salt, client.i)
                   proof == Over(ClientKey(salted), Signature(StoredKey(salted), client.auth))
               IN /\ client' = [client EXCEPT !.stage = 3,
                                  !.expects = Signature(ServerKey(salted), client.auth)]
                  /\ wire' = wire \cup {ClientFinal(client.full, proof)}
                  /\ UNCHANGED raised
       /\ UNCHANGED server

\* Mutant: the signature is not compared.
CSetFinalBlind(m) ==
    \/ OutOfTurn("client", client, 4)
    \/ /\ InTurn(client, 4)
       /\ Call(server.stage = 4 /\ m = ServerFinal(server.signature))
       /\ IF m.kind = "server final"
          THEN client' = [client EXCEPT !.stage = 4, !.trusts = TRUE] /\ UNCHANGED raised
          ELSE client' = [client EXCEPT !.stage = 4] /\ Raise("client")
       /\ UNCHANGED <<server, wire>>
CSetFinal(m) ==
    \/ OutOfTurn("client", client, 4)
    \/ /\ InTurn(client, 4)
       /\ Call(server.stage = 4 /\ m = ServerFinal(server.signature))
       /\ IF m.kind = "server final" /\ m.v = client.expects
          THEN client' = [client EXCEPT !.stage = 4, !.trusts = TRUE] /\ UNCHANGED raised
          ELSE client' = [client EXCEPT !.stage = 4] /\ Raise("client")
       /\ UNCHANGED <<server, wire>>

(* auth_fn raises for a user it does not know.                             *)
SSetFirst(m) ==
    \/ OutOfTurn("server", server, 1)
    \/ /\ InTurn(server, 1)
       /\ Call(client.stage = 1 /\ m = client.bare)
       /\ IF m.kind # "client first"
          THEN server' = [server EXCEPT !.stage = 1] /\ Raise("server")
          ELSE LET user == Cut[m.n]
                   read == [server EXCEPT !.stage = 1, !.full = Append(m.r, server.nonce),
                                          !.user = user, !.bare = m]
               IN IF user \in DOMAIN Accounts
                  THEN /\ server' = [read EXCEPT !.keys =
                                       Salted(Accounts[user], SaltOf[user], Iterations)]
                       /\ UNCHANGED raised
                  ELSE server' = read /\ Raise("server")
       /\ UNCHANGED <<client, wire>>

SGetFirst ==
    \/ OutOfTurn("server", server, 2)
    \/ /\ InTurn(server, 2)
       /\ Call(TRUE)
       /\ IF server.keys = Nothing
          THEN server' = [server EXCEPT !.stage = 2] /\ Raise("server") /\ UNCHANGED wire
          ELSE LET message == ServerFirst(server.full, SaltOf[server.user], Iterations)
               IN /\ server' = [server EXCEPT !.stage = 2, !.first = message,
                                  !.auth = AuthMessage(server.full, server.bare, message)]
                  /\ wire' = wire \cup {message}
                  /\ UNCHANGED raised
       /\ UNCHANGED client

(* _set_client_final: the nonce must end in the server's, and the key under *)
(* the signature must hash to the stored one.                              *)
\* Mutant: only the nonce is looked at.
ProofHoldsNonce(m) == m.r[Len(m.r)] = server.nonce
ProofHolds(m) ==
    /\ m.r[Len(m.r)] = server.nonce
    /\ LET stored == StoredKey(server.keys)
       IN <<"hash", TakenOff(m.p, Signature(stored, server.auth))>> = stored

SSetFinal(m) ==
    \/ OutOfTurn("server", server, 3)
    \/ /\ InTurn(server, 3)
       /\ Call(client.stage = 3 /\ m.kind = "client final" /\ m.r = client.full)
       /\ IF server.auth # Nothing /\ m.kind = "client final" /\ ProofHolds(m)
          THEN /\ server' = [server EXCEPT !.stage = 3, !.trusts = TRUE,
                               !.signature = Signature(ServerKey(server.keys), server.auth)]
               /\ UNCHANGED raised
          ELSE server' = [server EXCEPT !.stage = 3] /\ Raise("server")
       /\ UNCHANGED <<client, wire>>

SGetFinal ==
    \/ OutOfTurn("server", server, 4)
    \/ /\ InTurn(server, 4)
       /\ Call(TRUE)
       /\ server' = [server EXCEPT !.stage = 4]
       /\ IF server.signature = Nothing
          THEN Raise("server") /\ UNCHANGED wire
          ELSE wire' = wire \cup {ServerFinal(server.signature)} /\ UNCHANGED raised
       /\ UNCHANGED client

-----------------------------------------------------------------------------

NewClient(user, password, nonce) ==
    [stage |-> 0, username |-> user, password |-> password, nonce |-> nonce,
     bare |-> NoMessage, full |-> <<>>, salt |-> 0, i |-> 0, auth |-> Nothing,
     expects |-> Nothing, trusts |-> FALSE]

NewServer(nonce) ==
    [stage |-> 0, nonce |-> nonce, full |-> <<>>, user |-> 0, bare |-> NoMessage,
     first |-> NoMessage, keys |-> Nothing, auth |-> Nothing, signature |-> Nothing,
     trusts |-> FALSE]

(* The messages of an exchange that this user and password completed       *)
(* before, with other nonces.                                              *)
EarlierExchange(user) ==
    LET nonce == <<"c0", "s0">>
        first == ServerFirst(nonce, SaltOf[user], Iterations)
        bare == ClientFirst(user, <<"c0">>)
        auth == AuthMessage(nonce, bare, first)
        salted == Salted(Accounts[user], SaltOf[user], Iterations)
    IN { bare, first,
         ClientFinal(nonce, Over(ClientKey(salted), Signature(StoredKey(salted), auth))),
         ServerFinal(Signature(ServerKey(salted), auth)) }

Init ==
    /\ \E user \in Users, password \in Passwords : client = NewClient(user, password, "c1")
    /\ server = NewServer("s1")
    /\ wire \in {{}} \cup {EarlierExchange(user) : user \in DOMAIN Accounts}
    /\ calls = 0
    /\ raised = {}
    /\ straight = TRUE

Next ==
    \/ CGetFirst \/ CGetFinal \/ SGetFirst \/ SGetFinal
    \/ \E m \in wire : CSetFirst(m) \/ CSetFinal(m) \/ SSetFirst(m) \/ SSetFinal(m)

Spec == Init /\ [][Next]_vars

-----------------------------------------------------------------------------

\* The state is well formed, and what a side has computed belongs to a stage
\* it has been through: the methods that use it come later.
TypeOK ==
    /\ client.stage \in 0..4 /\ server.stage \in 0..4
    /\ (client.bare # NoMessage) <=> (client.stage >= 1)
    /\ client.auth # Nothing => client.stage >= 2
    /\ client.expects # Nothing => client.stage >= 3
    /\ server.auth # Nothing => server.stage >= 2
    /\ server.signature # Nothing => server.stage >= 3
    /\ {client.trusts, server.trusts} \subseteq BOOLEAN
    /\ calls \in 0..MaxCalls
    /\ raised \subseteq {"client", "server"}

\* set_client_final returns only to a server whose user's password the client
\* has, and only for what this client signed in this exchange: the messages
\* of an earlier exchange, whatever the order they come in, prove nothing.
\* (With the type invariant: no stage uses what no stage before has made.)
ServerTrustsHolder ==
    /\ TypeOK
    /\ server.trusts =>
         /\ client.stage >= 3
         /\ client.auth = server.auth
         /\ Prep[client.password] = Accounts[server.user]

\* set_server_final returns only when the server of this exchange knows the
\* client's keys and has accepted the client's proof before.
ClientTrustsServer ==
    client.trusts =>
      /\ server.trusts
      /\ client.full = server.full
      /\ client.expects = server.signature

\* No false alarm: with the right password, however it is typed, and every
\* call in turn with the peer's newest message, no method raises.
HonestSucceeds ==
    /\ straight
    /\ Cut[Prep[client.username]] \in DOMAIN Accounts
    /\ Prep[client.password] = Accounts[Cut[Prep[client.username]]]
    => raised = {}
=============================================================================
