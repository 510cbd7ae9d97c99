-------------------------- MODULE MCScramExchange --------------------------
(* Two accounts, and names and passwords that saslprep or a comma changes. *)
EXTENDS ScramExchange, TLC

AccountTable == "ann" :> "secret" @@ "bob" :> "other"
SaltTable == "ann" :> 1 @@ "bob" :> 2
(* "sec-ret" has a soft hyphen, which saslprep maps to nothing.            *)
PrepTable ==
    [w \in {"ann", "ann,x", "eve", "bob", "secret", "sec-ret", "other"} |->
        IF w = "sec-ret" THEN "secret" ELSE w]
CutTable == [w \in {"ann", "ann,x", "eve", "bob"} |-> IF w = "ann,x" THEN "ann" ELSE w]
=============================================================================
