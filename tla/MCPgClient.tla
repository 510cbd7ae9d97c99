----------------------------- MODULE MCPgClient -----------------------------
EXTENDS PgClient
Kinds == [p \in Statements |-> IF p = "query" THEN "select" ELSE "update"]
=============================================================================
