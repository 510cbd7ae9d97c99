----------------------------- MODULE MCAsn1Value -----------------------------
(* Five structures: one by itself, and four with each a way a child can hide *)
(* from its parent.                                                         *)
EXTENDS Asn1Value

\* Its long header ends in 80 around the wide value.
Flat == Seqn(<<IntType>>, <<"must">>)
\* A structure in a structure, with a default and an optional field.
Nested == Seqn(<<IntType, Seqn(<<IntType, IntType>>, <<"default", "optional">>)>>,
               <<"must", "must">>)
\* A list of structures.
Listed == Seqn(<<ListOf(Seqn(<<IntType>>, <<"must">>))>>, <<"must">>)
\* A structure behind an explicitly tagged Choice.
Chosen == Seqn(<<IntType, ChoiceOf(Seqn(<<IntType>>, <<"must">>))>>, <<"must", "must">>)
\* A structure encoded in an octet string.
Wrapped == Seqn(<<IntType, Octets(Seqn(<<IntType>>, <<"must">>))>>, <<"must", "must">>)

TypesDef == {Flat, Nested, Listed, Chosen, Wrapped}
LayoutsDef == {<<"der", "der">>, <<"long", "long">>, <<"der", "indefinite">>,
               <<"indefinite", "der">>, <<"indefinite", "indefinite">>}

\* The wide value makes 128 bytes behind a long header.
WidthDef == [v \in {1, 2} |-> IF v = 1 THEN 1 ELSE 125]
=============================================================================
