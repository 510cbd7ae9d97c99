--------------------------- MODULE ParamScanProofs ---------------------------
(***************************************************************************)
(* convert_paramstyle keeps to the server's reading of a statement, for    *)
(* every text over any characters, however long, as long as the text needs *)
(* no rule of the server that the scanner does not have; those that do are *)
(* Odd, and the invariants leave them out.  InStep says how the states of  *)
(* the scanner and of the server's reader go together, with one character  *)
(* of each side; NamesInv, FoundInv and TextInv say, at each character, what  *)
(* the properties say at the end of the text.                              *)
(***************************************************************************)
EXTENDS ParamScan, FiniteSetTheorems, SequenceTheorems, WellFoundedInduction, TLAPS

-----------------------------------------------------------------------------
(* The pieces of the inductive invariant: all but for the texts in Odd. *)

\* Where the scanner and the server's reader stand together, character by
\* character: what the last one says of the next, and the next of the state.
InStep ==
  \/ /\ state = "OUTSIDE" /\ ~quoted
     /\ \/ region = "plain"
        \/ region = "string?" /\ prev = "'" /\ cur # "'"
        \/ region = "escape?" /\ prev = "'"
  \/ /\ state = "INSIDE_SQ"
     /\ \/ region = "string" /\ ~quoted
        \/ region = "string?" /\ quoted /\ cur = "'"
  \/ /\ state = "INSIDE_ES" /\ ~quoted
     /\ \/ region = "escape" /\ prev # "\\"
        \/ region = "escaped" /\ prev = "\\"
  \/ state = "INSIDE_QI" /\ ~quoted /\ region = "identifier"
  \/ state = "INSIDE_CO" /\ ~quoted /\ region = "comment"
  \/ /\ state = "INSIDE_PN" /\ ~quoted /\ region = "plain"
     /\ \/ style = "named" /\ cur \in NameChars
        \/ style = "format" /\ cur = "s"
        \/ style = "pyformat"

\* A name is being read; those before it are complete.
Naming == state = "INSIDE_PN" /\ style \in {"named", "pyformat"}
Complete == IF Naming THEN Front(names) ELSE names

NamesInv ==
  /\ style \notin {"named", "pyformat"} => names = <<>>
  /\ Naming => names # <<>>
  /\ IsInjective(Complete)
  /\ \A i \in DOMAIN out :
       out[i].k \in 0 .. (IF style \in {"named", "pyformat"} THEN Len(Complete) ELSE slots)
  /\ \A k \in DOMAIN Complete : \E i \in DOMAIN out : out[i].k = k

FoundInv ==
  found = Cardinality({i \in DOMAIN out : out[i].k > 0}) + (IF Naming THEN 1 ELSE 0)

\* What was read of a placeholder, or of a doubled %, whose token is yet to come.
Owed ==
  CASE Naming /\ style = "named" -> <<":">> \o Last(names)
    [] Naming /\ style = "pyformat" /\ prev = "%" -> <<"%">>
    [] Naming /\ style = "pyformat" /\ prev = ")" -> <<"%", "(">> \o Last(names) \o <<")">>
    [] Naming /\ style = "pyformat" /\ prev \notin {"%", ")"} -> <<"%", "(">> \o Last(names)
    [] ~Naming /\ escaped -> <<"%">>
    [] ~Naming /\ ~escaped -> <<>>

\* The token of a %s is written before its s is read.
Ahead == state = "INSIDE_PN" /\ style = "format"

Balance == IF Ahead THEN text \o <<"s">> = Written ELSE text = Written \o Owed

\* What is known between the two halves of a doubled percent sign, and at the
\* parentheses around a name.
Doubled == escaped => state = "OUTSIDE" /\ style = "format" /\ cur = "%"
Bracketed ==
  Naming /\ style = "pyformat" =>
    /\ prev = "%" => cur = "(" /\ Last(names) = <<>>
    /\ prev = ")" => cur = "s"

TextInv == Balance /\ Doubled /\ Bracketed

\* The values the variables have.
Chars == {"$", ":", "%", "(", ")", "s", "?"} \cup UNION {Alphabet[s] : s \in Styles}
Token == [c : Chars \cup {"%%"}, k : Nat]

Types ==
  /\ style \in Styles /\ cur \in Alphabet[style] \cup {End}
  /\ text \in Seq(Chars) /\ names \in Seq(Seq(Chars)) /\ out \in Seq(Token)
  /\ slots \in Nat /\ found \in Nat

States == {"OUTSIDE", "INSIDE_SQ", "INSIDE_QI", "INSIDE_ES", "INSIDE_PN", "INSIDE_CO"}

\* Only the styles with names, and %s, have a state of their own for them.
StateInv == state \in States /\ (state = "INSIDE_PN" => style \in {"named", "pyformat", "format"})

ScanInv ==
  /\ StateInv
  /\ ~odd => Types /\ NamesInv
  /\ ~odd /\ ~error => InStep /\ FoundInv /\ TextInv

-----------------------------------------------------------------------------
(* Steps of the scanner on a text that is not odd.                          *)

Reads == {"named", "numeric", "qmark", "format", "pyformat"}

\* What a step starts from.
Reading(next) ==
  /\ style \in Reads /\ ~odd /\ ~error /\ InStep
  /\ ~Odd(next) /\ Read(next)

\* No quote, dash or placeholder sign is part of a name.
LEMMA NoNameQuotes ==
    /\ "'" \notin NameChars /\ "\"" \notin NameChars /\ "-" \notin NameChars
    /\ ":" \notin NameChars /\ "=" \notin NameChars /\ "%" \notin NameChars
    /\ "(" \notin NameChars /\ ")" \notin NameChars /\ "?" \notin NameChars
    /\ "\n" \notin NameChars /\ "\\" \notin NameChars /\ "" \notin NameChars
  BY ParamScanAssumption

\* Scanner and server stay in step: outside of quotes, in them, in a name.
LEMMA InStepOutside ==
    ASSUME NEW next, Reading(next), Outside(next), ~error'
    PROVE  InStep'
<1>1. /\ state = "OUTSIDE" /\ ~quoted /\ region' = Lex /\ prev' = cur /\ cur' = next
      /\ \/ region = "plain"
         \/ region = "string?" /\ prev = "'" /\ cur # "'"
         \/ region = "escape?" /\ prev = "'"
  BY DEF Reading, InStep, Outside, Read
<1>2. Lex = FromPlain
  BY <1>1 DEF Reading, Odd, Lex
<1>3. region = "plain" /\ cur = "'" => (prev = "E" <=> EscapeOpens)
  BY DEF Reading, Odd, EscapeOpens
<1>4. CASE OpenQuote
  <2>1. region = "plain"
    BY <1>1, <1>4 DEF Reading, Odd, OpenQuote
  <2>. QED  BY <1>1, <1>2, <1>3, <1>4, <2>1 DEF OpenQuote, Goto, Keep, InStep, FromPlain
<1>5. CASE OpenIdentifier
  BY <1>1, <1>2, <1>5 DEF OpenIdentifier, Goto, Keep, InStep, FromPlain
<1>6. CASE Dash
  BY <1>1, <1>2, <1>6 DEF Dash, Goto, Keep, InStep, FromPlain
<1>7. CASE QuestionMark
  BY <1>1, <1>2, <1>7 DEF QuestionMark, Keep, InStep, FromPlain
<1>8. CASE ColonAtEnd(next)
  BY <1>8 DEF ColonAtEnd
<1>9. CASE Colon(next)
  <2>1. next \in NameChars
    BY <1>9 DEF Colon, ColonStyle, Names, Reading, Odd
  <2>. QED  BY <1>1, <1>2, <1>9, <2>1 DEF Colon, ColonStyle, Goto, Keep, InStep, FromPlain
<1>10. CASE PercentName(next)
  BY <1>1, <1>2, <1>10 DEF PercentName, Goto, Keep, InStep, FromPlain
<1>11. CASE Percent(next)
  <2>1. style = "format"
    BY <1>11 DEF Percent, PercentStyle, Reading, Odd
  <2>2. cur = "%" /\ quoted' = quoted
    BY <1>11 DEF Percent, PercentStyle, Keep
  <2>3. state' = "OUTSIDE" \/ (state' = "INSIDE_PN" /\ next = "s")
    BY <1>1, <1>11 DEF Percent, Goto, Keep
  <2>4. style' = "format"
    BY <1>11 DEF Percent
  <2>. QED  BY <1>1, <1>2, <2>2, <2>3, <2>4 DEF InStep, FromPlain
<1>12. CASE Plain(next)
  BY <1>1, <1>2, <1>12 DEF Plain, Keep, InStep, FromPlain
<1>. QED  BY <1>4, <1>5, <1>6, <1>7, <1>8, <1>9, <1>10, <1>11, <1>12 DEF Outside

LEMMA InStepInside ==
    ASSUME NEW next, Reading(next),
           InString(next) \/ InIdentifier \/ InEscapeString \/ InComment
    PROVE  InStep'
<1>1. InStep /\ region' = Lex /\ prev' = cur /\ cur' = next
  BY DEF Reading, Read
<1>2. CASE InString(next)
  BY <1>1, <1>2 DEF InString, Goto, Keep, InStep, Lex
<1>3. CASE InIdentifier
  BY <1>1, <1>3 DEF InIdentifier, Until, Goto, Keep, InStep, Lex
<1>4. CASE InEscapeString
  <2>1. ~(region = "escaped" /\ cur = "\\")
    BY DEF Reading, Odd
  <2>. QED  BY <1>1, <1>4, <2>1 DEF InEscapeString, Until, Goto, Keep, InStep, Lex
<1>5. CASE InComment
  <2>1. ~(region = "comment" /\ cur = "\r")
    BY DEF Reading, Odd
  <2>. QED  BY <1>1, <1>5, <2>1 DEF InComment, Until, Goto, Keep, InStep, Lex
<1>. QED  BY <1>2, <1>3, <1>4, <1>5

LEMMA InStepName ==
    ASSUME NEW next, Reading(next), InName(next)
    PROVE  InStep'
<1>1. /\ state = "INSIDE_PN" /\ ~quoted /\ region = "plain"
      /\ \/ style = "named" /\ cur \in NameChars
         \/ style = "format" /\ cur = "s"
         \/ style = "pyformat"
      /\ region' = Lex /\ prev' = cur /\ cur' = next
  BY DEF Reading, InStep, InName, Read
<1>2. quoted' = quoted /\ style' = style
  BY DEF InName, Keep
<1>3. cur \notin {"'", "\"", "-"}
  BY <1>1, NoNameQuotes DEF Reading, Odd
<1>4. Lex = "plain"
  BY <1>1, <1>3 DEF Lex, FromPlain
<1>5. CASE style = "named"
  <2>1. (state' = "INSIDE_PN" /\ next \in NameChars) \/ state' = "OUTSIDE"
    BY <1>1, <1>5 DEF InName, EndName, Goto, Keep
  <2>. QED  BY <1>1, <1>2, <1>4, <1>5, <2>1 DEF InStep
<1>6. CASE style = "pyformat"
  <2>1. state' \in {"INSIDE_PN", "OUTSIDE"}
    BY <1>1, <1>6 DEF InName, EndName, Goto, Keep
  <2>. QED  BY <1>1, <1>2, <1>4, <1>6, <2>1 DEF InStep
<1>7. CASE style = "format"
  <2>1. state' = "OUTSIDE"
    BY <1>7 DEF InName, Goto
  <2>. QED  BY <1>1, <1>2, <1>4, <2>1 DEF InStep
<1>. QED  BY <1>1, <1>5, <1>6, <1>7

\* Induction over the numbers, from the library's minimal elements.
Less == {p \in Nat \X Nat : p[1] < p[2]}

LEMMA LessWellFounded == IsWellFoundedOn(Less, Nat)
<1>1. IsWellFoundedOn(OpToRel(<, Nat), Nat)
  BY NatLessThanWellFounded
<1>2. OpToRel(<, Nat) = Less
  BY DEF OpToRel, Less
<1>. QED  BY <1>1, <1>2

LEMMA Induction ==
    ASSUME NEW S, 0 \in S, \A n \in Nat : n \in S => n + 1 \in S
    PROVE  Nat \subseteq S
<1>. SUFFICES ASSUME NEW k \in Nat \ S PROVE FALSE
  OBVIOUS
<1>. DEFINE U == Nat \ S
<1>1. PICK n \in U : \A m \in U : ~(<<m, n>> \in Less)
  <2>1. U \subseteq Nat /\ U # {}
    OBVIOUS
  <2>. HIDE DEF U
  <2>. QED  BY <2>1, LessWellFounded, WFMin
<1>2. n \in Nat /\ n # 0 /\ n - 1 \in Nat /\ n - 1 < n
  BY <1>1
<1>3. n - 1 \in S
  BY <1>1, <1>2 DEF Less
<1>. QED  BY <1>1, <1>2, <1>3

-----------------------------------------------------------------------------
(* What was written, one token after the other.                             *)

\* f puts the elements of s together, by the equation of FlattenSeq.
Flattens(f, s) ==
    f = [i \in 1..Len(s) |-> IF i = 1 THEN s[i] ELSE f[i-1] \o s[i]]

LEMMA FlattenExists ==
    ASSUME NEW C, NEW s \in Seq(Seq(C))
    PROVE  \E f : Flattens(f, s)
<1>. DEFINE For(n, g) == \A i \in 1..n : i =< Len(s) => g[i] = IF i = 1 THEN s[i] ELSE g[i-1] \o s[i]
            N == {n \in Nat : \E g : For(n, g)}
<1>1. 0 \in N
  OBVIOUS
<1>2. ASSUME NEW n \in Nat, n \in N PROVE n + 1 \in N
  <2>1. PICK g : For(n, g)
    BY <1>2
  <2>. DEFINE h == [i \in 1..(n + 1) |->
                      IF i =< n THEN g[i] ELSE IF i = 1 THEN s[i] ELSE g[i-1] \o s[i]]
  <2>2. ASSUME NEW i \in 1..(n + 1), i =< Len(s)
        PROVE  h[i] = IF i = 1 THEN s[i] ELSE h[i-1] \o s[i]
    <3>1. CASE i = 1
      BY <2>1, <2>2, <3>1
    <3>2. CASE i # 1
      <4>1. i - 1 \in 1..n /\ h[i-1] = g[i-1]
        BY <3>2
      <4>2. CASE i =< n
        <5>1. i \in 1..n /\ h[i] = g[i]
          BY <4>2
        <5>2. g[i] = g[i-1] \o s[i]
          BY <2>1, <2>2, <3>2, <5>1
        <5>. HIDE DEF h
        <5>. QED  BY <3>2, <4>1, <5>1, <5>2
      <4>3. CASE ~(i =< n)
        BY <3>2, <4>1, <4>3
      <4>. QED  BY <4>2, <4>3
    <3>. QED  BY <3>1, <3>2
  <2>3. For(n + 1, h)
    <3>. HIDE DEF h
    <3>. QED  BY <2>2
  <2>4. \E k : For(n + 1, k)
    <3>. HIDE DEF h, For
    <3>. QED  BY <2>3
  <2>. HIDE DEF For
  <2>. QED  BY <2>4
<1>3. Len(s) \in N
  <2>1. Nat \subseteq N
    <3>. HIDE DEF N
    <3>. QED  BY <1>1, <1>2, Induction
  <2>2. Len(s) \in Nat
    OBVIOUS
  <2>. HIDE DEF N
  <2>. QED  BY <2>1, <2>2
<1>4. PICK g : For(Len(s), g)
  BY <1>3
<1>. DEFINE f == [i \in 1..Len(s) |-> g[i]]
<1>5. \A i \in 1..Len(s) : f[i] = IF i = 1 THEN s[i] ELSE f[i-1] \o s[i]
  BY <1>4
<1>6. f = [i \in 1..Len(s) |-> IF i = 1 THEN s[i] ELSE f[i-1] \o s[i]]
  <2>1. f = [i \in 1..Len(s) |-> f[i]]
    OBVIOUS
  <2>. HIDE DEF f
  <2>. QED  BY <1>5, <2>1
<1>. QED  BY <1>6 DEF Flattens

LEMMA FlattenEquation ==
    ASSUME NEW s, NEW f, Flattens(f, s)
    PROVE  \A i \in 1..Len(s) : f[i] = IF i = 1 THEN s[i] ELSE f[i-1] \o s[i]
  BY DEF Flattens

\* Sequences that begin the same are put together the same.
LEMMA FlattenSame ==
    ASSUME NEW C, NEW s \in Seq(Seq(C)), NEW f, Flattens(f, s),
           NEW t, NEW g, Flattens(g, t),
           Len(s) =< Len(t), Len(t) \in Nat, \A i \in 1..Len(s) : t[i] = s[i]
    PROVE  \A i \in 1..Len(s) : f[i] = g[i] /\ f[i] \in Seq(C)
<1>. DEFINE N == {n \in Nat : n \in 1..Len(s) => f[n] = g[n] /\ f[n] \in Seq(C)}
<1>1. 0 \in N
  OBVIOUS
<1>2. ASSUME NEW n \in Nat, n \in N PROVE n + 1 \in N
  <2>. SUFFICES ASSUME n + 1 \in 1..Len(s) PROVE f[n+1] = g[n+1] /\ f[n+1] \in Seq(C)
    OBVIOUS
  <2>. DEFINE i == n + 1
  <2>1. s[i] \in Seq(C) /\ t[i] = s[i] /\ i \in 1..Len(t)
    OBVIOUS
  <2>2. f[i] = IF i = 1 THEN s[i] ELSE f[i-1] \o s[i]
    BY FlattenEquation
  <2>3. g[i] = IF i = 1 THEN t[i] ELSE g[i-1] \o t[i]
    BY <2>1, FlattenEquation
  <2>4. CASE n = 0
    BY <2>1, <2>2, <2>3, <2>4
  <2>5. CASE n # 0
    <3>1. i # 1 /\ i - 1 = n /\ n \in 1..Len(s)
      BY <2>5
    <3>2. f[n] = g[n] /\ f[n] \in Seq(C)
      BY <1>2, <3>1
    <3>3. f[i] = f[n] \o s[i] /\ g[i] = f[n] \o s[i]
      BY <2>1, <2>2, <2>3, <3>1, <3>2
    <3>4. f[n] \o s[i] \in Seq(C)
      BY <2>1, <3>2
    <3>. QED  BY <3>3, <3>4
  <2>. QED  BY <2>4, <2>5
<1>3. Nat \subseteq N
  <2>. HIDE DEF N
  <2>. QED  BY <1>1, <1>2, Induction
<1>. QED  BY <1>3

LEMMA FlattenIs ==
    ASSUME NEW C, NEW s \in Seq(Seq(C)), s # <<>>
    PROVE  \E f : Flattens(f, s) /\ FlattenSeq(s) = f[Len(s)]
<1>1. FlattenSeq(s) = (CHOOSE f : Flattens(f, s))[Len(s)]
  BY DEF FlattenSeq, Flattens
<1>2. \E f : Flattens(f, s)
  BY FlattenExists
<1>. QED  BY <1>1, <1>2

LEMMA FlattenEmpty == FlattenSeq(<<>>) = <<>>
  BY DEF FlattenSeq

LEMMA FlattenAppend ==
    ASSUME NEW C, NEW s \in Seq(Seq(C)), NEW e \in Seq(C)
    PROVE  /\ FlattenSeq(s) \in Seq(C)
           /\ FlattenSeq(Append(s, e)) = FlattenSeq(s) \o e
<1>. DEFINE t == Append(s, e)
<1>1. /\ t \in Seq(Seq(C)) /\ t # <<>> /\ Len(t) = Len(s) + 1 /\ Len(s) \in Nat /\ t[Len(t)] = e
      /\ \A i \in 1..Len(s) : t[i] = s[i]
  <2>1. Len(s) \in Nat /\ Len(t) = Len(s) + 1
    OBVIOUS
  <2>2. t \in Seq(Seq(C))
    OBVIOUS
  <2>3. t[Len(t)] = e
    OBVIOUS
  <2>4. \A i \in 1..Len(s) : t[i] = s[i]
    OBVIOUS
  <2>5. t # <<>>
    BY <2>1
  <2>. QED  BY <2>1, <2>2, <2>3, <2>4, <2>5
<1>. HIDE DEF t
<1>2. PICK g : Flattens(g, t) /\ FlattenSeq(t) = g[Len(t)]
  BY <1>1, FlattenIs
<1>3. g[Len(t)] = IF Len(t) = 1 THEN e ELSE g[Len(t) - 1] \o e
  BY <1>1, <1>2, FlattenEquation
<1>4. CASE s = <<>>
  <2>1. Len(t) = 1 /\ FlattenSeq(s) = <<>>
    BY <1>1, <1>4, FlattenEmpty
  <2>2. <<>> \o e = e /\ <<>> \in Seq(C)
    OBVIOUS
  <2>. QED  BY <1>2, <1>3, <2>1, <2>2 DEF t
<1>5. CASE s # <<>>
  <2>1. PICK f : Flattens(f, s) /\ FlattenSeq(s) = f[Len(s)]
    BY <1>5, FlattenIs
  <2>2. Len(s) \in 1..Len(s) /\ Len(t) # 1 /\ Len(t) - 1 = Len(s) /\ Len(s) =< Len(t) /\ Len(t) \in Nat
    BY <1>1, <1>5
  <2>3. \A i \in 1..Len(s) : f[i] = g[i] /\ f[i] \in Seq(C)
    BY <1>1, <1>2, <2>1, <2>2, FlattenSame
  <2>4. f[Len(s)] = g[Len(s)] /\ f[Len(s)] \in Seq(C)
    BY <2>2, <2>3
  <2>. QED  BY <1>2, <1>3, <2>1, <2>2, <2>4 DEF t
<1>. QED  BY <1>4, <1>5

-----------------------------------------------------------------------------
(* What a step does to the output and the names, and to the count of what   *)
(* the server takes for a placeholder.                                      *)

Counts(n) == found' = found + n

\* A character is copied.
Copies ==
  /\ out' = Append(out, Char(cur))
  /\ UNCHANGED <<style, names, slots, escaped>> /\ Counts(0)
  /\ ~Naming /\ ~Naming' /\ ~Ahead /\ ~Ahead' /\ ~escaped

\* A placeholder without a name is replaced.
Takes(next) ==
  /\ \E k \in {1, slots + 1} : out' = Append(out, Slot(k))
  /\ slots' = slots + 1
  /\ UNCHANGED <<style, names, escaped>> /\ Counts(1)
  /\ ~Naming /\ ~Naming' /\ ~Ahead /\ ~escaped
  /\ \/ style = "qmark" /\ cur = "?" /\ ~Ahead'
     \/ style = "numeric" /\ cur = ":" /\ ~Ahead'
     \/ style = "format" /\ cur = "%" /\ Ahead' /\ next = "s"

\* A name begins.
Begins(next) ==
  /\ names' = Append(names, <<>>)
  /\ UNCHANGED <<style, out, slots, escaped>> /\ Counts(1)
  /\ ~Naming /\ Naming' /\ ~Ahead /\ ~Ahead' /\ ~escaped
  /\ \/ style = "named" /\ cur = ":"
     \/ style = "pyformat" /\ cur = "%" /\ next = "("

\* A name goes on, or one of the parentheses around it is read.
GoesOn(next) ==
  /\ UNCHANGED <<style, out, slots, escaped>> /\ Counts(0)
  /\ Naming /\ Naming' /\ ~Ahead /\ ~Ahead'
  /\ \/ style = "named" /\ names' = Longer
     \/ style = "pyformat" /\ cur \in NameChars /\ prev # ")" /\ names' = Longer
     \/ style = "pyformat" /\ cur = "(" /\ prev = "%" /\ names' = names
     \/ style = "pyformat" /\ cur = ")" /\ next = "s" /\ names' = names

\* A name ends.
Ends(all) ==
  /\ EndName(all)
  /\ UNCHANGED <<style, slots, escaped>> /\ Counts(0)
  /\ Naming /\ ~Naming' /\ ~Ahead /\ ~Ahead'
  /\ \/ style = "named" /\ all = Longer
     \/ style = "pyformat" /\ cur = "s" /\ prev = ")" /\ all = names

\* The first of two percent signs, the second, and the s of a %s.
Doubles(next) ==
  /\ UNCHANGED <<style, names, slots>> /\ Counts(0)
  /\ style = "format" /\ ~Ahead /\ ~Ahead' /\ cur = "%" /\ state = "OUTSIDE" /\ state' = "OUTSIDE"
  /\ \/ ~escaped /\ escaped' /\ next = "%" /\ out' = out
     \/ escaped /\ ~escaped' /\ out' = Append(out, [c |-> "%%", k |-> 0])
Passes ==
  /\ UNCHANGED <<style, names, slots, escaped, out>> /\ Counts(0)
  /\ Ahead /\ ~Ahead' /\ style = "format" /\ cur = "s"

Step(next) ==
  \/ Copies \/ Takes(next) \/ Begins(next) \/ GoesOn(next)
  \/ Ends(Longer) \/ Ends(names) \/ Doubles(next) \/ Passes

LEMMA Marked ==
    ASSUME NEW next, Reading(next)
    PROVE  found' = found + (IF Open /\ state # "INSIDE_PN" /\ Means(next) THEN 1 ELSE 0)
  BY DEF Reading, Read

\* The server sees no placeholder in a string, an identifier or a comment, nor
\* in a name.
LEMMA NoneInside ==
    ASSUME NEW next, Reading(next), state # "OUTSIDE", found \in Nat
    PROVE  Counts(0)
<1>1. ~(Open /\ state # "INSIDE_PN")
  BY DEF Reading, InStep, Open, FromPlain
<1>. QED  BY <1>1, Marked DEF Counts

LEMMA SeenOutside ==
    ASSUME NEW next, Reading(next), state = "OUTSIDE", found \in Nat
    PROVE  Counts(IF FromPlain = "plain" /\ Means(next) THEN 1 ELSE 0)
<1>1. region \in {"plain", "string?", "escape?"}
  BY DEF Reading, InStep
<1>. QED  BY <1>1, Marked DEF Counts, Open

\* What each branch of the scanner does: inside quotes, in a name, outside.
LEMMA StepInside ==
    ASSUME NEW next, Reading(next), found \in Nat, Doubled,
           InString(next) \/ InIdentifier \/ InEscapeString \/ InComment
    PROVE  Copies
<1>1. state \notin {"OUTSIDE", "INSIDE_PN"}
  BY DEF InString, InIdentifier, InEscapeString, InComment, Until
<1>2. Counts(0)
  BY <1>1, NoneInside
<1>3. ~escaped
  BY <1>1 DEF Doubled
<1>4. CASE InString(next)
  BY <1>1, <1>2, <1>3, <1>4 DEF InString, Goto, Emit, Keep, Copies, Naming, Ahead
<1>5. CASE InIdentifier
  BY <1>1, <1>2, <1>3, <1>5 DEF InIdentifier, Until, Goto, Emit, Keep, Copies, Naming, Ahead
<1>6. CASE InEscapeString
  BY <1>1, <1>2, <1>3, <1>6 DEF InEscapeString, Until, Goto, Emit, Keep, Copies, Naming, Ahead
<1>7. CASE InComment
  BY <1>1, <1>2, <1>3, <1>7 DEF InComment, Until, Goto, Emit, Keep, Copies, Naming, Ahead
<1>. QED  BY <1>4, <1>5, <1>6, <1>7

LEMMA StepName ==
    ASSUME NEW next, Reading(next), found \in Nat, Doubled, Bracketed, InName(next)
    PROVE  GoesOn(next) \/ Ends(Longer) \/ Ends(names) \/ Passes
<1>1. /\ state = "INSIDE_PN"
      /\ \/ style = "named"
         \/ style = "format" /\ cur = "s"
         \/ style = "pyformat"
  BY DEF Reading, InStep, InName
<1>2. Counts(0)
  BY <1>1, NoneInside
<1>3. UNCHANGED <<style, slots, escaped>>
  BY DEF InName, Keep
<1>4. CASE style = "named"
  <2>1. CASE next \in NameChars
    BY <1>1, <1>2, <1>3, <1>4, <2>1 DEF InName, Keep, GoesOn, Naming, Ahead
  <2>2. CASE next \notin NameChars
    <3>1. EndName(Longer)
      BY <1>4, <2>2 DEF InName
    <3>2. state' = "OUTSIDE"
      BY <3>1 DEF EndName, Goto
    <3>. QED  BY <1>1, <1>2, <1>3, <1>4, <3>1, <3>2 DEF Ends, Naming, Ahead
  <2>. QED  BY <2>1, <2>2
<1>5. CASE style = "pyformat"
  <2>1. CASE prev = ")" /\ cur = "s"
    <3>1. EndName(names)
      BY <1>5, <2>1 DEF InName
    <3>2. state' = "OUTSIDE"
      BY <3>1 DEF EndName, Goto
    <3>. QED  BY <1>1, <1>2, <1>3, <1>5, <2>1, <3>1, <3>2 DEF Ends, Naming, Ahead
  <2>2. CASE ~(prev = ")" /\ cur = "s")
    <3>1. /\ state' = state /\ out' = out
          /\ names' = IF cur \in {"(", ")"} THEN names ELSE Longer
      BY <1>5, <2>2 DEF InName, Keep
    <3>2. /\ cur \in NameChars \cup {"(", ")"}
          /\ cur = "(" => prev = "%"
          /\ cur = ")" => next = "s"
      BY <1>1, <1>5 DEF Reading, Odd
    <3>3. prev # ")"
      BY <1>1, <1>5, <2>2 DEF Bracketed, Naming
    <3>4. Naming /\ Naming' /\ ~Ahead /\ ~Ahead'
      BY <1>1, <1>3, <1>5, <3>1 DEF Naming, Ahead
    <3>. QED  BY <1>2, <1>3, <1>5, <3>1, <3>2, <3>3, <3>4 DEF GoesOn
  <2>. QED  BY <2>1, <2>2
<1>6. CASE style = "format"
  BY <1>1, <1>2, <1>3, <1>6 DEF InName, Goto, Keep, Passes, Ahead
<1>. QED  BY <1>1, <1>4, <1>5, <1>6

LEMMA StepOutside ==
    ASSUME NEW next, Reading(next), found \in Nat, Doubled, Outside(next), ~error'
    PROVE  Copies \/ Takes(next) \/ Begins(next) \/ Doubles(next)
<1>. DEFINE Marks == FromPlain = "plain" /\ Means(next)
<1>1. state = "OUTSIDE" /\ Counts(IF Marks THEN 1 ELSE 0) /\ style \in Reads
  BY SeenOutside DEF Outside, Reading
<1>2. ~Naming /\ ~Ahead
  BY <1>1 DEF Naming, Ahead
<1>3. escaped => style = "format" /\ cur = "%"
  BY DEF Doubled
<1>4. CASE OpenQuote
  <2>1. ~Marks
    BY <1>4 DEF OpenQuote, FromPlain
  <2>2. state' # "INSIDE_PN" /\ ~escaped
    BY <1>3, <1>4 DEF OpenQuote, Goto
  <2>. QED  BY <1>1, <1>2, <1>4, <2>1, <2>2 DEF OpenQuote, Emit, Keep, Copies, Naming, Ahead
<1>5. CASE OpenIdentifier
  <2>1. ~Marks
    BY <1>5 DEF OpenIdentifier, FromPlain
  <2>2. state' # "INSIDE_PN" /\ ~escaped
    BY <1>3, <1>5 DEF OpenIdentifier, Goto
  <2>. QED  BY <1>1, <1>2, <1>5, <2>1, <2>2 DEF OpenIdentifier, Emit, Keep, Copies, Naming, Ahead
<1>6. CASE Dash
  <2>1. ~Marks
    BY <1>1, <1>6 DEF Dash, Means, Reads
  <2>2. state' # "INSIDE_PN" /\ ~escaped
    BY <1>3, <1>6 DEF Dash, Goto
  <2>. QED  BY <1>1, <1>2, <1>6, <2>1, <2>2 DEF Dash, Emit, Keep, Copies, Naming, Ahead
<1>7. CASE QuestionMark
  <2>1. Marks
    BY <1>7 DEF QuestionMark, Means, FromPlain
  <2>2. state' # "INSIDE_PN" /\ ~escaped /\ style = "qmark" /\ cur = "?"
    BY <1>1, <1>3, <1>7 DEF QuestionMark, Keep
  <2>. QED  BY <1>1, <1>2, <1>7, <2>1, <2>2 DEF QuestionMark, Emit, Keep, Takes, Naming, Ahead
<1>8. CASE ColonAtEnd(next)
  BY <1>8 DEF ColonAtEnd
<1>9. CASE Colon(next)
  <2>1. cur = ":" /\ prev # ":" /\ style \in {"numeric", "named"} /\ next \in NameChars
    BY <1>9 DEF Colon, ColonStyle, Names, Reading, Odd
  <2>2. Marks /\ ~escaped
    BY <1>3, <2>1 DEF Means, FromPlain
  <2>3. UNCHANGED <<style, escaped>>
    BY <1>9 DEF Colon, Keep
  <2>4. CASE style = "numeric"
    BY <1>1, <1>2, <1>9, <2>1, <2>2, <2>3, <2>4 DEF Colon, Emit, Keep, Takes, Naming, Ahead
  <2>5. CASE style = "named"
    <3>1. state' = "INSIDE_PN" /\ names' = Append(names, <<>>) /\ UNCHANGED <<out, slots>>
      BY <1>9, <2>5 DEF Colon, Goto, Keep
    <3>2. Naming' /\ ~Ahead'
      BY <2>3, <2>5, <3>1 DEF Naming, Ahead
    <3>. QED  BY <1>1, <1>2, <2>1, <2>2, <2>3, <2>5, <3>1, <3>2 DEF Begins
  <2>. QED  BY <2>1, <2>4, <2>5
<1>10. CASE PercentName(next)
  <2>1. style = "pyformat" /\ cur = "%" /\ next = "(" /\ state' = "INSIDE_PN"
    BY <1>10 DEF PercentName, Goto
  <2>2. Marks /\ ~escaped
    BY <1>3, <2>1 DEF Means, FromPlain
  <2>3. UNCHANGED <<style, escaped, slots, out>> /\ names' = Append(names, <<>>)
    BY <1>10 DEF PercentName, Keep
  <2>4. Naming' /\ ~Ahead'
    BY <2>1, <2>3 DEF Naming, Ahead
  <2>. QED  BY <1>1, <1>2, <2>1, <2>2, <2>3, <2>4 DEF Begins
<1>11. CASE Percent(next)
  <2>1. style = "format" /\ style' = "format" /\ cur = "%" /\ UNCHANGED names
    BY <1>11 DEF Percent, PercentStyle, Reading, Odd, Keep
  <2>2. FromPlain = "plain" /\ (Means(next) <=> ~escaped /\ next = "s")
    BY <2>1 DEF Means, FromPlain
  <2>3. CASE escaped
    <3>1. /\ ~escaped' /\ out' = Append(out, [c |-> "%%", k |-> 0])
          /\ state' = state /\ slots' = slots
      BY <1>11, <2>3 DEF Percent, Emit, Keep
    <3>2. ~Ahead'
      BY <1>1, <3>1 DEF Ahead
    <3>. QED  BY <1>1, <1>2, <2>1, <2>2, <2>3, <3>1, <3>2 DEF Doubles
  <2>4. CASE ~escaped /\ next = "%"
    <3>1. escaped' /\ UNCHANGED <<state, slots, out>>
      BY <1>11, <2>4 DEF Percent, Keep
    <3>2. ~Ahead'
      BY <1>1, <3>1 DEF Ahead
    <3>. QED  BY <1>1, <1>2, <2>1, <2>2, <2>4, <3>1, <3>2 DEF Doubles
  <2>5. CASE ~escaped /\ next = "s"
    <3>1. /\ state' = "INSIDE_PN" /\ slots' = slots + 1 /\ out' = Append(out, Slot(slots + 1))
          /\ escaped' = escaped
      BY <1>11, <2>5 DEF Percent, Goto, Emit, Keep
    <3>2. Ahead' /\ ~Naming'
      BY <2>1, <3>1 DEF Ahead, Naming
    <3>. QED  BY <1>1, <1>2, <2>1, <2>2, <2>5, <3>1, <3>2 DEF Takes
  <2>6. CASE ~escaped /\ next \notin {"%", "s"}
    BY <1>11, <2>6 DEF Percent
  <2>. QED  BY <2>3, <2>4, <2>5, <2>6
<1>12. CASE Plain(next)
  <2>1. ~Means(next)
    BY <1>1, <1>12, NoNameQuotes DEF Plain, Means, PercentStyle, ColonStyle, Names, Reads
  <2>2. ~escaped
    BY <1>3, <1>12 DEF Plain, PercentStyle
  <2>3. ~Naming' /\ ~Ahead'
    BY <1>1, <1>12 DEF Plain, Keep, Naming, Ahead
  <2>. QED  BY <1>1, <1>2, <1>12, <2>1, <2>2, <2>3 DEF Plain, Emit, Keep, Copies
<1>. QED  BY <1>4, <1>5, <1>6, <1>7, <1>8, <1>9, <1>10, <1>11, <1>12 DEF Outside

-----------------------------------------------------------------------------
(* The values of a text that is not odd.                                    *)

LEMMA CurType == ASSUME Types, cur # End PROVE cur \in Chars /\ cur # "%%"
  BY ParamScanAssumption DEF Types, Chars

LEMMA CharToken ==
    /\ \A c \in Chars : Char(c) \in Token
    /\ \A k \in Nat : Slot(k) \in Token
    /\ [c |-> "%%", k |-> 0] \in Token
<1>1. \A c \in Chars : Char(c) \in Token
  BY DEF Char, Token
<1>2. \A k \in Nat : Slot(k) \in Token
  <2>1. "$" \in Chars
    BY DEF Chars
  <2>2. "$" \in Chars \cup {"%%"}
    BY <2>1
  <2>. HIDE DEF Chars
  <2>. QED  BY <2>2 DEF Slot, Token
<1>3. [c |-> "%%", k |-> 0] \in Token
  BY DEF Token
<1>. QED  BY <1>1, <1>2, <1>3

LEMMA LongerFacts ==
    ASSUME Types, cur # End, names # <<>>
    PROVE  /\ Longer \in Seq(Seq(Chars)) /\ Len(Longer) = Len(names)
           /\ Front(Longer) = Front(names) /\ Last(Longer) = Append(Last(names), cur)
           /\ Last(names) \in Seq(Chars) /\ Front(names) \in Seq(Seq(Chars))
<1>1. names \in Seq(Seq(Chars)) /\ Len(names) \in Nat \ {0} /\ cur \in Chars
  BY CurType DEF Types
<1>2. names[Len(names)] \in Seq(Chars) /\ Append(names[Len(names)], cur) \in Seq(Chars)
  BY <1>1
<1>3. Longer \in Seq(Seq(Chars)) /\ Len(Longer) = Len(names)
  BY <1>1, <1>2 DEF Longer
<1>4. \A i \in 1..Len(names) :
        Longer[i] = IF i = Len(names) THEN Append(names[i], cur) ELSE names[i]
  BY <1>1 DEF Longer
<1>5. Last(Longer) = Append(Last(names), cur)
  <2>1. Len(names) \in 1..Len(names)
    BY <1>1
  <2>2. Longer[Len(names)] = Append(names[Len(names)], cur)
    BY <1>4, <2>1
  <2>. QED  BY <1>3, <2>2 DEF Last
<1>6. Front(names) \in Seq(Seq(Chars))
  BY <1>1 DEF Front
<1>7. Front(Longer) = Front(names)
  <2>1. Len(Front(Longer)) = Len(Front(names)) /\ Front(Longer) \in Seq(Seq(Chars))
    BY <1>1, <1>3 DEF Front
  <2>2. \A i \in 1..Len(Front(names)) : Front(Longer)[i] = Front(names)[i]
    BY <1>1, <1>3, <1>4 DEF Front
  <2>. QED  BY <1>6, <2>1, <2>2, SeqEqual
<1>. QED  BY <1>2, <1>3, <1>5, <1>6, <1>7 DEF Last

LEMMA FrontFacts ==
    ASSUME NEW S, NEW s \in Seq(S), s # <<>>
    PROVE  /\ Front(s) \in Seq(S) /\ Len(Front(s)) = Len(s) - 1 /\ Len(s) \in Nat \ {0}
           /\ \A i \in 1..(Len(s) - 1) : Front(s)[i] = s[i]
           /\ Last(s) = s[Len(s)] /\ Last(s) \in S
<1>1. Len(s) \in Nat \ {0}
  OBVIOUS
<1>2. Front(s) \in Seq(S)
  BY <1>1 DEF Front
<1>3. Len(Front(s)) = Len(s) - 1
  <2>1. PICK n \in Nat : n = Len(s) - 1
    BY <1>1
  <2>2. Len(SubSeq(s, 1, n)) = n
    BY <2>1
  <2>. QED  BY <2>1, <2>2 DEF Front
<1>4. \A i \in 1..(Len(s) - 1) : Front(s)[i] = s[i]
  BY <1>1 DEF Front
<1>5. Last(s) = s[Len(s)] /\ Last(s) \in S
  BY <1>1 DEF Last
<1>. QED  BY <1>1, <1>2, <1>3, <1>4, <1>5

LEMMA FrontAppend ==
    ASSUME NEW S, NEW s \in Seq(S), NEW e \in S
    PROVE  Front(Append(s, e)) = s /\ Last(Append(s, e)) = e /\ Append(s, e) # <<>>
<1>. DEFINE t == Append(s, e)
<1>1. t \in Seq(S) /\ Len(t) = Len(s) + 1 /\ t[Len(s) + 1] = e /\ \A i \in 1..Len(s) : t[i] = s[i]
  OBVIOUS
<1>. HIDE DEF t
<1>2. t # <<>>
  BY <1>1
<1>3. /\ Front(t) \in Seq(S) /\ Len(Front(t)) = Len(s) /\ Last(t) = e
      /\ \A i \in 1..Len(s) : Front(t)[i] = s[i]
  BY <1>1, <1>2, FrontFacts
<1>4. Front(t) = s
  BY <1>3, SeqEqual
<1>. QED  BY <1>2, <1>3, <1>4 DEF t

\* The slot k a name is given, of those that are complete when it ends.
Given(all, k) ==
  /\ out' = Append(out, Slot(k))
  /\ \/ k \in 1..Len(Front(all)) /\ Front(all)[k] = Last(all) /\ names' = Front(all)
     \/ /\ k = Len(all) /\ names' = all
        /\ \A i \in 1..Len(Front(all)) : Front(all)[i] # Last(all)

LEMMA EndNameFacts ==
    ASSUME NEW S, NEW all \in Seq(S), all # <<>>, EndName(all)
    PROVE  \E k \in 1..Len(all) : Given(all, k)
<1>. DEFINE before == Front(all)
            At == {i \in DOMAIN before : before[i] = Last(all)}
            First(i) == /\ before[i] = Last(all)
                        /\ \A j \in 1 .. i - 1 : before[j] # Last(all)
<1>1. before \in Seq(S) /\ DOMAIN before = 1..Len(before) /\ Len(before) = Len(all) - 1 /\ Len(all) \in Nat \ {0}
  BY FrontFacts
<1>2. CASE Last(all) \in ToSet(before)
  <2>1. At # {} /\ At \subseteq Nat
    BY <1>1, <1>2 DEF ToSet
  <2>2. PICK i \in At : \A m \in At : ~(<<m, i>> \in Less)
    <3>. HIDE DEF At
    <3>. QED  BY <2>1, LessWellFounded, WFMin
  <2>3. \A m \in At : ~(m < i)
    BY <2>1, <2>2 DEF Less
  <2>4. i \in DOMAIN before /\ First(i)
    BY <1>1, <2>2, <2>3
  <2>. DEFINE k == CHOOSE n \in DOMAIN before : First(n)
  <2>5. k \in DOMAIN before /\ First(k)
    <3>. HIDE DEF First, before
    <3>. QED  BY <2>4
  <2>6. out' = Append(out, Slot(k)) /\ names' = before
    BY <1>2 DEF EndName, Emit
  <2>. HIDE DEF k
  <2>. QED  BY <1>1, <2>5, <2>6 DEF Given
<1>3. CASE Last(all) \notin ToSet(before)
  <2>1. names' = all /\ out' = Append(out, Slot(Len(all)))
    BY <1>3 DEF EndName, Emit
  <2>2. \A i \in 1..Len(before) : before[i] # Last(all)
    BY <1>1, <1>3 DEF ToSet
  <2>. QED  BY <1>1, <2>1, <2>2 DEF Given
<1>. QED  BY <1>2, <1>3

\* The step of the scanner as an end of a name, whichever name it is.
LEMMA EndsFacts ==
    ASSUME NEW all, Types, NamesInv, cur # End, Ends(all)
    PROVE  /\ all \in Seq(Seq(Chars)) /\ all # <<>> /\ Front(all) = Complete /\ Complete' = names'
           /\ Len(Complete) = Len(all) - 1 /\ Len(all) \in Nat \ {0}
           /\ \E k \in 1..Len(all) : Given(all, k)
<1>1. names \in Seq(Seq(Chars)) /\ names # <<>> /\ Complete = Front(names)
  BY DEF Ends, NamesInv, Types, Complete
<1>2. all \in Seq(Seq(Chars)) /\ all # <<>> /\ Front(all) = Front(names)
  <2>1. Longer \in Seq(Seq(Chars)) /\ Len(Longer) = Len(names) /\ Front(Longer) = Front(names)
    BY <1>1, LongerFacts
  <2>2. Len(names) # 0
    BY <1>1
  <2>3. Longer # <<>>
    BY <2>1, <2>2
  <2>. QED  BY <1>1, <2>1, <2>3 DEF Ends
<1>3. Len(Front(all)) = Len(all) - 1 /\ Len(all) \in Nat \ {0}
  BY <1>2, FrontFacts
<1>4. \E k \in 1..Len(all) : Given(all, k)
  BY <1>2, EndNameFacts DEF Ends
<1>5. Complete' = names'
  BY DEF Ends, Complete
<1>. QED  BY <1>1, <1>2, <1>3, <1>4, <1>5

\* Every effect keeps the values of the variables, ...
LEMMA TypesKept ==
    ASSUME NEW next \in Alphabet[style] \cup {End}, Types, NamesInv, cur # End,
           Read(next), Step(next)
    PROVE  Types'
<1>1. cur \in Chars /\ cur' = next /\ text' = Append(text, cur)
  BY CurType DEF Read
<1>2. style' = style /\ text' \in Seq(Chars)
  BY <1>1 DEF Step, Copies, Takes, Begins, GoesOn, Ends, Doubles, Passes, Types
<1>3. found' \in Nat /\ slots' \in Nat
  BY DEF Step, Copies, Takes, Begins, GoesOn, Ends, Doubles, Passes, Counts, Types
<1>4. names' \in Seq(Seq(Chars)) /\ out' \in Seq(Token)
  <2>1. names \in Seq(Seq(Chars)) /\ out \in Seq(Token) /\ slots \in Nat
    BY DEF Types
  <2>2. CASE Copies
    BY <1>1, <2>1, <2>2, CharToken DEF Copies
  <2>3. CASE Takes(next)
    <3>1. PICK k \in {1, slots + 1} : out' = Append(out, Slot(k))
      BY <2>3 DEF Takes
    <3>2. Slot(k) \in Token
      BY <2>1, <3>1, CharToken
    <3>. QED  BY <2>1, <2>3, <3>1, <3>2 DEF Takes
  <2>4. CASE Begins(next)
    BY <2>1, <2>4 DEF Begins
  <2>5. CASE GoesOn(next)
    <3>1. names # <<>>
      BY <2>5 DEF GoesOn, NamesInv
    <3>2. Longer \in Seq(Seq(Chars))
      BY <3>1, LongerFacts
    <3>. QED  BY <2>1, <2>5, <3>2 DEF GoesOn
  <2>6. ASSUME NEW all, Ends(all) PROVE names' \in Seq(Seq(Chars)) /\ out' \in Seq(Token)
    <3>1. all \in Seq(Seq(Chars)) /\ all # <<>>
      BY <2>6, EndsFacts
    <3>2. PICK k \in 1..Len(all) : Given(all, k)
      BY <2>6, EndsFacts
    <3>3. Slot(k) \in Token /\ Front(all) \in Seq(Seq(Chars))
      <4>1. k \in Nat
        BY <3>1, <3>2
      <4>2. Slot(k) \in Token
        BY <4>1, CharToken
      <4>. QED  BY <3>1, <4>2, FrontFacts
    <3>4. out' = Append(out, Slot(k)) /\ names' \in {all, Front(all)}
      BY <3>2 DEF Given
    <3>. QED  BY <2>1, <3>1, <3>3, <3>4
  <2>7. CASE Doubles(next)
    BY <2>1, <2>7, CharToken DEF Doubles
  <2>8. CASE Passes
    BY <2>1, <2>8 DEF Passes
  <2>. QED  BY <2>2, <2>3, <2>4, <2>5, <2>6, <2>7, <2>8 DEF Step
<1>. QED  BY <1>1, <1>2, <1>3, <1>4 DEF Types

-----------------------------------------------------------------------------
(* The slots of the output and the names.                                   *)

\* NamesInv, of a style, the complete names, the output and the slots.
Uses(st, done, o, sl) ==
  /\ IsInjective(done)
  /\ \A i \in DOMAIN o :
       o[i].k \in 0 .. (IF st \in {"named", "pyformat"} THEN Len(done) ELSE sl)
  /\ \A k \in DOMAIN done : \E i \in DOMAIN o : o[i].k = k

LEMMA NamesInvIs ==
    NamesInv <=> /\ style \notin {"named", "pyformat"} => names = <<>>
                 /\ Naming => names # <<>>
                 /\ Uses(style, Complete, out, slots)
  BY DEF NamesInv, Uses

LEMMA AppendFacts ==
    ASSUME NEW S, NEW o \in Seq(S), NEW t
    PROVE  /\ DOMAIN Append(o, t) = 1..(Len(o) + 1) /\ DOMAIN o = 1..Len(o) /\ Len(o) \in Nat
           /\ Append(o, t)[Len(o) + 1] = t
           /\ \A i \in 1..Len(o) : Append(o, t)[i] = o[i]
  OBVIOUS

LEMMA UsesCopied ==
    ASSUME NEW st, NEW done, NEW o \in Seq(Token), NEW sl \in Nat, NEW t, t.k = 0,
           Len(done) \in Nat, Uses(st, done, o, sl)
    PROVE  Uses(st, done, Append(o, t), sl)
<1>. DEFINE u == Append(o, t)
<1>1. /\ DOMAIN u = 1..(Len(o) + 1) /\ DOMAIN o = 1..Len(o) /\ Len(o) \in Nat
      /\ u[Len(o) + 1] = t /\ \A i \in 1..Len(o) : u[i] = o[i]
  BY AppendFacts
<1>. HIDE DEF u
<1>2. ASSUME NEW i \in DOMAIN u
      PROVE  u[i].k \in 0 .. (IF st \in {"named", "pyformat"} THEN Len(done) ELSE sl)
  <2>1. CASE i \in 1..Len(o)
    BY <1>1, <2>1 DEF Uses
  <2>2. CASE i = Len(o) + 1
    BY <1>1, <2>2
  <2>. QED  BY <1>1, <2>1, <2>2
<1>3. \A k \in DOMAIN done : \E i \in DOMAIN u : u[i].k = k
  <2>1. DOMAIN o \subseteq DOMAIN u /\ \A i \in DOMAIN o : u[i] = o[i]
    BY <1>1
  <2>. QED  BY <2>1 DEF Uses
<1>. QED  BY <1>2, <1>3 DEF Uses, u

LEMMA UsesTaken ==
    ASSUME NEW st, st \notin {"named", "pyformat"}, NEW o \in Seq(Token), NEW sl \in Nat,
           NEW k \in {1, sl + 1}, Uses(st, <<>>, o, sl)
    PROVE  Uses(st, <<>>, Append(o, Slot(k)), sl + 1)
<1>. DEFINE u == Append(o, Slot(k))
<1>1. /\ DOMAIN u = 1..(Len(o) + 1) /\ DOMAIN o = 1..Len(o) /\ Len(o) \in Nat
      /\ u[Len(o) + 1] = Slot(k) /\ \A i \in 1..Len(o) : u[i] = o[i]
  BY AppendFacts
<1>2. Slot(k).k = k
  BY DEF Slot
<1>. HIDE DEF u
<1>3. ASSUME NEW i \in DOMAIN u PROVE u[i].k \in 0 .. (sl + 1)
  <2>1. CASE i \in 1..Len(o)
    <3>1. o[i].k \in 0 .. sl
      BY <1>1, <2>1 DEF Uses
    <3>. QED  BY <1>1, <2>1, <3>1
  <2>2. CASE i = Len(o) + 1
    BY <1>1, <1>2, <2>2
  <2>. QED  BY <1>1, <2>1, <2>2
<1>4. DOMAIN <<>> = {}
  OBVIOUS
<1>. QED  BY <1>3, <1>4 DEF Uses, u, IsInjective

LEMMA UsesGiven ==
    ASSUME NEW st, st \in {"named", "pyformat"}, NEW o \in Seq(Token), NEW sl \in Nat,
           NEW all \in Seq(Seq(Chars)), all # <<>>, Uses(st, Front(all), o, sl),
           NEW k \in 1..Len(all), Given(all, k), out = o
    PROVE  Uses(st, names', out', sl)
<1>. DEFINE u == Append(o, Slot(k))
            done == Front(all)
<1>1. /\ DOMAIN u = 1..(Len(o) + 1) /\ DOMAIN o = 1..Len(o) /\ Len(o) \in Nat
      /\ u[Len(o) + 1] = Slot(k) /\ \A i \in 1..Len(o) : u[i] = o[i]
  BY AppendFacts
<1>2. Slot(k).k = k
  BY DEF Slot
<1>3. /\ done \in Seq(Seq(Chars)) /\ Len(done) = Len(all) - 1 /\ Len(all) \in Nat \ {0}
      /\ \A i \in 1..(Len(all) - 1) : done[i] = all[i]
      /\ Last(all) = all[Len(all)]
  BY FrontFacts
<1>4. DOMAIN all = 1..Len(all) /\ DOMAIN done = 1..Len(done)
  BY <1>3
<1>5. out' = u
  BY DEF Given
<1>. HIDE DEF u, done
<1>9. \A i \in 1..Len(all) : i # Len(all) => i \in 1..Len(done) /\ done[i] = all[i]
  <2>. TAKE i \in 1..Len(all)
  <2>. HAVE i # Len(all)
  <2>1. PICK n \in Nat : n = Len(all)
    BY <1>3
  <2>2. i \in 1..(n - 1)
    BY <2>1
  <2>. QED  BY <1>3, <2>1, <2>2
<1>6. /\ \A i \in DOMAIN o : o[i].k \in 0..Len(done)
      /\ \A n \in DOMAIN done : \E i \in DOMAIN o : o[i].k = n
      /\ IsInjective(done)
  BY DEF Uses, done
<1>7. CASE k \in 1..Len(done) /\ names' = done
  <2>1. ASSUME NEW i \in DOMAIN u PROVE u[i].k \in 0..Len(done)
    <3>1. CASE i \in 1..Len(o)
      BY <1>1, <1>6, <3>1
    <3>2. CASE i = Len(o) + 1
      BY <1>1, <1>2, <1>7, <3>2
    <3>. QED  BY <1>1, <3>1, <3>2
  <2>2. \A n \in DOMAIN done : \E i \in DOMAIN u : u[i].k = n
    BY <1>1, <1>6
  <2>. QED  BY <1>5, <1>6, <1>7, <2>1, <2>2 DEF Uses
<1>8. CASE k = Len(all) /\ names' = all /\ \A i \in 1..Len(done) : done[i] # Last(all)
  <2>1. ASSUME NEW i \in DOMAIN u PROVE u[i].k \in 0..Len(all)
    <3>1. CASE i \in 1..Len(o)
      <4>1. o[i].k \in 0..Len(done)
        BY <1>1, <1>6, <3>1
      <4>. QED  BY <1>1, <1>3, <3>1, <4>1
    <3>2. CASE i = Len(o) + 1
      BY <1>1, <1>2, <1>8, <3>2
    <3>. QED  BY <1>1, <3>1, <3>2
  <2>2. ASSUME NEW n \in DOMAIN all PROVE \E i \in DOMAIN u : u[i].k = n
    <3>1. CASE n = Len(all)
      <4>1. Len(o) + 1 \in DOMAIN u /\ u[Len(o) + 1].k = n
        BY <1>1, <1>2, <1>8, <3>1
      <4>. QED  BY <4>1
    <3>2. CASE n # Len(all)
      <4>1. n \in DOMAIN done
        BY <1>3, <1>4, <3>2
      <4>2. PICK i \in DOMAIN o : o[i].k = n
        BY <1>6, <4>1
      <4>. QED  BY <1>1, <4>2
    <3>. QED  BY <3>1, <3>2
  <2>3. IsInjective(all)
    <3>. SUFFICES ASSUME NEW a \in DOMAIN all, NEW b \in DOMAIN all, all[a] = all[b], a # b
                  PROVE  FALSE
      BY DEF IsInjective
    <3>1. CASE a = Len(all)
      <4>0. b \in 1..Len(all) /\ b # Len(all)
        BY <1>4, <3>1
      <4>1. b \in 1..Len(done) /\ done[b] = all[b]
        BY <1>9, <4>0
      <4>. QED  BY <1>3, <1>8, <3>1, <4>1
    <3>2. CASE b = Len(all)
      <4>0. a \in 1..Len(all) /\ a # Len(all)
        BY <1>4, <3>2
      <4>1. a \in 1..Len(done) /\ done[a] = all[a]
        BY <1>9, <4>0
      <4>. QED  BY <1>3, <1>8, <3>2, <4>1
    <3>3. CASE a # Len(all) /\ b # Len(all)
      <4>0. a \in 1..Len(all) /\ b \in 1..Len(all)
        BY <1>4
      <4>1. a \in 1..Len(done) /\ b \in 1..Len(done) /\ done[a] = all[a] /\ done[b] = all[b]
        BY <1>9, <3>3, <4>0
      <4>. QED  BY <1>4, <1>6, <4>1 DEF IsInjective
    <3>. QED  BY <3>1, <3>2, <3>3
  <2>. QED  BY <1>5, <1>8, <2>1, <2>2, <2>3 DEF Uses
<1>. QED  BY <1>7, <1>8 DEF Given, done

\* ... the names and their slots, ...
LEMMA NamesKept ==
    ASSUME NEW next, Types, NamesInv, cur # End, Step(next)
    PROVE  NamesInv'
<1>1. names \in Seq(Seq(Chars)) /\ out \in Seq(Token) /\ slots \in Nat /\ style' = style
  BY DEF Types, Step, Copies, Takes, Begins, GoesOn, Ends, Doubles, Passes
<1>2. /\ style \notin {"named", "pyformat"} => names = <<>>
      /\ Naming => names # <<>>
      /\ Uses(style, Complete, out, slots)
  BY NamesInvIs
<1>3. Complete \in Seq(Seq(Chars)) /\ Len(Complete) \in Nat
  <2>1. CASE Naming
    <3>1. names # <<>> /\ Complete = Front(names)
      BY <1>2, <2>1 DEF Complete
    <3>2. Front(names) \in Seq(Seq(Chars))
      BY <1>1, <3>1, FrontFacts
    <3>. QED  BY <3>1, <3>2
  <2>2. CASE ~Naming
    BY <1>1, <2>2 DEF Complete
  <2>. QED  BY <2>1, <2>2
<1>. DEFINE Goal == /\ style \notin {"named", "pyformat"} => names' = <<>>
                    /\ Naming' => names' # <<>>
                    /\ Uses(style, Complete', out', slots')
<1>4. ASSUME Copies PROVE Goal
  <2>1. Complete' = names /\ Complete = names /\ names' = names /\ slots' = slots /\ ~Naming'
    BY <1>4 DEF Copies, Complete
  <2>2. Char(cur).k = 0 /\ out' = Append(out, Char(cur))
    BY <1>4 DEF Copies, Char
  <2>3. Uses(style, Complete, out', slots)
    BY <1>1, <1>2, <1>3, <2>2, UsesCopied
  <2>. QED  BY <1>2, <2>1, <2>3
<1>5. ASSUME Takes(next) PROVE Goal
  <2>1. /\ style \notin {"named", "pyformat"} /\ ~Naming /\ ~Naming' /\ names' = names
        /\ slots' = slots + 1
    BY <1>5 DEF Takes
  <2>2. Complete' = <<>> /\ Complete = <<>> /\ names' = <<>>
    BY <1>2, <2>1 DEF Complete
  <2>3. PICK k \in {1, slots + 1} : out' = Append(out, Slot(k))
    BY <1>5 DEF Takes
  <2>4. Uses(style, <<>>, out', slots + 1)
    BY <1>1, <1>2, <2>1, <2>2, <2>3, UsesTaken
  <2>. QED  BY <2>1, <2>2, <2>4
<1>6. ASSUME Begins(next) PROVE Goal
  <2>1. names' = Append(names, <<>>) /\ out' = out /\ slots' = slots /\ ~Naming /\ Naming'
        /\ style \in {"named", "pyformat"}
    BY <1>6 DEF Begins
  <2>2. Front(names') = names /\ names' # <<>>
    <3>1. <<>> \in Seq(Chars)
      OBVIOUS
    <3>. QED  BY <1>1, <2>1, <3>1, FrontAppend
  <2>3. Complete' = Complete
    BY <2>1, <2>2 DEF Complete
  <2>. QED  BY <1>2, <2>1, <2>2, <2>3
<1>7. ASSUME GoesOn(next) PROVE Goal
  <2>1. names' \in {names, Longer} /\ out' = out /\ slots' = slots /\ Naming /\ Naming'
        /\ style \in {"named", "pyformat"}
    BY <1>7 DEF GoesOn
  <2>2. Front(Longer) = Front(names) /\ Len(Longer) = Len(names) /\ Len(names) # 0
    BY <1>1, <1>2, <2>1, LongerFacts
  <2>3. Complete' = Complete /\ names' # <<>>
    BY <1>2, <2>1, <2>2 DEF Complete
  <2>. QED  BY <1>2, <2>1, <2>3
<1>8. ASSUME NEW all, Ends(all) PROVE Goal
  <2>1. /\ all \in Seq(Seq(Chars)) /\ all # <<>> /\ Front(all) = Complete /\ Complete' = names'
        /\ \E k \in 1..Len(all) : Given(all, k)
    BY <1>8, EndsFacts
  <2>2. slots' = slots /\ ~Naming' /\ style \in {"named", "pyformat"}
    BY <1>8 DEF Ends
  <2>3. Uses(style, names', out', slots)
    BY <1>1, <1>2, <2>1, <2>2, UsesGiven
  <2>. QED  BY <2>1, <2>2, <2>3
<1>9. ASSUME Doubles(next) PROVE Goal
  <2>1. names' = names /\ slots' = slots /\ ~Naming /\ ~Naming'
        /\ out' \in {out, Append(out, [c |-> "%%", k |-> 0])}
    BY <1>9 DEF Doubles, Naming
  <2>2. Complete' = Complete
    BY <2>1 DEF Complete
  <2>3. Uses(style, Complete, Append(out, [c |-> "%%", k |-> 0]), slots)
    BY <1>1, <1>2, <1>3, UsesCopied
  <2>. QED  BY <1>2, <2>1, <2>2, <2>3
<1>10. ASSUME Passes PROVE Goal
  <2>1. names' = names /\ slots' = slots /\ out' = out /\ ~Naming /\ ~Naming'
    BY <1>1, <1>10 DEF Passes, Naming
  <2>2. Complete' = Complete
    BY <2>1 DEF Complete
  <2>. QED  BY <1>2, <2>1, <2>2
<1>11. Goal
  <2>. HIDE DEF Goal
  <2>. QED  BY <1>4, <1>5, <1>6, <1>7, <1>8, <1>9, <1>10 DEF Step
<1>12. NamesInv' <=> /\ style' \notin {"named", "pyformat"} => names' = <<>>
                     /\ Naming' => names' # <<>>
                     /\ Uses(style', Complete', out', slots')
  BY DEF NamesInv, Uses
<1>. QED  BY <1>1, <1>11, <1>12

-----------------------------------------------------------------------------
(* The slots are as many as the placeholders the server sees.               *)

Filled(o) == {i \in DOMAIN o : o[i].k > 0}

LEMMA FilledAppend ==
    ASSUME NEW o \in Seq(Token), NEW t \in Token
    PROVE  /\ Cardinality(Filled(o)) \in Nat
           /\ Cardinality(Filled(Append(o, t))) = Cardinality(Filled(o)) + (IF t.k > 0 THEN 1 ELSE 0)
<1>. DEFINE u == Append(o, t)
            n == Len(o) + 1
<1>1. /\ DOMAIN u = 1..n /\ DOMAIN o = 1..Len(o) /\ Len(o) \in Nat
      /\ u[n] = t /\ \A i \in 1..Len(o) : u[i] = o[i]
  BY AppendFacts
<1>2. IsFiniteSet(Filled(o))
  <2>1. IsFiniteSet(1..Len(o))
    BY <1>1, FS_Interval
  <2>2. Filled(o) \in SUBSET (1..Len(o))
    BY <1>1 DEF Filled
  <2>. QED  BY <2>1, <2>2, FS_Subset
<1>3. Cardinality(Filled(o)) \in Nat /\ n \notin Filled(o)
  BY <1>1, <1>2, FS_CardinalityType DEF Filled
<1>. HIDE DEF u
<1>4. Filled(u) = IF t.k > 0 THEN Filled(o) \cup {n} ELSE Filled(o)
  BY <1>1 DEF Filled
<1>5. Cardinality(Filled(o) \cup {n}) = Cardinality(Filled(o)) + 1
  BY <1>2, <1>3, FS_AddElement
<1>. HIDE DEF n
<1>. QED  BY <1>3, <1>4, <1>5 DEF u

LEMMA FoundInvIs == FoundInv <=> found = Cardinality(Filled(out)) + (IF Naming THEN 1 ELSE 0)
  BY DEF FoundInv, Filled

\* ... the count of placeholders, ...
LEMMA FoundKept ==
    ASSUME NEW next, Types, NamesInv, FoundInv, cur # End, Step(next)
    PROVE  FoundInv'
<1>1. out \in Seq(Token) /\ slots \in Nat /\ Cardinality(Filled(out)) \in Nat
  <2>1. out \in Seq(Token) /\ slots \in Nat
    BY DEF Types
  <2>2. [c |-> "%%", k |-> 0] \in Token
    BY CharToken
  <2>. QED  BY <2>1, <2>2, FilledAppend
<1>2. found = Cardinality(Filled(out)) + (IF Naming THEN 1 ELSE 0)
  BY FoundInvIs
<1>. DEFINE Goal == found' = Cardinality(Filled(out')) + (IF Naming' THEN 1 ELSE 0)
<1>3. ASSUME Copies PROVE Goal
  <2>1. Char(cur) \in Token /\ Char(cur).k = 0
    BY CurType, CharToken DEF Char
  <2>2. Cardinality(Filled(out')) = Cardinality(Filled(out)) + 0
    BY <1>1, <1>3, <2>1, FilledAppend DEF Copies
  <2>. QED  BY <1>1, <1>2, <1>3, <2>2 DEF Copies, Counts
<1>4. ASSUME Takes(next) PROVE Goal
  <2>1. PICK k \in {1, slots + 1} : out' = Append(out, Slot(k))
    BY <1>4 DEF Takes
  <2>2. Slot(k) \in Token /\ Slot(k).k > 0
    BY <1>1, <2>1, CharToken DEF Slot
  <2>3. Cardinality(Filled(out')) = Cardinality(Filled(out)) + 1
    BY <1>1, <2>1, <2>2, FilledAppend
  <2>. QED  BY <1>1, <1>2, <1>4, <2>3 DEF Takes, Counts
<1>5. ASSUME Begins(next) PROVE Goal
  BY <1>1, <1>2, <1>5 DEF Begins, Counts
<1>6. ASSUME GoesOn(next) PROVE Goal
  BY <1>1, <1>2, <1>6 DEF GoesOn, Counts
<1>7. ASSUME NEW all, Ends(all) PROVE Goal
  <2>1. PICK k \in 1..Len(all) : Given(all, k)
    BY <1>7, EndsFacts
  <2>2. Len(all) \in Nat
    BY <1>7, EndsFacts
  <2>3. Slot(k) \in Token /\ Slot(k).k > 0 /\ out' = Append(out, Slot(k))
    <3>1. k \in Nat /\ k > 0
      BY <2>1, <2>2
    <3>. QED  BY <2>1, <3>1, CharToken DEF Given, Slot
  <2>4. Cardinality(Filled(out')) = Cardinality(Filled(out)) + 1
    BY <1>1, <2>3, FilledAppend
  <2>. QED  BY <1>1, <1>2, <1>7, <2>4 DEF Ends, Counts
<1>8. ASSUME Doubles(next) PROVE Goal
  <2>1. [c |-> "%%", k |-> 0] \in Token
    BY CharToken
  <2>2. Cardinality(Filled(Append(out, [c |-> "%%", k |-> 0]))) = Cardinality(Filled(out)) + 0
    BY <1>1, <2>1, FilledAppend
  <2>3. found' = found + 0 /\ ~Naming /\ ~Naming'
        /\ out' \in {out, Append(out, [c |-> "%%", k |-> 0])}
    BY <1>8 DEF Doubles, Counts, Naming
  <2>4. Cardinality(Filled(out')) = Cardinality(Filled(out))
    <3>1. CASE out' = out
      BY <3>1
    <3>2. CASE out' = Append(out, [c |-> "%%", k |-> 0])
      BY <1>1, <2>2, <3>2
    <3>. QED  BY <2>3, <3>1, <3>2
  <2>. QED  BY <1>1, <1>2, <2>3, <2>4
<1>9. ASSUME Passes PROVE Goal
  <2>1. out' = out /\ found' = found + 0 /\ ~Naming /\ ~Naming'
    BY <1>9 DEF Passes, Counts, Naming
  <2>. QED  BY <1>1, <1>2, <2>1
<1>10. Goal
  <2>. HIDE DEF Goal
  <2>. QED  BY <1>3, <1>4, <1>5, <1>6, <1>7, <1>8, <1>9 DEF Step
<1>11. FoundInv' <=> found' = Cardinality(Filled(out')) + (IF Naming' THEN 1 ELSE 0)
  BY DEF FoundInv, Filled
<1>. QED  BY <1>10, <1>11

-----------------------------------------------------------------------------
(* What the output is written back to.                                      *)

\* Source and Written, of a style, the names and the output.
SourceIn(t, st, ns) ==
  IF t.k = 0 THEN IF t.c = "%%" THEN <<"%", "%">> ELSE <<t.c>>
  ELSE CASE st = "named" -> <<":">> \o ns[t.k]
         [] st = "pyformat" -> <<"%", "(">> \o ns[t.k] \o <<")", "s">>
         [] st = "numeric" -> <<":">>
         [] st = "qmark" -> <<"?">>
         [] st = "format" -> <<"%", "s">>
WrittenIn(st, ns, o) == FlattenSeq([i \in DOMAIN o |-> SourceIn(o[i], st, ns)])

LEMMA WrittenIs == Written = WrittenIn(style, names, out)
  BY DEF Written, WrittenIn, Source, SourceIn

\* The slots of the output have their names.
Covered(st, ns, o) ==
  \A i \in DOMAIN o : st \in {"named", "pyformat"} => o[i].k \in 0..Len(ns)

LEMMA Literals ==
    /\ <<":">> \in Seq(Chars) /\ <<"?">> \in Seq(Chars) /\ <<"%">> \in Seq(Chars)
    /\ <<"s">> \in Seq(Chars) /\ <<")">> \in Seq(Chars)
    /\ <<"%", "%">> \in Seq(Chars) /\ <<"%", "s">> \in Seq(Chars)
    /\ <<"%", "(">> \in Seq(Chars) /\ <<")", "s">> \in Seq(Chars)
<1>1. {"$", ":", "%", "(", ")", "s", "?"} \subseteq Chars
  BY DEF Chars
<1>. HIDE DEF Chars
<1>. QED  BY <1>1

LEMMA PairConcat == ASSUME NEW a, NEW b PROVE <<a>> \o <<b>> = <<a, b>>
<1>1. /\ <<a>> \in Seq({a, b}) /\ <<b>> \in Seq({a, b}) /\ <<a, b>> \in Seq({a, b})
  OBVIOUS
<1>2. Len(<<a>>) = 1 /\ Len(<<b>>) = 1 /\ Len(<<a, b>>) = 2
  OBVIOUS
<1>3. (<<a>> \o <<b>>) \in Seq({a, b}) /\ Len(<<a>> \o <<b>>) = 2
  BY <1>1, <1>2, ConcatProperties
<1>4. (<<a>> \o <<b>>)[1] = a /\ (<<a>> \o <<b>>)[2] = b
  OBVIOUS
<1>5. <<a, b>>[1] = a /\ <<a, b>>[2] = b
  OBVIOUS
<1>6. \A i \in 1..2 : (<<a>> \o <<b>>)[i] = <<a, b>>[i]
  <2>. TAKE i \in 1..2
  <2>1. i = 1 \/ i = 2
    OBVIOUS
  <2>. QED  BY <2>1, <1>4, <1>5
<1>. QED  BY <1>1, <1>2, <1>3, <1>6, SeqEqual

LEMMA Concat ==
    ASSUME NEW s \in Seq(Chars), NEW t \in Seq(Chars), NEW u \in Seq(Chars)
    PROVE  /\ s \o t \in Seq(Chars)
           /\ (s \o t) \o u = s \o (t \o u)
           /\ s \o <<>> = s /\ <<>> \o s = s
           /\ \A c \in Chars : Append(s, c) = s \o <<c>>
<1>1. s \o t \in Seq(Chars)
  BY ConcatProperties
<1>2. (s \o t) \o u = s \o (t \o u)
  BY ConcatAssociative
<1>3. s \o <<>> = s /\ <<>> \o s = s
  BY ConcatEmptySeq
<1>4. \A c \in Chars : Append(s, c) = s \o <<c>>
  BY AppendIsConcat
<1>. QED  BY <1>1, <1>2, <1>3, <1>4

LEMMA SourceType ==
    ASSUME NEW t \in Token, NEW st \in Reads, NEW ns \in Seq(Seq(Chars)),
           st \in {"named", "pyformat"} => t.k \in 0..Len(ns)
    PROVE  SourceIn(t, st, ns) \in Seq(Chars)
<1>1. t.k \in Nat /\ t.c \in Chars \cup {"%%"}
  BY DEF Token
<1>2. CASE t.k = 0
  <2>1. CASE t.c = "%%"
    BY <1>2, <2>1, Literals DEF SourceIn
  <2>2. CASE t.c # "%%"
    <3>1. <<t.c>> \in Seq(Chars)
      BY <1>1, <2>2
    <3>. QED  BY <1>2, <2>2, <3>1 DEF SourceIn
  <2>. QED  BY <2>1, <2>2
<1>3. CASE t.k # 0 /\ st \in {"named", "pyformat"}
  <2>1. ns[t.k] \in Seq(Chars)
    BY <1>1, <1>3
  <2>2. CASE st = "named"
    <3>1. SourceIn(t, st, ns) = <<":">> \o ns[t.k]
      BY <1>3, <2>2 DEF SourceIn
    <3>. QED  BY <2>1, <3>1, Literals, Concat
  <2>3. CASE st = "pyformat"
    <3>1. SourceIn(t, st, ns) = <<"%", "(">> \o ns[t.k] \o <<")", "s">>
      BY <1>3, <2>3 DEF SourceIn
    <3>2. <<"%", "(">> \o ns[t.k] \in Seq(Chars)
      BY <2>1, Literals, Concat
    <3>. QED  BY <3>1, <3>2, Literals, Concat
  <2>. QED  BY <1>3, <2>2, <2>3
<1>4. CASE t.k # 0 /\ st \notin {"named", "pyformat"}
  BY <1>4, Literals DEF SourceIn, Reads
<1>. QED  BY <1>2, <1>3, <1>4

\* Names that are added do not change what is written.
LEMMA WrittenSame ==
    ASSUME NEW st \in Reads, NEW o \in Seq(Token), NEW ns, NEW ms, Len(ns) \in Nat,
           Covered(st, ns, o), \A k \in 1..Len(ns) : ms[k] = ns[k]
    PROVE  WrittenIn(st, ms, o) = WrittenIn(st, ns, o)
<1>1. ASSUME NEW i \in DOMAIN o PROVE SourceIn(o[i], st, ms) = SourceIn(o[i], st, ns)
  <2>1. o[i] \in Token
    OBVIOUS
  <2>2. o[i].k \in Nat
    BY <2>1 DEF Token
  <2>3. CASE st \in {"named", "pyformat"} /\ o[i].k # 0
    <3>1. o[i].k \in 1..Len(ns)
      BY <2>2, <2>3 DEF Covered
    <3>2. ms[o[i].k] = ns[o[i].k]
      BY <3>1
    <3>. QED  BY <2>3, <3>2 DEF SourceIn
  <2>4. CASE o[i].k = 0
    BY <2>4 DEF SourceIn
  <2>5. CASE st \notin {"named", "pyformat"}
    BY <2>5 DEF SourceIn, Reads
  <2>. QED  BY <2>3, <2>4, <2>5
<1>. QED  BY <1>1 DEF WrittenIn

\* A token more is its source more.
LEMMA WrittenAppend ==
    ASSUME NEW st \in Reads, NEW ns \in Seq(Seq(Chars)), NEW o \in Seq(Token), Covered(st, ns, o),
           NEW t \in Token, st \in {"named", "pyformat"} => t.k \in 0..Len(ns)
    PROVE  /\ WrittenIn(st, ns, o) \in Seq(Chars)
           /\ WrittenIn(st, ns, Append(o, t)) = WrittenIn(st, ns, o) \o SourceIn(t, st, ns)
<1>. DEFINE s == [i \in DOMAIN o |-> SourceIn(o[i], st, ns)]
            e == SourceIn(t, st, ns)
            u == Append(o, t)
            v == [i \in DOMAIN u |-> SourceIn(u[i], st, ns)]
<1>1. e \in Seq(Chars)
  BY SourceType
<1>2. \A i \in DOMAIN o : SourceIn(o[i], st, ns) \in Seq(Chars)
  <2>. TAKE i \in DOMAIN o
  <2>1. o[i] \in Token
    OBVIOUS
  <2>. QED  BY <2>1, SourceType DEF Covered
<1>3. /\ DOMAIN u = 1..(Len(o) + 1) /\ DOMAIN o = 1..Len(o) /\ Len(o) \in Nat
      /\ u[Len(o) + 1] = t /\ \A i \in 1..Len(o) : u[i] = o[i]
  BY AppendFacts
<1>. HIDE DEF e, u
<1>4. s \in Seq(Seq(Chars)) /\ Len(s) = Len(o)
  <2>1. s \in [1..Len(o) -> Seq(Chars)]
    BY <1>2, <1>3
  <2>. HIDE DEF s
  <2>2. s \in Seq(Seq(Chars))
    BY <1>3, <2>1
  <2>. QED  BY <1>3, <2>1, <2>2
<1>5. v = Append(s, e)
  <2>1. v \in [1..(Len(o) + 1) -> Seq(Chars)]
    <3>1. \A i \in 1..(Len(o) + 1) : SourceIn(u[i], st, ns) \in Seq(Chars)
      <4>. TAKE i \in 1..(Len(o) + 1)
      <4>1. CASE i = Len(o) + 1
        BY <1>1, <1>3, <4>1 DEF e
      <4>2. CASE i \in 1..Len(o)
        BY <1>2, <1>3, <4>2
      <4>. QED  BY <1>3, <4>1, <4>2
    <3>. QED  BY <1>3, <3>1
  <2>2. \A i \in 1..(Len(o) + 1) : v[i] = IF i = Len(o) + 1 THEN e ELSE s[i]
    <3>. TAKE i \in 1..(Len(o) + 1)
    <3>1. CASE i = Len(o) + 1
      BY <1>3, <3>1 DEF e
    <3>2. CASE i \in 1..Len(o) /\ i # Len(o) + 1
      BY <1>3, <3>2
    <3>. QED  BY <1>3, <3>1, <3>2
  <2>. HIDE DEF v, s
  <2>3. v \in Seq(Seq(Chars)) /\ Len(v) = Len(o) + 1
    <3>1. Len(o) + 1 \in Nat
      BY <1>3
    <3>2. v \in Seq(Seq(Chars))
      BY <2>1, <3>1
    <3>. QED  BY <2>1, <3>1, <3>2
  <2>4. /\ Append(s, e) \in Seq(Seq(Chars)) /\ Len(Append(s, e)) = Len(s) + 1
        /\ \A i \in 1..Len(s) : Append(s, e)[i] = s[i]
        /\ Append(s, e)[Len(s) + 1] = e
    BY <1>1, <1>4, AppendProperties
  <2>5. \A i \in 1..Len(v) : v[i] = Append(s, e)[i]
    BY <1>3, <1>4, <2>2, <2>3, <2>4
  <2>. QED  BY <1>4, <2>3, <2>4, <2>5, SeqEqual
<1>6. WrittenIn(st, ns, o) = FlattenSeq(s) /\ WrittenIn(st, ns, u) = FlattenSeq(v)
  BY DEF WrittenIn
<1>. HIDE DEF s, v
<1>. QED  BY <1>1, <1>4, <1>5, <1>6, FlattenAppend DEF e, u

-----------------------------------------------------------------------------
(* Each step writes what it reads.                                          *)

\* The output does not yet refer to the name that is being read.
SoFar == WrittenIn(style, Complete, out)

WritesSoFar == Written = SoFar /\ SoFar \in Seq(Chars)

\* What Written is, while a name is being read too.
LEMMA SoFarFacts ==
    ASSUME Types, NamesInv
    PROVE  /\ WritesSoFar
           /\ style \in Reads /\ out \in Seq(Token)
           /\ Complete \in Seq(Seq(Chars)) /\ Covered(style, Complete, out)
<1>1. style \in Reads /\ out \in Seq(Token) /\ names \in Seq(Seq(Chars))
  BY ParamScanAssumption DEF Types, Reads
<1>2. /\ Complete \in Seq(Seq(Chars)) /\ Len(Complete) \in Nat
      /\ \A k \in 1..Len(Complete) : names[k] = Complete[k]
  <2>1. CASE Naming
    <3>1. names # <<>> /\ Complete = Front(names)
      BY <2>1 DEF NamesInv, Complete
    <3>2. /\ Front(names) \in Seq(Seq(Chars)) /\ Len(Front(names)) = Len(names) - 1
          /\ \A i \in 1..(Len(names) - 1) : Front(names)[i] = names[i]
      BY <1>1, <3>1, FrontFacts
    <3>. QED  BY <3>1, <3>2
  <2>2. CASE ~Naming
    BY <1>1, <2>2 DEF Complete
  <2>. QED  BY <2>1, <2>2
<1>3. Covered(style, Complete, out)
  BY DEF Covered, NamesInv
<1>4. Written = SoFar
  BY <1>1, <1>2, <1>3, WrittenIs, WrittenSame DEF SoFar
<1>5. SoFar \in Seq(Chars)
  <2>1. [c |-> "%%", k |-> 0] \in Token /\ [c |-> "%%", k |-> 0].k \in 0..Len(Complete)
    BY <1>2, CharToken
  <2>. QED  BY <1>1, <1>2, <1>3, <2>1, WrittenAppend DEF SoFar
<1>. QED  BY <1>1, <1>2, <1>3, <1>4, <1>5 DEF WritesSoFar

LEMMA SoFarIs == Types /\ NamesInv => WritesSoFar
  BY SoFarFacts

LEMMA SoFarNext ==
    ASSUME Types, NamesInv, Types', NamesInv'
    PROVE  /\ Written = SoFar /\ SoFar \in Seq(Chars)
           /\ Written' = SoFar' /\ SoFar' \in Seq(Chars)
<1>1. (Types /\ NamesInv => WritesSoFar)'
  BY SoFarIs, PTL
<1>2. WritesSoFar /\ WritesSoFar'
  BY <1>1, SoFarIs
<1>. QED  BY <1>2 DEF WritesSoFar

LEMMA TextRead ==
    ASSUME NEW next, Types, cur # End, Read(next)
    PROVE  /\ text \in Seq(Chars) /\ <<cur>> \in Seq(Chars) /\ text' = text \o <<cur>>
           /\ prev' = cur /\ cur' = next
<1>1. text \in Seq(Chars) /\ cur \in Chars
  BY CurType DEF Types
<1>2. text' = Append(text, cur) /\ prev' = cur /\ cur' = next
  BY DEF Read
<1>. QED  BY <1>1, <1>2, Concat

LEMMA TextCopied ==
    ASSUME NEW next, Types, NamesInv, NamesInv', Types', Balance, cur # End, Read(next), Copies
    PROVE  Balance'
<1>1. SoFar' = SoFar \o <<cur>>
  <2>1. style' = style /\ Complete' = Complete /\ out' = Append(out, Char(cur))
    BY DEF Copies, Complete
  <2>2. Char(cur) \in Token /\ Char(cur).k = 0 /\ Char(cur).c = cur /\ cur # "%%"
    BY CurType, CharToken DEF Char
  <2>3. SourceIn(Char(cur), style, Complete) = <<cur>>
    BY <2>2 DEF SourceIn
  <2>4. Char(cur).k \in 0..Len(Complete)
    <3>1. Len(Complete) \in Nat
      BY SoFarFacts
    <3>. QED  BY <2>2, <3>1
  <2>5. WrittenIn(style, Complete, Append(out, Char(cur))) = SoFar \o <<cur>>
    BY <2>2, <2>3, <2>4, SoFarFacts, WrittenAppend DEF SoFar
  <2>. QED  BY <2>1, <2>5 DEF SoFar
<1>2. Written = SoFar /\ SoFar \in Seq(Chars)
  BY SoFarNext
<1>3. Written' = SoFar' /\ SoFar' \in Seq(Chars)
  BY SoFarNext
<1>4. Owed = <<>> /\ Owed' = <<>> /\ ~Ahead /\ ~Ahead'
  BY DEF Copies, Owed
<1>5. text = SoFar \o <<>>
  BY <1>2, <1>4 DEF Balance
<1>6. text' = SoFar' \o <<>>
  BY <1>1, <1>2, <1>3, <1>5, TextRead, Concat
<1>. QED  BY <1>3, <1>4, <1>6 DEF Balance

LEMMA TextTaken ==
    ASSUME NEW next, Types, NamesInv, NamesInv', Types', Balance, cur # End, Read(next), Takes(next)
    PROVE  Balance'
<1>1. PICK k \in {1, slots + 1} : out' = Append(out, Slot(k))
  BY DEF Takes
<1>. DEFINE src == IF style = "format" THEN <<"%", "s">> ELSE <<cur>>
<1>2. SoFar' = SoFar \o src
  <2>1. style' = style /\ Complete' = Complete /\ style \in {"qmark", "numeric", "format"}
    BY DEF Takes, Complete
  <2>2. Slot(k) \in Token /\ Slot(k).k = k /\ k # 0
    <3>1. k \in Nat \ {0}
      BY <1>1 DEF Types
    <3>. QED  BY <3>1, CharToken DEF Slot
  <2>3. SourceIn(Slot(k), style, Complete) = src
    BY <2>1, <2>2 DEF SourceIn, Takes
  <2>4. WrittenIn(style, Complete, Append(out, Slot(k))) = SoFar \o src
    BY <2>1, <2>2, <2>3, SoFarFacts, WrittenAppend DEF SoFar
  <2>. QED  BY <1>1, <2>1, <2>4 DEF SoFar
<1>3. Written = SoFar /\ SoFar \in Seq(Chars) /\ Written' = SoFar' /\ SoFar' \in Seq(Chars)
  BY SoFarNext
<1>4. Owed = <<>> /\ Owed' = <<>> /\ ~Ahead
  BY DEF Takes, Owed
<1>5. text = SoFar \o <<>>
  BY <1>3, <1>4 DEF Balance
<1>6. text' = SoFar \o <<cur>>
  BY <1>3, <1>5, TextRead, Concat
<1>7. CASE style = "format"
  <2>1. Ahead' /\ cur = "%"
    BY <1>7 DEF Takes
  <2>2. text' \o <<"s">> = SoFar \o (<<"%">> \o <<"s">>)
    BY <1>3, <1>6, <2>1, Literals, Concat
  <2>3. <<"%">> \o <<"s">> = src
    BY <1>7, PairConcat
  <2>. HIDE DEF src
  <2>. QED  BY <1>2, <1>3, <2>1, <2>2, <2>3 DEF Balance
<1>8. CASE style # "format"
  <2>1. ~Ahead'
    BY <1>8 DEF Takes
  <2>2. text' = SoFar' \o <<>>
    BY <1>2, <1>3, <1>6, <1>8, Concat
  <2>. QED  BY <1>3, <1>4, <2>1, <2>2 DEF Balance
<1>. QED  BY <1>7, <1>8

LEMMA TextBegun ==
    ASSUME NEW next, Types, NamesInv, NamesInv', Types', Balance, cur # End, Read(next), Begins(next)
    PROVE  Balance'
<1>1. Front(names') = names /\ Last(names') = <<>>
  <2>1. names \in Seq(Seq(Chars)) /\ <<>> \in Seq(Chars) /\ names' = Append(names, <<>>)
    BY DEF Begins, Types
  <2>. QED  BY <2>1, FrontAppend
<1>2. SoFar' = SoFar
  BY <1>1 DEF Begins, Complete, SoFar
<1>3. Written = SoFar /\ SoFar \in Seq(Chars) /\ Written' = SoFar' /\ SoFar' \in Seq(Chars)
  BY SoFarNext
<1>4. Owed = <<>> /\ ~Ahead /\ ~Ahead'
  BY DEF Begins, Owed
<1>5. text = SoFar \o <<>>
  BY <1>3, <1>4 DEF Balance
<1>6. text' = SoFar \o <<cur>>
  BY <1>3, <1>5, TextRead, Concat
<1>7. Owed' = <<cur>>
  <2>1. CASE style = "named"
    <3>1. Owed' = <<":">> \o <<>>
      BY <1>1, <2>1 DEF Begins, Owed
    <3>. QED  BY <2>1, <3>1, Literals, Concat DEF Begins
  <2>2. CASE style = "pyformat"
    <3>1. prev' = "%"
      BY <2>2, TextRead DEF Begins
    <3>. QED  BY <2>2, <3>1 DEF Begins, Owed
  <2>. QED  BY <2>1, <2>2 DEF Begins
<1>. QED  BY <1>2, <1>3, <1>4, <1>6, <1>7 DEF Balance

LEMMA TextGoesOn ==
    ASSUME NEW next, Types, NamesInv, NamesInv', Types', Balance, Bracketed, cur # End, Read(next), GoesOn(next)
    PROVE  Balance'
<1>1. names # <<>>
  BY DEF GoesOn, NamesInv
<1>2. /\ Front(Longer) = Front(names) /\ Last(Longer) = Append(Last(names), cur)
      /\ Last(names) \in Seq(Chars)
  BY <1>1, LongerFacts
<1>3. SoFar' = SoFar
  <2>1. Complete' = Complete
    BY <1>2 DEF GoesOn, Complete
  <2>. QED  BY <2>1 DEF GoesOn, SoFar
<1>4. Written = SoFar /\ SoFar \in Seq(Chars) /\ Written' = SoFar' /\ SoFar' \in Seq(Chars)
  BY SoFarNext
<1>5. ~Ahead /\ ~Ahead' /\ Naming /\ Naming' /\ style' = style
  BY DEF GoesOn
<1>6. text = SoFar \o Owed
  BY <1>4, <1>5 DEF Balance
<1>7. /\ <<cur>> \in Seq(Chars) /\ text' = text \o <<cur>> /\ prev' = cur
      /\ Append(Last(names), cur) = Last(names) \o <<cur>>
  <2>1. cur \in Chars
    BY CurType
  <2>. QED  BY <1>2, <2>1, TextRead, Concat
<1>8. Owed \in Seq(Chars) /\ Owed' = Owed \o <<cur>>
  <2>1. CASE style = "named"
    <3>1. Owed = <<":">> \o Last(names) /\ names' = Longer
      BY <1>5, <2>1 DEF GoesOn, Owed
    <3>2. Owed' = <<":">> \o (Last(names) \o <<cur>>)
      BY <1>2, <1>5, <1>7, <2>1, <3>1 DEF Owed
    <3>. QED  BY <1>2, <1>7, <3>1, <3>2, Literals, Concat
  <2>2. CASE style = "pyformat" /\ cur \in NameChars /\ prev # ")" /\ names' = Longer
    <3>1. prev # "%" /\ cur \notin {"%", ")"}
      BY <1>5, <2>2, NoNameQuotes DEF Bracketed
    <3>2. Owed = <<"%", "(">> \o Last(names)
      BY <1>5, <2>2, <3>1 DEF Owed
    <3>3. Owed' = <<"%", "(">> \o (Last(names) \o <<cur>>)
      BY <1>2, <1>5, <1>7, <2>2, <3>1 DEF Owed
    <3>. QED  BY <1>2, <1>7, <3>2, <3>3, Literals, Concat
  <2>3. CASE style = "pyformat" /\ cur = "(" /\ prev = "%" /\ names' = names
    <3>1. Last(names) = <<>> /\ Last(names') = <<>>
      BY <1>5, <2>3 DEF Bracketed
    <3>2. Owed = <<"%">>
      BY <1>5, <2>3 DEF Owed
    <3>3. Owed' = <<"%", "(">> \o <<>>
      BY <1>5, <1>7, <2>3, <3>1 DEF Owed
    <3>4. <<"%">> \o <<"(">> = <<"%", "(">>
      BY PairConcat
    <3>. QED  BY <2>3, <3>2, <3>3, <3>4, Literals, Concat
  <2>4. CASE style = "pyformat" /\ cur = ")" /\ next = "s" /\ names' = names
    <3>1. prev # "%" /\ prev # ")"
      BY <1>5, <2>4 DEF Bracketed
    <3>2. Owed = <<"%", "(">> \o Last(names)
      BY <1>5, <2>4, <3>1 DEF Owed
    <3>3. Owed' = <<"%", "(">> \o Last(names) \o <<")">>
      BY <1>5, <1>7, <2>4 DEF Owed
    <3>. QED  BY <1>2, <2>4, <3>2, <3>3, Literals, Concat
  <2>. QED  BY <2>1, <2>2, <2>3, <2>4 DEF GoesOn
<1>9. text' = SoFar' \o Owed'
  BY <1>3, <1>4, <1>6, <1>7, <1>8, Concat
<1>. QED  BY <1>4, <1>5, <1>9 DEF Balance

LEMMA TextEnded ==
    ASSUME NEW next, NEW all, Types, NamesInv, NamesInv', Types', Balance, Bracketed, Doubled,
           cur # End, Read(next), Ends(all)
    PROVE  Balance'
<1>1. /\ all \in Seq(Seq(Chars)) /\ all # <<>> /\ Front(all) = Complete /\ Complete' = names'
      /\ Len(Complete) = Len(all) - 1 /\ Len(all) \in Nat \ {0}
  BY EndsFacts
<1>2. PICK k \in 1..Len(all) : Given(all, k)
  BY EndsFacts
<1>3. Written = SoFar /\ SoFar \in Seq(Chars) /\ Written' = SoFar' /\ SoFar' \in Seq(Chars)
  BY SoFarNext
<1>4. ~Ahead /\ ~Ahead' /\ Naming /\ ~Naming' /\ style' = style /\ ~escaped /\ ~escaped'
  BY DEF Ends, Doubled, Naming
<1>5. names # <<>> /\ Last(names) \in Seq(Chars) /\ Last(Longer) = Append(Last(names), cur)
  <2>1. names # <<>>
    BY <1>4 DEF NamesInv
  <2>. QED  BY <2>1, LongerFacts
<1>. DEFINE name == Last(all)
            src == IF style = "named" THEN <<":">> \o name
                   ELSE <<"%", "(">> \o name \o <<")", "s">>
<1>6. name \in Seq(Chars) /\ names' \in Seq(Seq(Chars))
  <2>1. name \in Seq(Chars)
    BY <1>1, FrontFacts
  <2>. QED  BY <2>1 DEF Types
<1>7. /\ k \in 1..Len(names') /\ names'[k] = name /\ out' = Append(out, Slot(k))
      /\ \A i \in 1..Len(Complete) : names'[i] = Complete[i]
  <2>1. all[Len(all)] = Last(all) /\ \A i \in 1..(Len(all) - 1) : Front(all)[i] = all[i]
    BY <1>1, FrontFacts
  <2>2. out' = Append(out, Slot(k))
    BY <1>2 DEF Given
  <2>3. CASE k \in 1..Len(Front(all)) /\ Front(all)[k] = Last(all) /\ names' = Front(all)
    BY <1>1, <2>2, <2>3
  <2>4. CASE k = Len(all) /\ names' = all
    BY <1>1, <2>1, <2>2, <2>4
  <2>. QED  BY <1>2, <2>3, <2>4 DEF Given
<1>8. SoFar' = SoFar \o src
  <2>1. style \in {"named", "pyformat"} /\ style \in Reads
    BY <1>4 DEF Naming, Reads
  <2>2. Slot(k) \in Token /\ Slot(k).k = k /\ k # 0
    <3>1. k \in Nat \ {0}
      BY <1>1
    <3>. QED  BY <3>1, CharToken DEF Slot
  <2>3. SourceIn(Slot(k), style, names') = src
    BY <1>7, <2>1, <2>2 DEF SourceIn
  <2>4. Len(Complete) \in Nat /\ Len(names') \in Nat /\ Len(Complete) =< Len(names')
    <3>1. names' \in {all, Front(all)}
      BY <1>2 DEF Given
    <3>. QED  BY <1>1, <3>1
  <2>5. out \in Seq(Token) /\ Covered(style, Complete, out)
    BY SoFarFacts
  <2>6. Covered(style, names', out)
    BY <2>1, <2>4, <2>5 DEF Covered
  <2>7. WrittenIn(style, names', out) = SoFar
    BY <1>7, <2>1, <2>4, <2>5, WrittenSame DEF SoFar
  <2>8. Slot(k).k \in 0..Len(names')
    BY <1>7, <2>2, <2>4
  <2>9. WrittenIn(style, names', Append(out, Slot(k))) = WrittenIn(style, names', out) \o src
    BY <1>6, <2>1, <2>2, <2>3, <2>5, <2>6, <2>8, WrittenAppend
  <2>. QED  BY <1>1, <1>4, <1>7, <2>7, <2>9 DEF SoFar
<1>9. text = SoFar \o Owed
  BY <1>3, <1>4 DEF Balance
<1>10. /\ <<cur>> \in Seq(Chars) /\ text' = text \o <<cur>>
       /\ Append(Last(names), cur) = Last(names) \o <<cur>>
  <2>1. cur \in Chars
    BY CurType
  <2>. QED  BY <1>5, <2>1, TextRead, Concat
<1>11. Owed \in Seq(Chars) /\ src = Owed \o <<cur>>
  <2>1. CASE style = "named"
    <3>1. name = Last(names) \o <<cur>>
      BY <1>5, <1>10, <2>1 DEF Ends
    <3>2. Owed = <<":">> \o Last(names)
      BY <1>4, <2>1 DEF Owed
    <3>3. src = <<":">> \o (Last(names) \o <<cur>>)
      BY <2>1, <3>1
    <3>. HIDE DEF src, name
    <3>. QED  BY <1>5, <1>10, <3>2, <3>3, Literals, Concat
  <2>2. CASE style = "pyformat"
    <3>1. cur = "s" /\ prev = ")" /\ name = Last(names)
      BY <2>2 DEF Ends
    <3>2. Owed = <<"%", "(">> \o Last(names) \o <<")">>
      BY <1>4, <2>2, <3>1 DEF Owed
    <3>3. src = <<"%", "(">> \o Last(names) \o <<")", "s">>
      BY <2>2, <3>1
    <3>4. <<")">> \o <<"s">> = <<")", "s">>
      BY PairConcat
    <3>5. <<"%", "(">> \o Last(names) \in Seq(Chars)
      BY <1>5, Literals, Concat
    <3>. HIDE DEF src, name
    <3>. QED  BY <3>1, <3>2, <3>3, <3>4, <3>5, Literals, Concat
  <2>. QED  BY <1>4, <2>1, <2>2 DEF Naming
<1>12. Owed' = <<>>
  BY <1>4 DEF Owed
<1>13. text' = SoFar' \o <<>>
  <2>. HIDE DEF src
  <2>1. text' = (SoFar \o Owed) \o <<cur>>
    BY <1>9, <1>10
  <2>2. (SoFar \o Owed) \o <<cur>> = SoFar \o (Owed \o <<cur>>)
    <3>1. SoFar \in Seq(Chars) /\ Owed \in Seq(Chars) /\ <<cur>> \in Seq(Chars)
      BY <1>3, <1>10, <1>11
    <3>. QED  BY <3>1, ConcatAssociative
  <2>3. text' = SoFar'
    BY <1>8, <1>11, <2>1, <2>2
  <2>. QED  BY <1>3, <2>3, Concat
<1>. QED  BY <1>3, <1>4, <1>12, <1>13 DEF Balance

LEMMA TextDoubled ==
    ASSUME NEW next, Types, NamesInv, NamesInv', Types', Balance, cur # End, Read(next), Doubles(next)
    PROVE  Balance'
<1>1. /\ style' = style /\ style = "format" /\ ~Naming /\ ~Naming' /\ ~Ahead /\ ~Ahead'
      /\ Complete' = Complete /\ cur = "%"
  BY DEF Doubles, Naming, Complete
<1>2. Written = SoFar /\ SoFar \in Seq(Chars) /\ Written' = SoFar' /\ SoFar' \in Seq(Chars)
  BY SoFarNext
<1>3. text = SoFar \o Owed /\ text' = text \o <<"%">>
  BY <1>1, <1>2, TextRead DEF Balance
<1>4. CASE ~escaped /\ escaped' /\ out' = out
  <2>1. Owed = <<>> /\ Owed' = <<"%">> /\ SoFar' = SoFar
    BY <1>1, <1>4 DEF Owed, SoFar
  <2>2. text' = SoFar' \o Owed'
    BY <1>2, <1>3, <2>1, Concat
  <2>. QED  BY <1>1, <1>2, <2>2 DEF Balance
<1>5. CASE escaped /\ ~escaped' /\ out' = Append(out, [c |-> "%%", k |-> 0])
  <2>. DEFINE t == [c |-> "%%", k |-> 0]
  <2>1. Owed = <<"%">> /\ Owed' = <<>>
    BY <1>1, <1>5 DEF Owed
  <2>2. SourceIn(t, style, Complete) = <<"%", "%">> /\ t \in Token /\ t.k = 0
    BY CharToken DEF SourceIn
  <2>3. SoFar' = SoFar \o <<"%", "%">>
    <3>1. WrittenIn(style, Complete, Append(out, t)) = SoFar \o SourceIn(t, style, Complete)
      <4>. HIDE DEF t
      <4>. QED  BY <1>1, <2>2, SoFarFacts, WrittenAppend DEF SoFar
    <3>. QED  BY <1>1, <1>5, <2>2, <3>1 DEF SoFar
  <2>4. text' = SoFar \o (<<"%">> \o <<"%">>)
    BY <1>2, <1>3, <2>1, Literals, Concat
  <2>5. text' = SoFar' \o <<>>
    BY <1>2, <2>3, <2>4, Concat, PairConcat
  <2>. QED  BY <1>1, <1>2, <2>1, <2>5 DEF Balance
<1>. QED  BY <1>4, <1>5 DEF Doubles

LEMMA TextPassed ==
    ASSUME NEW next, Types, NamesInv, NamesInv', Types', Balance, Doubled, cur # End, Read(next), Passes
    PROVE  Balance'
<1>1. /\ style' = style /\ style = "format" /\ ~Naming /\ ~Naming' /\ Ahead /\ ~Ahead'
      /\ Complete' = Complete /\ cur = "s" /\ out' = out
  BY DEF Passes, Naming, Complete
<1>2. Written = SoFar /\ SoFar \in Seq(Chars) /\ Written' = SoFar' /\ SoFar' \in Seq(Chars)
  BY SoFarNext
<1>3. text' = SoFar /\ SoFar' = SoFar
  BY <1>1, <1>2, TextRead DEF Balance, SoFar
<1>4. Owed' = <<>>
  <2>1. ~escaped'
    BY DEF Passes, Doubled, Ahead
  <2>. QED  BY <1>1, <2>1 DEF Owed
<1>5. text' = SoFar' \o <<>>
  BY <1>2, <1>3, Concat
<1>. QED  BY <1>1, <1>2, <1>4, <1>5 DEF Balance

\* ... and the balance of what was read and what was written.
LEMMA TextKept ==
    ASSUME NEW next, Types, NamesInv, NamesInv', Types', TextInv, cur # End, Read(next), Step(next)
    PROVE  TextInv'
<1>1. Balance /\ Doubled /\ Bracketed
  BY DEF TextInv
<1>2. Balance'
  BY <1>1, TextCopied, TextTaken, TextBegun, TextGoesOn, TextEnded, TextDoubled, TextPassed DEF Step
<1>3. cur' = next /\ prev' = cur /\ style' = style
  BY TextRead DEF Step, Copies, Takes, Begins, GoesOn, Ends, Doubles, Passes
<1>4. Doubled'
  <2>1. CASE Doubles(next)
    BY <1>3, <2>1 DEF Doubles, Doubled
  <2>2. CASE ~Doubles(next)
    <3>1. ~escaped'
      BY <1>1, <2>2 DEF Step, Copies, Takes, Begins, GoesOn, Ends, Passes, Naming, Ahead, Doubled
    <3>. QED  BY <3>1 DEF Doubled
  <2>. QED  BY <2>1, <2>2
<1>5. Bracketed'
  <2>1. CASE Begins(next)
    <3>1. Last(names') = <<>>
      <4>1. names \in Seq(Seq(Chars)) /\ <<>> \in Seq(Chars) /\ names' = Append(names, <<>>)
        BY <2>1 DEF Begins, Types
      <4>. QED  BY <4>1, FrontAppend
    <3>2. style = "pyformat" => cur = "%" /\ next = "("
      BY <2>1 DEF Begins
    <3>. QED  BY <1>3, <3>1, <3>2 DEF Bracketed
  <2>2. CASE GoesOn(next)
    <3>1. style = "pyformat" => cur # "%" /\ (cur = ")" => next = "s")
      BY <2>2, NoNameQuotes DEF GoesOn
    <3>. QED  BY <1>3, <3>1 DEF Bracketed
  <2>3. CASE ~Begins(next) /\ ~GoesOn(next)
    <3>1. ~(Naming' /\ style = "pyformat")
      BY <1>3, <2>3 DEF Step, Copies, Takes, Ends, Doubles, Passes, Naming
    <3>. QED  BY <1>3, <3>1 DEF Bracketed
  <2>. QED  BY <2>1, <2>2, <2>3
<1>. QED  BY <1>2, <1>4, <1>5 DEF TextInv

Cases(next) ==
  Outside(next) \/ InString(next) \/ InIdentifier \/ InEscapeString \/ InComment \/ InName(next)

LEMMA StateKept == ASSUME NEW next, StateInv, Cases(next) PROVE StateInv'
<1>1. CASE Outside(next)
  <2>1. CASE Colon(next)
    BY <1>1, <2>1 DEF Outside, Colon, ColonStyle, Goto, Keep, StateInv, States
  <2>2. CASE PercentName(next)
    BY <2>2 DEF PercentName, Goto, Keep, StateInv, States
  <2>3. CASE Percent(next)
    BY <1>1, <2>3 DEF Outside, Percent, Goto, Keep, StateInv, States
  <2>4. CASE OpenQuote \/ OpenIdentifier \/ Dash \/ QuestionMark \/ ColonAtEnd(next) \/ Plain(next)
    BY <1>1, <2>4 DEF Outside, OpenQuote, OpenIdentifier, Dash, QuestionMark, ColonAtEnd,
                      Plain, Goto, Keep, StateInv, States
  <2>. QED  BY <1>1, <2>1, <2>2, <2>3, <2>4 DEF Outside
<1>2. CASE InString(next)
  BY <1>2 DEF InString, Goto, StateInv, States
<1>3. CASE InIdentifier \/ InEscapeString \/ InComment
  BY <1>3 DEF InIdentifier, InEscapeString, InComment, Until, Goto, StateInv, States
<1>4. CASE InName(next)
  <2>1. style \in {"named", "pyformat", "format"} /\ style' = style
    BY <1>4 DEF InName, StateInv, Keep
  <2>2. state' = state \/ state' = "OUTSIDE"
    BY <1>4, <2>1 DEF InName, EndName, Goto, Keep
  <2>. QED  BY <2>1, <2>2 DEF StateInv, States
<1>. QED  BY <1>1, <1>2, <1>3, <1>4 DEF Cases

\* A text that ends in an error is left as it was.
Fails == UNCHANGED <<style, state, names, out, slots>>

LEMMA ErrorStep ==
    ASSUME NEW next, Reading(next), Cases(next), error'
    PROVE  Fails
<1>1. ~error
  BY DEF Reading
<1>2. ~(InString(next) \/ InIdentifier \/ InEscapeString \/ InComment \/ InName(next))
  BY <1>1 DEF InString, InIdentifier, InEscapeString, InComment, Until, InName, Keep
<1>3. Outside(next)
  BY <1>2 DEF Cases
<1>4. ColonAtEnd(next) \/ Percent(next)
  BY <1>1, <1>3 DEF Outside, OpenQuote, OpenIdentifier, Dash, QuestionMark, Colon,
                    PercentName, Plain, Keep
<1>5. CASE ColonAtEnd(next)
  BY <1>5 DEF ColonAtEnd, Keep, Fails
<1>6. CASE Percent(next)
  <2>1. style' = style
    BY <1>6 DEF Percent, PercentStyle, Reading, Odd
  <2>2. UNCHANGED <<state, names, out, slots>>
    BY <1>1, <1>6 DEF Percent, Keep
  <2>. QED  BY <2>1, <2>2 DEF Fails
<1>. QED  BY <1>4, <1>5, <1>6

LEMMA FailedKept ==
    ASSUME NEW next \in Alphabet[style] \cup {End}, Types, NamesInv, cur # End, Read(next), Fails
    PROVE  Types' /\ NamesInv'
<1>1. Types'
  <2>1. text' \in Seq(Chars) /\ cur' = next
    <3>1. text \in Seq(Chars) /\ cur \in Chars
      BY CurType DEF Types
    <3>. QED  BY <3>1 DEF Read
  <2>2. found' \in Nat
    BY DEF Read, Types
  <2>. QED  BY <2>1, <2>2 DEF Types, Fails
<1>2. Naming' = Naming /\ Complete' = Complete
  BY DEF Fails, Naming, Complete
<1>3. NamesInv'
  BY <1>2 DEF NamesInv, Fails
<1>. QED  BY <1>1, <1>3

LEMMA ScanInit == Init => ScanInv
<1>. SUFFICES ASSUME Init PROVE ScanInv
  OBVIOUS
<1>1. style \in Styles /\ cur \in Alphabet[style] /\ text = <<>> /\ names = <<>> /\ out = <<>>
      /\ slots = 0 /\ found = 0 /\ state = "OUTSIDE" /\ quoted = FALSE /\ escaped = FALSE
      /\ region = "plain"
  BY DEF Init
<1>2. ~Naming /\ ~Ahead /\ Complete = <<>> /\ Owed = <<>>
  BY <1>1 DEF Naming, Ahead, Complete, Owed
<1>3. Types
  <2>1. <<>> \in Seq(Chars) /\ <<>> \in Seq(Seq(Chars)) /\ <<>> \in Seq(Token)
    OBVIOUS
  <2>. QED  BY <1>1, <2>1 DEF Types
<1>4. NamesInv
  <2>1. DOMAIN <<>> = {}
    OBVIOUS
  <2>. QED  BY <1>1, <1>2, <2>1 DEF NamesInv, IsInjective
<1>5. InStep
  BY <1>1 DEF InStep
<1>6. FoundInv
  <2>1. {i \in DOMAIN out : out[i].k > 0} = {}
    BY <1>1
  <2>. QED  BY <1>1, <1>2, <2>1, FS_EmptySet DEF FoundInv
<1>7. TextInv
  <2>1. [i \in DOMAIN out |-> Source(out[i])] = <<>>
    BY <1>1
  <2>2. Written = <<>>
    BY <2>1, FlattenEmpty DEF Written
  <2>3. <<>> \o <<>> = <<>>
    OBVIOUS
  <2>. QED  BY <1>1, <1>2, <2>2, <2>3 DEF TextInv, Balance, Doubled, Bracketed
<1>. QED  BY <1>1, <1>3, <1>4, <1>5, <1>6, <1>7 DEF ScanInv, StateInv, States

LEMMA ScanStep == ScanInv /\ [Next]_vars => ScanInv'
<1>. SUFFICES ASSUME ScanInv, [Next]_vars PROVE ScanInv'
  OBVIOUS
<1>1. CASE UNCHANGED vars
  <2>1. UNCHANGED <<style, text, prev, cur, state, quoted, escaped, names, slots, out, error, region, odd, found>>
    BY <1>1 DEF vars, scanner
  <2>2. Types' = Types /\ NamesInv' = NamesInv /\ InStep' = InStep
    BY <2>1 DEF Types, NamesInv, InStep, Naming, Complete
  <2>3. FoundInv' = FoundInv
    BY <2>1 DEF FoundInv, Naming
  <2>4. TextInv' = TextInv
    BY <2>1 DEF TextInv, Balance, Doubled, Bracketed, Ahead, Naming, Owed, Written, Source
  <2>5. StateInv' = StateInv
    BY <2>1 DEF StateInv
  <2>. QED  BY <2>1, <2>2, <2>3, <2>4, <2>5 DEF ScanInv
<1>2. CASE Next
  <2>1. PICK next \in Alphabet[style] \cup {End} : Read(next) /\ Cases(next)
    BY <1>2 DEF Next, Cases
  <2>2. cur # End /\ ~error
    BY <1>2 DEF Next
  <2>3. StateInv'
    BY <2>1, StateKept DEF ScanInv
  <2>4. ASSUME ~odd'
        PROVE  /\ Types' /\ NamesInv'
               /\ ~error' => InStep' /\ FoundInv' /\ TextInv'
    <3>1. ~odd /\ ~Odd(next)
      BY <2>1, <2>4 DEF Read
    <3>2. Types /\ NamesInv /\ InStep /\ FoundInv /\ TextInv
      BY <2>2, <3>1 DEF ScanInv
    <3>3. Reading(next) /\ found \in Nat /\ Doubled /\ Bracketed
      BY <2>1, <2>2, <3>1, <3>2, ParamScanAssumption DEF Reading, Types, Reads, TextInv
    <3>4. CASE error'
      <4>1. Fails
        BY <2>1, <3>3, <3>4, ErrorStep
      <4>. QED  BY <2>1, <2>2, <3>2, <3>4, <4>1, FailedKept
    <3>5. CASE ~error'
      <4>1. Step(next)
        BY <2>1, <3>3, <3>5, StepOutside, StepInside, StepName DEF Cases, Step
      <4>2. Types'
        BY <2>1, <2>2, <3>2, <4>1, TypesKept
      <4>3. NamesInv'
        BY <2>2, <3>2, <4>1, NamesKept
      <4>4. FoundInv'
        BY <2>2, <3>2, <4>1, FoundKept
      <4>5. TextInv'
        BY <2>1, <2>2, <3>2, <4>1, <4>2, <4>3, TextKept
      <4>6. InStep'
        BY <2>1, <3>3, <3>5, InStepOutside, InStepInside, InStepName DEF Cases
      <4>. QED  BY <4>2, <4>3, <4>4, <4>5, <4>6
    <3>. QED  BY <3>4, <3>5
  <2>. QED  BY <2>3, <2>4 DEF ScanInv
<1>. QED  BY <1>1, <1>2

\* The inductive invariant, of texts of any length.
LEMMA ScanAlways == Spec => []ScanInv
  BY ScanInit, ScanStep, PTL DEF Spec

\* convert_paramstyle and the server agree, character by character, on what is
\* quoted: a placeholder in a string, an identifier or a comment is never
\* replaced, and one outside of them is never left as text.
THEOREM QuotesKeptAlways == Spec => []QuotesKept
<1>1. ScanInv => QuotesKept
  BY DEF ScanInv, InStep, QuotesKept
<1>. QED  BY <1>1, ScanAlways, PTL

\* Writing each slot's placeholder back into the output gives the statement:
\* the scan loses no character, doubles none, and gives each slot the name that
\* stood there, however often the name occurs.
THEOREM WritesBackAlways == Spec => []WritesBack
<1>1. ScanInv => WritesBack
  <2>. SUFFICES ASSUME ScanInv, Finished, ~odd, state # "INSIDE_PN", ~escaped PROVE Written = text
    BY DEF WritesBack
  <2>1. Types /\ NamesInv /\ Balance
    BY DEF ScanInv, TextInv, Finished
  <2>2. ~Naming /\ ~Ahead /\ Owed = <<>>
    BY DEF Naming, Ahead, Owed
  <2>3. Written \in Seq(Chars)
    BY <2>1, SoFarFacts DEF WritesSoFar
  <2>4. Written \o <<>> = Written
    BY <2>3, Concat
  <2>. QED  BY <2>1, <2>2, <2>4 DEF Balance
<1>. QED  BY <1>1, ScanAlways, PTL

\* The output has as many slots as the statement has placeholders, each slot has
\* a name or was counted, the names are different and each of them is used.
THEOREM EachFoundAlways == Spec => []EachFound
<1>1. ScanInv => TypeOK
  <2>. SUFFICES ASSUME ScanInv PROVE TypeOK
    OBVIOUS
  <2>1. ASSUME ~odd PROVE TokensOK
    <3>1. Types /\ NamesInv
      BY <2>1 DEF ScanInv
    <3>2. Len(Complete) \in Nat /\ Len(names) \in Nat /\ Len(Complete) =< Len(names)
      <4>1. names \in Seq(Seq(Chars))
        BY <3>1 DEF Types
      <4>2. CASE Naming
        <5>1. names # <<>> /\ Complete = Front(names)
          BY <3>1, <4>2 DEF NamesInv, Complete
        <5>2. Len(Front(names)) = Len(names) - 1 /\ Len(names) \in Nat \ {0}
          BY <4>1, <5>1, FrontFacts
        <5>. QED  BY <5>1, <5>2
      <4>3. CASE ~Naming
        BY <4>1, <4>3 DEF Complete
      <4>. QED  BY <4>2, <4>3
    <3>3. ASSUME NEW i \in DOMAIN out
          PROVE  out[i].k \in 0 .. (IF style \in {"named", "pyformat"} THEN Len(names) ELSE slots)
      <4>1. out[i].k \in 0 .. (IF style \in {"named", "pyformat"} THEN Len(Complete) ELSE slots)
        BY <3>1 DEF NamesInv
      <4>2. CASE style \in {"named", "pyformat"}
        BY <3>2, <4>1, <4>2
      <4>3. CASE style \notin {"named", "pyformat"}
        BY <4>1, <4>3
      <4>. QED  BY <4>2, <4>3
    <3>. QED  BY <3>3 DEF TokensOK
  <2>2. ASSUME state # "INSIDE_PN", ~odd
        PROVE  /\ IsInjective(names)
               /\ \A k \in DOMAIN names : \E i \in DOMAIN out : out[i].k = k
    <3>1. NamesInv /\ Complete = names
      BY <2>2 DEF ScanInv, Complete, Naming
    <3>. QED  BY <3>1 DEF NamesInv
  <2>3. state \in States
    BY DEF ScanInv, StateInv
  <2>. QED  BY <2>1, <2>2, <2>3 DEF TypeOK, States
<1>2. ScanInv =>
        (Finished /\ ~odd /\ state # "INSIDE_PN" =>
           Cardinality({i \in DOMAIN out : out[i].k > 0}) = found)
  <2>. SUFFICES ASSUME ScanInv, Finished, ~odd, state # "INSIDE_PN"
                PROVE  Cardinality({i \in DOMAIN out : out[i].k > 0}) = found
    OBVIOUS
  <2>1. FoundInv /\ Types /\ ~Naming
    BY DEF ScanInv, Finished, Naming
  <2>2. Cardinality(Filled(out)) \in Nat /\ found = Cardinality(Filled(out)) + 0
    <3>1. out \in Seq(Token) /\ [c |-> "%%", k |-> 0] \in Token
      BY <2>1, CharToken DEF Types
    <3>. QED  BY <2>1, <3>1, FilledAppend, FoundInvIs
  <2>. QED  BY <2>2 DEF Filled
<1>3. ScanInv => EachFound
  BY <1>1, <1>2 DEF EachFound
<1>. QED  BY <1>3, ScanAlways, PTL

=============================================================================
