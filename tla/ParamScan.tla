------------------------------ MODULE ParamScan ------------------------------
(***************************************************************************)
(* convert_paramstyle (src/pg8000/core.py:71): one pass over the text of a *)
(* statement that turns the placeholders of a parameter style into $1, $2, *)
(* ... and leaves quoted strings, quoted identifiers and comments alone.   *)
(* The scanner reads a character with one of lookahead and remembers the   *)
(* last; beside it a second reader, Lex, says what the server will take    *)
(* the same character for.  Where the two may part, by a rule of the       *)
(* server that the scanner does not have, the text is Odd, and nothing is  *)
(* said of it from there on.  The text is unfolded as it is read, so that  *)
(* every text up to MaxLen over a style's alphabet is scanned.             *)
(***************************************************************************)
EXTENDS Integers, Sequences, SequencesExt, FiniteSets

CONSTANTS Alphabet,  \* of each style: the characters of its texts
          NameChars, \* those that a name may have: c.isalnum() or c == '_'
          MaxLen     \* bound on the length of the text

Styles == DOMAIN Alphabet

ASSUME ParamScanAssumption ==
  /\ MaxLen \in Nat
  /\ Styles \subseteq {"named", "numeric", "qmark", "format", "pyformat"}
  /\ \A s \in Styles : "%%" \notin Alphabet[s]   \* it is two characters
  /\ NameChars \cap {"'", "\"", "-", ":", "=", "%", "(", ")", "?", "\n", "\\", ""} = {}

End == ""

VARIABLES style,   \* "pyformat" becomes "format" at a % that names nothing
          text, prev, cur,   \* what was read, its last character, the next
          state, quoted, escaped,   \* of the scanner: in_quote_escape, in_param_escape
          names,   \* placeholders
          slots,   \* how many were taken from param_idx
          out,     \* output_query: [c] a character, [c, k] with k > 0 the slot $k
          error,
          region,  \* what the server takes the text for
          joins,   \* whether there are only blanks and comments since an escape string
          odd,     \* what the scanner and the server may read differently
          found    \* placeholders where the server sees no quote or comment

scanner == <<style, state, quoted, escaped, names, slots, out, error>>
vars == <<scanner, text, prev, cur, region, joins, odd, found>>

Char(c) == [c |-> c, k |-> 0]
Slot(k) == [c |-> "$", k |-> k]

Init ==
  /\ style \in Styles
  /\ cur \in Alphabet[style]
  /\ text = <<>> /\ prev = End
  /\ state = "OUTSIDE" /\ quoted = FALSE /\ escaped = FALSE
  /\ names = <<>> /\ slots = 0 /\ out = <<>> /\ error = FALSE
  /\ region = "plain" /\ joins = FALSE /\ odd = FALSE /\ found = 0

-----------------------------------------------------------------------------
(* The scanner *)

Emit(token) == out' = Append(out, token)
Goto(s) == state' = s
Keep(vs) == UNCHANGED vs

OpenQuote ==
  /\ cur = "'"
  /\ Goto(IF prev = "E" THEN "INSIDE_ES" ELSE "INSIDE_SQ")
  /\ Emit(Char(cur))
  /\ Keep(<<style, quoted, escaped, names, slots, error>>)

OpenIdentifier ==
  /\ cur = "\""
  /\ Goto("INSIDE_QI") /\ Emit(Char(cur))
  /\ Keep(<<style, quoted, escaped, names, slots, error>>)

\* Mutant: one dash begins a comment
DashOnce ==
  /\ cur = "-"
  /\ Goto("INSIDE_CO") /\ Emit(Char(cur))
  /\ Keep(<<style, quoted, escaped, names, slots, error>>)

Dash ==
  /\ cur = "-"
  /\ Goto(IF prev = "-" THEN "INSIDE_CO" ELSE "OUTSIDE") /\ Emit(Char(cur))
  /\ Keep(<<style, quoted, escaped, names, slots, error>>)

QuestionMark ==
  /\ style = "qmark" /\ cur = "?"
  /\ slots' = slots + 1 /\ Emit(Slot(slots + 1))
  /\ Keep(<<style, state, quoted, escaped, names, error>>)

ColonStyle == style \in {"numeric", "named"} /\ cur = ":"

\* Mutant: a colon after a colon begins a name
NamesBlind(next) == next \notin {":", "="}

\* One colon alone, not a cast and not an assignment.
Names(next) == next \notin {":", "="} /\ prev # ":"

\* The lookahead past the end is None, which is not "in" a string.
ColonAtEnd(next) ==
  /\ ColonStyle /\ next = End
  /\ error' = TRUE
  /\ Keep(<<style, state, quoted, escaped, names, slots, out>>)

Colon(next) ==
  /\ ColonStyle /\ next # End /\ Names(next)
  /\ IF style = "numeric"
     THEN Emit(Slot(1)) /\ slots' = slots + 1 /\ Keep(<<state, names>>)
     ELSE Goto("INSIDE_PN") /\ names' = Append(names, <<>>) /\ Keep(<<out, slots>>)
  /\ Keep(<<style, quoted, escaped, error>>)

PercentStyle == style \in {"format", "pyformat"} /\ cur = "%"

PercentName(next) ==
  /\ style = "pyformat" /\ cur = "%" /\ next = "("
  /\ Goto("INSIDE_PN") /\ names' = Append(names, <<>>)
  /\ Keep(<<style, quoted, escaped, slots, out, error>>)

\* From here on the style is "format", and "%%" one percent sign.
Percent(next) ==
  /\ PercentStyle /\ ~(style = "pyformat" /\ next = "(")
  /\ style' = "format"
  /\ CASE escaped ->
            escaped' = FALSE /\ Emit([c |-> "%%", k |-> 0]) /\ Keep(<<state, slots, error>>)
       [] ~escaped /\ next = "%" ->
            escaped' = TRUE /\ Keep(<<state, slots, out, error>>)
       [] ~escaped /\ next = "s" ->
            /\ Goto("INSIDE_PN") /\ slots' = slots + 1 /\ Emit(Slot(slots + 1))
            /\ Keep(<<escaped, error>>)
       [] OTHER -> error' = TRUE /\ Keep(<<state, escaped, slots, out>>)
  /\ Keep(<<quoted, names>>)

Plain(next) ==
  /\ cur \notin {"'", "\"", "-"} /\ ~PercentStyle
  /\ ~(style = "qmark" /\ cur = "?") /\ ~(ColonStyle /\ (next = End \/ Names(next)))
  /\ Emit(Char(cur))
  /\ Keep(<<style, state, quoted, escaped, names, slots, error>>)

Outside(next) ==
  /\ state = "OUTSIDE"
  /\ \/ OpenQuote \/ OpenIdentifier \/ Dash \/ QuestionMark \/ ColonAtEnd(next)
     \/ Colon(next) \/ PercentName(next) \/ Percent(next) \/ Plain(next)

\* Two quotes in a string are one of it.
InString(next) ==
  /\ state = "INSIDE_SQ"
  /\ quoted' = IF cur = "'" THEN ~quoted /\ next = "'" ELSE quoted
  /\ Goto(IF cur = "'" /\ ~quoted /\ next # "'" THEN "OUTSIDE" ELSE "INSIDE_SQ")
  /\ Emit(Char(cur))
  /\ Keep(<<style, escaped, names, slots, error>>)

Until(s, ends) ==
  /\ state = s
  /\ Goto(IF ends THEN "OUTSIDE" ELSE s)
  /\ Emit(Char(cur))
  /\ Keep(<<style, quoted, escaped, names, slots, error>>)

InIdentifier == Until("INSIDE_QI", cur = "\"")
InEscapeString == Until("INSIDE_ES", cur = "'" /\ prev # "\\")
InComment == Until("INSIDE_CO", cur = "\n")

\* Mutant: a name that was there before gets the last slot
EndNameLast(all) ==
  LET before == Front(all)
  IN /\ Goto("OUTSIDE")
     /\ names' = IF Last(all) \in ToSet(before) THEN before ELSE all
     /\ Emit(Slot(Len(names')))

\* The name is complete: the slot of its first occurrence, or a new one.
EndName(all) ==
  LET before == Front(all)
  IN /\ Goto("OUTSIDE")
     /\ IF Last(all) \in ToSet(before)
        THEN Emit(Slot(CHOOSE i \in DOMAIN before :
                         /\ before[i] = Last(all)
                         /\ \A j \in 1 .. i - 1 : before[j] # Last(all)))
             /\ names' = before
        ELSE Emit(Slot(Len(all))) /\ names' = all

Longer == [names EXCEPT ![Len(names)] = Append(@, cur)]

InName(next) ==
  /\ state = "INSIDE_PN"
  /\ CASE style = "named" ->
            IF next \in NameChars
            THEN names' = Longer /\ Keep(<<state, out>>) ELSE EndName(Longer)
       [] style = "pyformat" ->
            IF prev = ")" /\ cur = "s" THEN EndName(names)
            ELSE Keep(<<state, out>>)
                 /\ names' = IF cur \in {"(", ")"} THEN names ELSE Longer
       [] style = "format" -> Goto("OUTSIDE") /\ Keep(<<names, out>>)
  /\ Keep(<<style, quoted, escaped, slots, error>>)

-----------------------------------------------------------------------------
(* The server's reader, with standard_conforming_strings, as far as a text  *)
(* that is not odd needs it: none that has a block comment or a dollar.     *)
(* Letters and digits beyond ASCII are in NameChars; other signs there, and *)
(* the vertical tab that newer servers take for a blank, are not considered. *)

\* E or e begins an escape string if no longer word ends with it.
EscapeOpens ==
  prev \in {"E", "e"} /\ (Len(text) < 2 \/ text[Len(text) - 1] \notin NameChars \cup {":"})

FromPlain ==
  CASE cur = "'" -> IF EscapeOpens THEN "escape" ELSE "string"
    [] cur = "\"" -> "identifier"
    [] cur = "-" /\ prev = "-" -> "comment"
    [] OTHER -> "plain"

\* After a quote in a string it is not yet known whether the string ends.
Lex ==
  CASE region = "plain" -> FromPlain
    [] region = "string" /\ cur = "'" -> "string?"
    [] region = "escape" /\ cur = "'" -> "escape?"
    [] region = "string?" -> IF cur = "'" THEN "string" ELSE FromPlain
    [] region = "escape?" -> IF cur = "'" THEN "escape" ELSE FromPlain
    [] region = "escape" /\ cur = "\\" -> "escaped"
    [] region = "escaped" -> "escape"
    [] region = "identifier" /\ cur = "\"" -> "plain"
    [] region = "comment" /\ cur \in {"\n", "\r"} -> "plain"
    [] OTHER -> region

\* A string after blanks and comments is more of the escape string before it;
\* one dash is not a comment.
Joins ==
  \/ Lex = "escape?"
  \/ /\ joins
     /\ \/ region = "comment" \/ cur = "-"
        \/ cur \in {" ", "\t", "\n", "\r", "\f"} /\ prev # "-"

Open == region \in {"plain", "string?", "escape?"} /\ FromPlain = "plain"

\* What a caller means as a placeholder.
Means(next) ==
  CASE style = "named" -> cur = ":" /\ prev # ":" /\ next \in NameChars
    [] style = "numeric" -> cur = ":" /\ prev # ":" /\ next \in NameChars
    [] style = "qmark" -> cur = "?"
    [] style = "format" -> cur = "%" /\ ~escaped /\ next = "s"
    [] style = "pyformat" -> cur = "%" /\ next = "("

\* A quote that begins an escape string for the scanner (after E) or for the
\* server (after E or e, no longer word, or to continue one), not for both; a
\* dollar sign ($$ quotes, $n) and a block comment; a comment with a carriage
\* return; in an escape string, a backslash before a backslash or beside a
\* doubled quote; a colon before no name; a % that names nothing where names
\* are used.
Odd(next) ==
  \/ region = "plain" /\ cur = "'" /\ (prev = "E") # EscapeOpens
  \/ region = "plain" /\ cur = "'" /\ joins /\ prev # "-"
  \/ Open /\ cur = "$"
  \/ Open /\ cur = "*" /\ prev = "/"
  \/ region = "comment" /\ cur = "\r"
  \/ region = "escaped" /\ cur = "\\"
  \/ region = "escape?" /\ cur = "'"
  \/ ColonStyle /\ next \notin NameChars \cup {":", "="} /\ prev # ":"
  \/ style = "pyformat" /\ cur = "%" /\ next # "("
  \/ state = "INSIDE_PN" /\ style = "pyformat"
     /\ \/ cur = "(" /\ prev # "%"
        \/ cur = ")" /\ next # "s"
        \/ cur \notin NameChars \cup {"(", ")"}

-----------------------------------------------------------------------------
Read(next) ==
  /\ text' = Append(text, cur) /\ prev' = cur /\ cur' = next
  /\ region' = Lex /\ joins' = Joins
  /\ odd' = (odd \/ Odd(next))
  /\ found' = found + (IF Open /\ state # "INSIDE_PN" /\ Means(next) THEN 1 ELSE 0)

Next ==
  /\ cur # End /\ ~error
  /\ \E next \in Alphabet[style] \cup {End} :
       /\ Len(text) + 1 = MaxLen => next = End
       /\ Read(next)
       /\ \/ Outside(next) \/ InString(next) \/ InIdentifier \/ InEscapeString
          \/ InComment \/ InName(next)

Spec == Init /\ [][Next]_vars

Finished == cur = End /\ ~error

-----------------------------------------------------------------------------
(* Properties *)

TokensOK == \A i \in DOMAIN out : out[i].k \in 0 .. (IF style \in {"named", "pyformat"}
                                                     THEN Len(names) ELSE slots)

\* Every slot in the output has a name or was counted, the names are all
\* different, and each is used: the values a statement is sent with are those
\* its text refers to, no more and no fewer.
TypeOK ==
  /\ state \in {"OUTSIDE", "INSIDE_SQ", "INSIDE_QI", "INSIDE_ES", "INSIDE_PN", "INSIDE_CO"}
  /\ ~odd => TokensOK
  /\ Finished /\ state # "INSIDE_PN" /\ ~odd =>
       /\ IsInjective(names)
       /\ \A k \in DOMAIN names : \E i \in DOMAIN out : out[i].k = k

\* The scanner is in a string, an identifier or a comment exactly when the
\* server is: nothing quoted is taken for a placeholder and no placeholder
\* for something quoted (but for the texts in Odd, where the server has a rule
\* that the scanner does not know).
QuotesKept ==
  ~error /\ ~odd /\ region \notin {"string?", "escape?"} =>
    /\ state \in {"INSIDE_SQ", "INSIDE_ES"} <=> region \in {"string", "escape", "escaped"}
    /\ state = "INSIDE_QI" <=> region = "identifier"
    /\ state = "INSIDE_CO" <=> region = "comment"

\* The placeholder a slot stands for, as it was written.
Source(t) ==
  IF t.k = 0 THEN IF t.c = "%%" THEN <<"%", "%">> ELSE <<t.c>>
  ELSE CASE style = "named" -> <<":">> \o names[t.k]
         [] style = "pyformat" -> <<"%", "(">> \o names[t.k] \o <<")", "s">>
         [] style = "numeric" -> <<":">>
         [] style = "qmark" -> <<"?">>
         [] style = "format" -> <<"%", "s">>

Written == FlattenSeq([i \in DOMAIN out |-> Source(out[i])])

\* Writing each slot's placeholder back gives the text: no character is lost,
\* and each slot has the name that stood there, however often it occurs.
WritesBack ==
  Finished /\ ~odd /\ state # "INSIDE_PN" /\ ~escaped => Written = text

\* There are as many slots as placeholders outside quotes and comments, and
\* each has its value (TypeOK).
EachFound ==
  /\ TypeOK
  /\ Finished /\ ~odd /\ state # "INSIDE_PN" =>
       Cardinality({i \in DOMAIN out : out[i].k > 0}) = found

=============================================================================
