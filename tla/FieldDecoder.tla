---------------------------- MODULE FieldDecoder ----------------------------
(***************************************************************************)
(* One structure of asn1crypto written by dump() and read back by load():  *)
(* the loop of Sequence._parse_children, the map of Set._parse_children,   *)
(* the alternatives of Choice and the names of ValueMap, for any type of a *)
(* catalogue.  An element on the wire is its outer identifier with, for an *)
(* object identifier or a named number, the name and the code it stands    *)
(* for; what is inside is the business of the element's own type.  On the  *)
(* way one element may be lost, doubled, exchanged with its neighbour or   *)
(* slipped in.                                                             *)
(***************************************************************************)
EXTENDS Asn1Types, FiniteSets

CONSTANTS Catalog,    \* the types, a sequence
          Damages,    \* what may happen to the encoding
          Strays,     \* identifiers of an element slipped in
          AnyIds,     \* identifiers a value without a type is written with
          MaxDamaged, \* bound: the longest encoding that is damaged
          Ambiguous   \* fields of the types known not to read back

ASSUME DamageAssumption ==
    /\ "none" \in Damages
    /\ Damages \subseteq {"none", "lost", "doubled", "swapped", "slipped in"}

VARIABLES type,       \* the type, one of the catalogue
          written,    \* per field: the element it is written as, or Void
          damage,     \* what happened to the encoding
          contents,   \* the elements on the wire
          pointer,    \* how many of them are parsed
          children,   \* per field, then extra ones: the element, or Void
          built,      \* how many children are built into values
          phase       \* "made", "parsing", "parsed", "built", "raised", "refused"
vars == <<type, written, damage, contents, pointer, children, built, phase>>

FieldsOf(t) == t.fields
Count == Len(FieldsOf(type))

Element(id, says, code) == [id |-> id, says |-> says, code |-> code]
Void == Element(<<>>, "", 0)

UniversalTags == (1..13) \cup (16..30)

LastOf(S) == CHOOSE i \in S : \A j \in S : j <= i

(* The position of a field by its name (_field_map, _oid_nums).            *)
At(t, name) == CHOOSE i \in DOMAIN t.fields : t.fields[i].name = name

IsPairedValue(t, i) == t.pair # <<>> /\ t.fields[i].name = t.pair[2]

(* The type a field's element is built with when the OID field says says   *)
(* (_determine_spec): a value field of type Any takes the type decided.    *)
SpecUnder(t, i, says) ==
    IF IsPairedValue(t, i) /\ t.fields[i].type.ids = {} /\ says \in DOMAIN t.specs
    THEN t.specs[says]
    ELSE t.fields[i].type

SpecFor(t, i, read) ==
    SpecUnder(t, i, IF IsPairedValue(t, i) THEN read[At(t, t.pair[1])].says ELSE "")

MayBeAbsent(f) == f.use # "required"

IdsOf(t) == IF t.ids = {} THEN AnyIds ELSE t.ids

(***************************************************************************)
(* What every class declares: identifiers are pairs of numbers, names are  *)
(* strings, a field's type is one that a value can have, and the OID field *)
(* is required and comes before the field whose type it decides.           *)
(***************************************************************************)
Ids == Nat \X Nat
IsList(s) == Len(s) \in Nat /\ DOMAIN s = 1..Len(s)

WellFormed(t) ==
    /\ t.kind \in {"fields", "fieldset", "choice", "named"}
    /\ IsList(t.fields) /\ IsList(t.names)
    /\ t.ids \subseteq Ids
    /\ \A i \in DOMAIN t.fields : t.fields[i].type.ids \subseteq Ids
    /\ \A i, j \in DOMAIN t.fields : t.fields[i].name = t.fields[j].name => i = j
    /\ \A c \in DOMAIN t.names : t.names[c] \in STRING
    /\ \A says \in DOMAIN t.specs :
          says \in STRING /\ t.specs[says].kind # "refused" /\ t.specs[says].ids \subseteq Ids
    /\ t.pair # <<>> =>
          \E o, v \in DOMAIN t.fields :
             /\ o < v /\ ~MayBeAbsent(t.fields[o])
             /\ t.fields[o].name = t.pair[1] /\ t.fields[v].name = t.pair[2]

(***************************************************************************)
(* X.680 24.5, 26.3 and 28.3: where a field may be left out, what is next  *)
(* has another identifier; so have any two fields of a set or choice.  An  *)
(* explicit _reverse_map sends a name to a code that stands for it.        *)
(***************************************************************************)
Under(t, i) == {SpecUnder(t, i, says) : says \in DOMAIN t.specs \cup {"", "another"}}

Unambiguous(t) ==
    /\ t.kind = "fields" => \A i \in DOMAIN t.fields : MayBeAbsent(t.fields[i]) =>
         LET f == t.fields[i].type
         IN /\ f.kind = "any" \/ \A spec \in Under(t, i) : IdsOf(spec) \subseteq f.ids
            /\ \A j \in DOMAIN t.fields :
                 /\ i < j /\ \A k \in i..(j - 1) : MayBeAbsent(t.fields[k])
                 => /\ f.kind # "any"
                    /\ \A spec \in Under(t, j) : IdsOf(spec) \cap f.ids = {}
    /\ t.kind \in {"fieldset", "choice"} =>
         \A i \in DOMAIN t.fields :
            /\ t.fields[i].type.ids # {}
            /\ \A j \in DOMAIN t.fields :
                 i # j => t.fields[i].type.ids \cap t.fields[j].type.ids = {}
    /\ t.kind = "named" =>
         \A c \in DOMAIN t.names : t.names[c] \in DOMAIN t.back =>
            LET back == t.back[t.names[c]]
            IN back \in DOMAIN t.names /\ t.names[back] = t.names[c]

Known(t) == \A i \in DOMAIN t.fields : t.fields[i].name \notin Ambiguous

ASSUME CatalogAssumption ==
    /\ \A n \in DOMAIN Catalog :
         WellFormed(Catalog[n]) /\ (Known(Catalog[n]) => Unambiguous(Catalog[n]))
    /\ AnyIds \subseteq Ids /\ AnyIds # {}
    /\ Strays \subseteq Ids

(***************************************************************************)
(* What is written: any choice of the optional fields and of what the OID  *)
(* says; one field, focus, ranges over all identifiers its type can have.  *)
(***************************************************************************)
Says(t, i, says) == IF t.pair # <<>> /\ t.fields[i].name = t.pair[1] THEN says ELSE ""

WritesStructure(t) ==
    \E absent \in SUBSET {i \in DOMAIN t.fields : MayBeAbsent(t.fields[i])},
       says \in IF t.pair = <<>> THEN {""} ELSE DOMAIN t.specs \cup {"another"},
       focus \in DOMAIN t.fields :
      \E id \in IdsOf(SpecUnder(t, focus, says)) :
        written = [i \in DOMAIN t.fields |->
                     IF i \in absent THEN Void
                     ELSE Element(IF i = focus THEN id
                                  ELSE CHOOSE other \in IdsOf(SpecUnder(t, i, says)) : TRUE,
                                  Says(t, i, says), 0)]

WritesChoice(t) ==
    \E a \in DOMAIN t.fields :
      \E id \in IdsOf(t.fields[a].type) :
        written = [i \in DOMAIN t.fields |-> IF i = a THEN Element(id, "", 0) ELSE Void]

WritesName(t) ==
    \E c \in DOMAIN t.names : \E id \in t.ids : written = <<Element(id, t.names[c], c)>>

Init ==
    /\ \E i \in DOMAIN Catalog : type = Catalog[i]
    /\ CASE type.kind \in {"fields", "fieldset"} -> WritesStructure(type)
         [] type.kind = "choice" -> WritesChoice(type)
         [] type.kind = "named" -> WritesName(type)
    /\ damage = "none"
    /\ contents = <<>>
    /\ pointer = 0
    /\ children = <<>>
    /\ built = 0
    /\ phase = "made"

(***************************************************************************)
(* dump: the elements that are there (Place counts those of the first n),  *)
(* a set's in the order of their tags.                                     *)
(* Set._set_contents also sorts the absent ones, whose tag is None: with   *)
(* another child to compare it to, the sort raises.                        *)
(***************************************************************************)
Place(w, n) == Cardinality({i \in 1..n : w[i] # Void})
Present(w) ==
    [k \in 1..Place(w, Len(w)) |->
        w[CHOOSE i \in DOMAIN w : w[i] # Void /\ Place(w, i) = k]]

Unwritable(t, w) ==
    \/ \E i \in DOMAIN w : w[i] # Void /\ t.kind # "named" /\ t.fields[i].type.kind = "refused"
    \/ t.kind = "fieldset" /\ Len(w) > 1 /\ \E i \in DOMAIN w : w[i] = Void

CannotDump ==
    /\ phase = "made"
    /\ Unwritable(type, written)
    /\ phase' = "raised"
    /\ UNCHANGED <<type, written, damage, contents, pointer, children, built>>

Dump ==
    /\ phase = "made"
    /\ ~Unwritable(type, written)
    /\ contents' = Present(written)
    /\ phase' = "sent"
    /\ UNCHANGED <<type, written, damage, pointer, children, built>>

(* What may happen to the elements before they are loaded.                 *)
Without(s, k) == SubSeq(s, 1, k - 1) \o SubSeq(s, k + 1, Len(s))
Inserted(s, k, e) == SubSeq(s, 1, k) \o <<e>> \o SubSeq(s, k + 1, Len(s))

Damage ==
    /\ phase = "sent"
    /\ type.kind \in {"fields", "fieldset"}
    /\ Len(contents) <= MaxDamaged
    /\ \/ /\ damage' = "lost"
          /\ \E k \in DOMAIN contents : contents' = Without(contents, k)
       \/ /\ damage' = "doubled"
          /\ \E k \in DOMAIN contents : contents' = Inserted(contents, k, contents[k])
       \/ /\ damage' = "swapped"
          /\ \E k \in 1..(Len(contents) - 1) :
               contents' = [contents EXCEPT ![k] = contents[k + 1], ![k + 1] = contents[k]]
       \/ /\ damage' = "slipped in"
          /\ \E k \in 0..Len(contents), id \in Strays :
               contents' = Inserted(contents, k, Element(id, "", 0))
    /\ damage' \in Damages
    /\ phase' = "parsing"
    /\ UNCHANGED <<type, written, pointer, children, built>>

Load ==
    /\ phase = "sent"
    /\ phase' = "parsing"
    /\ UNCHANGED <<type, written, damage, contents, pointer, children, built>>

Refuse ==
    /\ phase' = "refused"
    /\ UNCHANGED <<type, written, damage, contents, pointer, children, built>>

(***************************************************************************)
(* Sequence._parse_children.  The next field is the one after those that   *)
(* have a child.  A field that may be absent is skipped when the next      *)
(* element does not have its identifier; a required one takes the element  *)
(* whatever it is, to be checked when the child is built.  Elements after  *)
(* the last field become children without a field.                         *)
(***************************************************************************)
Next1 == Len(children) + 1

\* Mutant: the tag number alone is compared.
MatchesTag(f, e) == f.type.kind = "any" \/ e.id[2] \in {id[2] : id \in f.type.ids}
Matches(f, e) == f.type.kind = "any" \/ e.id \in f.type.ids

ParsesField == type.kind = "fields" /\ phase = "parsing" /\ pointer < Len(contents)

(* The type of a value field is looked up by building its OID field.       *)
OidBuilds(t, i) ==
    IsPairedValue(t, i) =>
      LET o == At(t, t.pair[1])
      IN IF children[o] = Void THEN TRUE ELSE Accepts(t.fields[o].type, children[o].id)

\* Mutant: a required field is skipped like an optional one.
SkipsAny(i) == ~Matches(FieldsOf(type)[i], contents[pointer + 1])
Skips(i) == MayBeAbsent(FieldsOf(type)[i]) /\ ~Matches(FieldsOf(type)[i], contents[pointer + 1])

\* Mutant: the element is parsed again after the one that was skipped over.
SkipFieldAndPart ==
    /\ ParsesField
    /\ Next1 <= Count
    /\ OidBuilds(type, Next1)
    /\ Skips(Next1)
    /\ children' = Append(children, Void)
    /\ pointer' = pointer + 1
    /\ UNCHANGED <<type, written, damage, contents, built, phase>>
SkipField ==
    /\ ParsesField
    /\ Next1 <= Count
    /\ OidBuilds(type, Next1)
    /\ Skips(Next1)
    /\ children' = Append(children, Void)
    /\ UNCHANGED <<type, written, damage, contents, pointer, built, phase>>

TakeField ==
    /\ ParsesField
    /\ Next1 <= Count => OidBuilds(type, Next1) /\ ~Skips(Next1)
    /\ children' = Append(children, contents[pointer + 1])
    /\ pointer' = pointer + 1
    /\ UNCHANGED <<type, written, damage, contents, built, phase>>

OidRefused ==
    /\ ParsesField
    /\ Next1 <= Count
    /\ ~OidBuilds(type, Next1)
    /\ Refuse

(* The fields left when the elements run out.                              *)
FillFields ==
    /\ type.kind = "fields" /\ phase = "parsing" /\ pointer = Len(contents)
    /\ \/ /\ \E i \in Next1..Count : ~MayBeAbsent(FieldsOf(type)[i])
          /\ Refuse
       \/ /\ \A i \in Next1..Count : MayBeAbsent(FieldsOf(type)[i])
          /\ children' = children \o [i \in 1..(Count - Len(children)) |-> Void]
          /\ phase' = "parsed"
          /\ UNCHANGED <<type, written, damage, contents, pointer, built>>

(***************************************************************************)
(* Set._parse_children: every element goes to the field that has its       *)
(* identifier, the later of two to the same field staying.                 *)
(***************************************************************************)
FieldWith(id) == {i \in 1..Count : id \in FieldsOf(type)[i].type.ids}

ParseSet ==
    /\ type.kind = "fieldset" /\ phase = "parsing"
    /\ LET For(i) == {k \in DOMAIN contents : i \in FieldWith(contents[k].id)}
       IN \/ /\ \/ \E k \in DOMAIN contents : FieldWith(contents[k].id) = {}
                \/ \E i \in 1..Count : For(i) = {} /\ ~MayBeAbsent(FieldsOf(type)[i])
             /\ Refuse
          \/ /\ \A k \in DOMAIN contents : FieldWith(contents[k].id) # {}
             /\ \A i \in 1..Count : For(i) = {} => MayBeAbsent(FieldsOf(type)[i])
             /\ children' = [i \in 1..Count |->
                               IF For(i) = {} THEN Void ELSE contents[LastOf(For(i))]]
             /\ pointer' = Len(contents)
             /\ phase' = "parsed"
             /\ UNCHANGED <<type, written, damage, contents, built>>

(***************************************************************************)
(* Choice.validate: the alternative that has the identifier, the last one  *)
(* if there are several (_id_map).                                         *)
(***************************************************************************)
Choose ==
    /\ type.kind = "choice" /\ phase = "parsing"
    /\ LET fit == FieldWith(contents[1].id)
       IN \/ fit = {} /\ Refuse
          \/ /\ fit # {}
             /\ children' = [i \in 1..Count |-> IF i = LastOf(fit) THEN contents[1] ELSE Void]
             /\ pointer' = 1
             /\ phase' = "parsed"
             /\ UNCHANGED <<type, written, damage, contents, built>>

(***************************************************************************)
(* A name that is read (_map) and set again (_reverse_map, which keeps the *)
(* last code of a name unless it is written out).                          *)
(***************************************************************************)
CodeFor(t, name) ==
    IF name \in DOMAIN t.back THEN t.back[name]
    ELSE LastOf({c \in DOMAIN t.names : t.names[c] = name})

Rename ==
    /\ type.kind = "named" /\ phase = "parsing"
    /\ LET code == CodeFor(type, type.names[contents[1].code])
       IN children' = <<Element(contents[1].id, type.names[code], code)>>
    /\ pointer' = 1
    /\ built' = 1
    /\ phase' = "built"
    /\ UNCHANGED <<type, written, damage, contents>>

(***************************************************************************)
(* native: the children are built in turn, each checked against its type;  *)
(* one without a field only against the universal tags.                    *)
(***************************************************************************)
Builds(i) ==
    LET e == children[i]
    IN e # Void => IF i <= Count THEN Accepts(SpecFor(type, i, children), e.id)
                   ELSE e.id[2] \in UniversalTags

Build ==
    /\ phase = "parsed"
    /\ IF built = Len(children)
       THEN phase' = "built" /\ UNCHANGED <<type, written, damage, contents, pointer, children, built>>
       ELSE \/ ~Builds(built + 1) /\ Refuse
            \/ /\ Builds(built + 1)
               /\ built' = built + 1
               /\ UNCHANGED <<type, written, damage, contents, pointer, children, phase>>

(* Nothing more happens to a value or an error.                            *)
Ended == phase \in {"built", "raised", "refused"} /\ UNCHANGED vars

Next ==
    \/ CannotDump \/ Dump \/ Damage \/ Load
    \/ SkipField \/ TakeField \/ OidRefused \/ FillFields
    \/ ParseSet \/ Choose \/ Rename \/ Build \/ Ended

Spec == Init /\ [][Next]_vars

(***************************************************************************)
(* Properties.                                                             *)
(***************************************************************************)
TypeOK ==
    /\ damage \in Damages
    /\ pointer \in 0..Len(contents)
    /\ built \in 0..Len(children)
    /\ phase \in {"made", "sent", "parsing", "parsed", "built", "raised", "refused"}

(* What dump() writes undamaged, load() reads as the same fields: the skip *)
(* rule, which looks at one identifier, never mistakes an optional field   *)
(* for a later one, and a name survives being read and set again.  Each    *)
(* combination of optional fields of each structure is a case of its own.  *)
RoundTrip ==
    /\ phase \in {"built", "refused"} /\ damage = "none" /\ Known(type)
    =>
      /\ phase = "built"
      /\ type.kind = "named" \/ children = written
      /\ type.kind = "named" => children[1].says = written[1].says

(* Whatever happened on the way, a structure that was read has every       *)
(* required field, each with an element of a type it may have.             *)
ReadIsComplete ==
    /\ TypeOK
    /\ phase = "built" /\ type.kind \in {"fields", "fieldset"} =>
         \A i \in 1..Count : LET f == FieldsOf(type)[i] IN
           /\ children[i] = Void => MayBeAbsent(f)
           /\ children[i] # Void /\ f.type.ids # {} => Accepts(f.type, children[i].id)

(* A sequence that was read keeps every element in its place: skipping     *)
(* fields and running out of them neither drops nor reorders what arrived. *)
NothingLost ==
    phase = "built" /\ type.kind = "fields" => Present(children) = contents

(* An element that no field takes is an error: the parser says so where it *)
(* has run past the last field ("Handle situations where an optional or    *)
(* defaulted field definition is incorrect").                              *)
StrayReported ==
    phase = "built" /\ type.kind = "fields" => Len(children) = Count
=============================================================================
