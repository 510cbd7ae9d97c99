----------------------------- MODULE Asn1Types -----------------------------
(***************************************************************************)
(* The vocabulary of the ASN.1 structures of asn1crypto.  A type is what   *)
(* the decoder looks at before it opens an element: the identifiers        *)
(* <<class, tag>> the element may have outside, and, for a structure, its  *)
(* fields in order.  Every type is a record of one shape:                  *)
(*   kind   "plain", "any", "fields", "fieldset", "choice", "named", or    *)
(*          "refused" (a type whose constructor always raises);            *)
(*   ids    the identifiers that select the type; {} for Any;              *)
(*   also   tag numbers a built value tolerates besides (_bad_tag);        *)
(*   fields the fields of a structure or the alternatives of a choice;     *)
(*   pair, specs   the OID field and the value field it decides the type   *)
(*          of (_oid_pair), and the types it decides for (_oid_specs);     *)
(*   names, back   a map from codes, here positions, to names, and the     *)
(*          positions an explicit _reverse_map sends names to.             *)
(***************************************************************************)
EXTENDS Naturals, Sequences

Universal == 0
Context == 2

(* The least a type is: its kind and its identifiers.                      *)
OfKind(kind, ids) ==
    [kind |-> kind, ids |-> ids, also |-> {}, fields |-> <<>>, pair |-> <<>>,
     specs |-> <<>>, names |-> <<>>, back |-> <<>>]

(* A value without fields, known by a universal tag.                       *)
Plain(tag) == OfKind("plain", {<<Universal, tag>>})

Any == OfKind("any", {})
Boolean == Plain(1)
Integer == Plain(2)
BitString == Plain(3)
OctetBitString == Plain(3)
OctetString == Plain(4)
IntegerOctetString == Plain(4)
ParsableOctetString == Plain(4)
ParsableOctetBitString == Plain(3)
Null == Plain(5)
ObjectIdentifier == Plain(6)
Enumerated == Plain(10)
UTF8String == Plain(12)
Sequence == Plain(16)
Set == Plain(17)
NumericString == Plain(18)
PrintableString == Plain(19)
TeletexString == Plain(20)
IA5String == Plain(22)
UTCTime == Plain(23)
GeneralizedTime == Plain(24)
VisibleString == Plain(26)
GeneralString == Plain(27)
UniversalString == Plain(28)
BMPString == Plain(30)

(* A list and a structure in a field are told by their outer tag; their    *)
(* members and fields, which are decoded later, are only named here.       *)
SequenceOf(members) == Sequence
SetOf(members) == Set
Struct(name) == Sequence
StructSet(name) == Set

(* Fields of a structure: required, optional, or left out of the encoding  *)
(* when they equal their default.                                          *)
Req(name, type) == [name |-> name, use |-> "required", type |-> type]
Opt(name, type) == [name |-> name, use |-> "optional", type |-> type]
Def(name, type) == [name |-> name, use |-> "default", type |-> type]

Fields(fields) == [OfKind("fields", {<<Universal, 16>>}) EXCEPT !.fields = fields]
FieldSet(fields) == [OfKind("fieldset", {<<Universal, 17>>}) EXCEPT !.fields = fields]
Paired(oid, value, fields, specs) ==
    [Fields(fields) EXCEPT !.pair = <<oid, value>>, !.specs = specs]

Alt(name, type) == [name |-> name, type |-> type]
OneOf(alts) ==
    [OfKind("choice", UNION {alts[i].type.ids : i \in DOMAIN alts}) EXCEPT !.fields = alts]

Named(type, names) == [type EXCEPT !.kind = "named", !.names = names]
Preferring(back, type) == [type EXCEPT !.back = back]
AlsoTagged(type, tags) == [type EXCEPT !.also = tags]

(* An explicit tag wraps the element: only the wrapper is seen outside.    *)
Explicit(tag, type) ==
    [type EXCEPT !.ids = {<<Context, tag>>}, !.also = {},
                 !.kind = IF @ = "choice" THEN "plain" ELSE @]

(* An implicit tag replaces the identifier; a choice has none to replace   *)
(* and its constructor raises.                                             *)
Implicit(tag, type) ==
    [type EXCEPT !.ids = {<<Context, tag>>}, !.kind = IF @ = "choice" THEN "refused" ELSE @]

(* The identifier test of _build.                                          *)
Accepts(type, id) ==
    /\ type.kind # "refused"
    /\ \/ type.ids = {}
       \/ \E own \in type.ids : id[1] = own[1] /\ (id[2] = own[2] \/ id[2] \in type.also)
=============================================================================
