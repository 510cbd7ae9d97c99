------------------------------ MODULE Asn1Value ------------------------------
(***************************************************************************)
(* The lazily decoded values of asn1crypto (src/asn1crypto/core.py).  A     *)
(* loaded structure keeps the bytes it came from and decodes a field when  *)
(* it is first asked for; from then on the same value may be held in up to *)
(* five places: the bytes of the structure, its cached header, the undone  *)
(* slots, the built children and the cached native value.  The module says *)
(* when they agree: which edits dump() shows, which only dump(force=True), *)
(* when the loaded bytes come back untouched (what a signature is over),   *)
(* and when .native is the value of the tree.                              *)
(*                                                                         *)
(* An object is a loaded value and one copy() of it.  A caller reads,      *)
(* edits, dumps and copies in any order.  Tags are left to FieldDecoder: a *)
(* field's type is known from its place.  Sizes are kept, because a header *)
(* that outlives its contents shows only in its length, and one that ends  *)
(* in the byte 80 is taken for an indefinite one.  A call that raises has  *)
(* changed what it had reached (raised).                                   *)
(***************************************************************************)
EXTENDS Integers, Sequences, SequencesExt

CONSTANTS Values,     \* the integers written
          Width,      \* of each, the bytes of its contents
          Default,    \* the value of a DEFAULT field that is absent
          Types,      \* the structures loaded
          Layouts,    \* <<form of the outer header, form of the inner ones>>
          MaxCalls    \* bound on the calls made

ASSUME ValuesAssumption ==
  /\ Values \subseteq Nat \ {0} /\ Default \in Values
  /\ Width \in [Values -> Nat \ {0}]

-----------------------------------------------------------------------------
(* Types, values and encodings *)

IntType == [kind |-> "int", of |-> <<>>, mode |-> <<>>]
Seqn(of, mode) == [kind |-> "seq", of |-> of, mode |-> mode]
ListOf(of) == [kind |-> "list", of |-> <<of>>, mode |-> <<>>]
ChoiceOf(of) == [kind |-> "choice", of |-> <<of>>, mode |-> <<>>]
Octets(of) == [kind |-> "octets", of |-> <<of>>, mode |-> <<>>]

Field(ty, i) == IF ty.kind = "seq" THEN ty.of[i] ELSE ty.of[1]
Mode(ty, i) == IF ty.kind = "seq" THEN ty.mode[i] ELSE "must"
Structured(ty) == ty.kind \in {"seq", "list"}

\* What a caller means: an integer, or the values of the parts.
Num(v) == [val |-> v, parts |-> <<>>]
Parts(s) == [val |-> 0, parts |-> s]
Void == [val |-> -1, parts |-> <<>>]

\* An encoding: a header (its form and the length it states) and contents.
NoBytes == [form |-> "none", len |-> 0, val |-> 0, parts |-> <<>>]

RECURSIVE Size(_), Fits(_), Meaning(_, _), Encode(_, _, _, _), Sample(_, _)

BodySize(enc) ==
  IF enc.val > 0 THEN Width[enc.val]
  ELSE FoldLeft(+, 0, [i \in DOMAIN enc.parts |-> Size(enc.parts[i])])

\* The bytes a length below 65536 takes.
LengthSize(len) == IF len < 128 THEN 1 ELSE IF len < 256 THEN 2 ELSE 3

\* A definite header has a tag and the length it states, a longer form of it
\* one byte more; an indefinite one ends with two more after the contents.
Size(enc) ==
  CASE enc.form = "none" -> 0
    [] enc.form = "der" -> 1 + LengthSize(enc.len) + BodySize(enc)
    [] enc.form = "long" -> 2 + LengthSize(enc.len) + BodySize(enc)
    [] enc.form = "indefinite" -> 4 + BodySize(enc)

\* The last byte of the header is 80: that of an indefinite length, and of a
\* definite one of 128, 384, ... bytes.
EndsIn80(hdr) == hdr.form = "indefinite" \/ (hdr.form # "none" /\ hdr.len % 256 = 128)

\* Every stated length is the length of what follows.
Fits(enc) ==
  /\ enc.form \in {"der", "long"} => enc.len = BodySize(enc)
  /\ \A i \in DOMAIN enc.parts : Fits(enc.parts[i])

\* The value an encoding stands for.
Meaning(ty, enc) ==
  IF enc.form = "none" THEN Void
  ELSE IF ty.kind = "int" THEN Num(enc.val)
  ELSE Parts([i \in DOMAIN enc.parts |->
         IF enc.parts[i].form = "none" /\ Mode(ty, i) = "default"
         THEN Num(Default)
         ELSE Meaning(Field(ty, i), enc.parts[i])])

WithLength(form, val, parts) ==
  LET enc == [form |-> form, len |-> 0, val |-> val, parts |-> parts]
  IN [enc EXCEPT !.len = BodySize(enc)]

\* A value encoded with one form of header outside and one inside (an
\* integer's header cannot be indefinite); DER leaves out a default.
Encode(ty, plain, outer, inner) ==
  LET form == IF ty.kind \in {"int", "octets"} /\ outer = "indefinite" THEN "long" ELSE outer
  IN CASE plain = Void -> NoBytes
       [] plain # Void /\ ty.kind = "int" -> WithLength(form, plain.val, <<>>)
       [] OTHER -> WithLength(form, 0, [i \in DOMAIN plain.parts |->
             IF Mode(ty, i) = "default" /\ plain.parts[i] = Num(Default) /\ inner = "der"
             THEN NoBytes
             ELSE Encode(Field(ty, i), plain.parts[i], inner, inner)])

Der(ty, plain) == Encode(ty, plain, "der", "der")

\* The values a caller writes to a field of a type: every integer in it v.
Sample(ty, v) ==
  CASE ty.kind = "int" -> Num(v)
    [] ty.kind = "seq" -> Parts([i \in DOMAIN ty.of |->
          IF ty.mode[i] = "optional" /\ v = Default THEN Void ELSE Sample(ty.of[i], v)])
    [] OTHER -> Parts(<<Sample(ty.of[1], v)>>)

Samples(ty) == {Sample(ty, v) : v \in Values}

RECURSIVE IsDer(_, _), Refused(_, _), RefusedWithin(_, _, _)

\* DER: definite minimal headers, and no default spelled out.  The bytes in
\* an octet string are the caller's.
IsDer(ty, enc) ==
  \/ enc.form = "none"
  \/ /\ enc.form = "der"
     /\ ty.kind # "octets" => \A i \in DOMAIN enc.parts :
          /\ IsDer(Field(ty, i), enc.parts[i])
          /\ Mode(ty, i) = "default" => Meaning(Field(ty, i), enc.parts[i]) # Num(Default)

\* A Choice is decoded from the header and contents of its alternative,
\* without the two bytes an indefinite one ends with: ValueError.
Refused(ty, enc) ==
  ty.kind = "choice" /\ (enc.parts[1].form = "indefinite" \/ Refused(ty.of[1], enc.parts[1]))

\* One is met when everything is decoded, in types of these kinds.
RefusedWithin(ty, enc, kinds) ==
  \/ Refused(ty, enc)
  \/ ty.kind \in kinds /\ \E i \in DOMAIN enc.parts :
       RefusedWithin(Field(ty, i), enc.parts[i], kinds)

-----------------------------------------------------------------------------
(* Objects.  hdr: the cached header, if any; con: the encodings the         *)
(* contents consist of; parsed, kids: the children, once there are any; mut *)
(* the mutation mark; nat: the cached native value, if any, whose entries   *)
(* are shared with a child's own or stand alone; raised: the call under way *)
(* raises here.                                                             *)

Node(ty) == [ty |-> ty, hdr |-> <<>>, val |-> 0, con |-> <<>>, parsed |-> FALSE,
             kids |-> <<>>, mut |-> FALSE, nat |-> <<>>, raised |-> FALSE]

Undone(enc) == [state |-> "undone", enc |-> enc, node |-> <<>>]
Built(node) == [state |-> "built", enc |-> NoBytes, node |-> <<node>>]
Gone == [state |-> "gone", enc |-> NoBytes, node |-> <<>>]

Kid(node, i) == node.kids[i].node[1]
Calm(node) == [node EXCEPT !.raised = FALSE]

\* A node whose only child was called: what it raises, the node raises.
WithOnly(node, kid) ==
  [node EXCEPT !.kids = <<Built(Calm(kid))>>, !.raised = kid.raised]

\* What calling a child at its slot gives.
Skipped(slot, enc) == [slot |-> slot, enc |-> enc, ok |-> TRUE]
Stuck(slot) == [slot |-> slot, enc |-> NoBytes, ok |-> FALSE]
Done(kid, enc) == [slot |-> Built(Calm(kid)), enc |-> enc, ok |-> ~kid.raised]

\* The children are called in order, up to the first that raises.
Visited(n, done) ==
  LET failed == {i \in DOMAIN done : ~done[i].ok}
  IN [n EXCEPT !.kids = [i \in DOMAIN done |->
                           IF \E j \in failed : j < i THEN @[i] ELSE done[i].slot],
               !.raised = failed # {}]

Alone(plain) == [shared |-> FALSE, plain |-> plain]
Shared == [shared |-> TRUE, plain |-> Void]

RECURSIVE Build(_, _), Decoded(_), IsMutated(_), Entry(_), NatOf(_), Live(_), Method(_, _, _)

\* What an object is asked to do depends on its class, and most of it asks
\* the children to do the same or another of it.
Make(ty, v) == Method("make", ty, v)
Contents(node) == Method("contents", node, FALSE)
Dump(node, force) == Method("dump", node, force)
NativeOf(node) == Method("native", node, FALSE)
CopyOf(node) == Method("copy", node, FALSE)
Apply(node, e) == Method("apply", node, e)

\* An object from its bytes, none that are refused.  A Choice is decoded to
\* its alternative at once and keeps the explicit header it was wrapped in.
Build(ty, enc) ==
  LET node == [Node(ty) EXCEPT !.hdr = <<[form |-> enc.form, len |-> enc.len]>>]
  IN CASE ty.kind = "int" -> [node EXCEPT !.val = enc.val]
       [] ty.kind = "choice" ->
            [node EXCEPT !.parsed = TRUE, !.kids = <<Built(Build(ty.of[1], enc.parts[1]))>>]
       [] OTHER -> [node EXCEPT !.con = enc.parts]

\* The slots of a structure, from its bytes: a field that is absent is
\* void, or a new object of its default.
SeqChildren(node) ==
  [node EXCEPT !.parsed = TRUE, !.kids = [i \in DOMAIN node.con |->
     CASE node.con[i].form # "none" -> Undone(node.con[i])
       [] node.con[i].form = "none" /\ Mode(node.ty, i) = "default" ->
            Built(Make(Field(node.ty, i), Num(Default)))
       [] OTHER -> Gone]]

ListChildren(node) ==
  [node EXCEPT !.parsed = TRUE, !.kids = [i \in DOMAIN node.con |-> Undone(node.con[i])]]

Children(node) ==
  CASE node.parsed -> node
    [] ~node.parsed /\ node.ty.kind = "seq" -> SeqChildren(node)
    [] OTHER -> ListChildren(node)

\* parse_children(recurse=True): every child is built, and every structure
\* directly in a structure is parsed too.
Decoded(node) ==
  LET n == Children(node)
      All(b) == IF Structured(b.ty) THEN Decoded(b) ELSE b
  IN [n EXCEPT !.kids = [i \in DOMAIN n.kids |->
        IF n.kids[i].state = "undone" THEN Built(All(Build(Field(n.ty, i), n.kids[i].enc)))
        ELSE n.kids[i]]]

\* Mutant: a slot is built again from the bytes although it was built
LazyChildAgain(node, i) ==
  LET enc == IF i \in DOMAIN node.con THEN node.con[i] ELSE NoBytes
  IN IF enc.form # "none" /\ ~Refused(Field(node.ty, i), enc)
     THEN Built(Build(Field(node.ty, i), enc)) ELSE node.kids[i]

\* A slot that is asked for is built from the bytes it was cut out as; one
\* that is refused stays as it is, and the caller raises.
LazyChild(node, i) ==
  IF node.kids[i].state = "undone" /\ ~Refused(Field(node.ty, i), node.kids[i].enc)
  THEN Built(Build(Field(node.ty, i), node.kids[i].enc))
  ELSE node.kids[i]

ListLazyChild(node, i) ==
  IF node.kids[i].state = "undone" /\ ~Refused(node.ty.of[1], node.kids[i].enc)
  THEN Built(Build(node.ty.of[1], node.kids[i].enc))
  ELSE node.kids[i]

\* Mutant: only the structure's own mark counts
IsMutatedHere(node) == node.mut

\* A structure is mutated if it is marked or a structure directly in it is;
\* what sits in a Choice or an octet string is not looked at.
IsMutated(node) ==
  \/ node.mut
  \/ /\ node.parsed
     /\ \E i \in DOMAIN node.kids :
          /\ node.kids[i].state = "built"
          /\ Structured(Kid(node, i).ty)
          /\ IsMutated(Kid(node, i))

\* A child that was built is dumped, one that could not be raises.
DumpedKid(slot, force) ==
  IF slot.state = "undone" THEN Stuck(slot)
  ELSE LET d == Dump(slot.node[1], force) IN Done(d.node, d.enc)

\* Sequence._set_contents: undone slots keep their bytes unless forced, and a
\* field that encodes as its default is left out.
DumpedSlot(n, i, force) ==
  CASE n.kids[i].state = "gone" -> Skipped(Gone, NoBytes)
    [] n.kids[i].state = "undone" /\ ~force -> Skipped(n.kids[i], n.kids[i].enc)
    [] OTHER -> DumpedKid(LazyChild(n, i), force)

WithSlots(n, done) ==
  IF n.raised THEN n
  ELSE [n EXCEPT !.con = [i \in DOMAIN done |->
                            IF /\ Mode(n.ty, i) = "default"
                               /\ done[i].enc = Der(Field(n.ty, i), Num(Default))
                            THEN NoBytes ELSE done[i].enc],
                 !.hdr = <<>>]

SlotsDumped(n, done) == WithSlots(Visited(n, done), done)
SeqCoded(n, force) == SlotsDumped(n, [i \in DOMAIN n.kids |-> DumpedSlot(n, i, force)])
SeqContents(node, force) == SeqCoded(Children(node), force)

\* SequenceOf._set_contents: every child is built and dumped.
WithItems(n, done) ==
  IF n.raised THEN n
  ELSE [n EXCEPT !.con = [i \in DOMAIN done |-> done[i].enc], !.hdr = <<>>]

ItemsDumped(n, done) == WithItems(Visited(n, done), done)
ListCoded(n, force) ==
  ItemsDumped(n, [i \in DOMAIN n.kids |-> DumpedKid(ListLazyChild(n, i), force)])
ListContents(node, force) == ListCoded(Children(node), force)

\* The contents property: encoded again if anything noticed a change.
ContentsNow(node) ==
  IF Structured(node.ty) /\ node.parsed /\ ~node.raised /\ IsMutated(node)
  THEN IF node.ty.kind = "seq" THEN SeqContents(node, FALSE) ELSE ListContents(node, FALSE)
  ELSE node

-----------------------------------------------------------------------------
(* dump(): each returns the object as it is afterwards and the bytes *)

\* header[-1:] == b'\x80', which forces an encoding.
LooksIndefinite(node) == node.hdr # <<>> /\ EndsIn80(node.hdr[1])

\* Asn1Value.dump: the contents behind the cached header, or a new one.
Behind(node, fresh) ==
  LET hdr == IF node.hdr = <<>> \/ LooksIndefinite(node)
             THEN [form |-> "der", len |-> fresh.len] ELSE node.hdr[1]
  IN IF node.raised THEN [node |-> node, enc |-> NoBytes]
     ELSE [node |-> [node EXCEPT !.hdr = <<hdr>>],
           enc |-> [fresh EXCEPT !.form = hdr.form, !.len = hdr.len]]

Headed(node) == Behind(node, WithLength("der", node.val, node.con))

\* A forced dump of a primitive sets it to its own value.
DumpInt(node, force) ==
  Headed(IF force \/ LooksIndefinite(node) THEN [node EXCEPT !.hdr = <<>>] ELSE node)

DumpSeq(node, force) ==
  Headed(Contents(IF force \/ LooksIndefinite(node) THEN SeqContents(node, TRUE) ELSE node))

DumpList(node, force) ==
  Headed(Contents(IF force \/ LooksIndefinite(node) THEN ListContents(node, TRUE) ELSE node))

\* The alternative is dumped every time, its explicit header written only
\* when there is none or by force.
DumpChoice(node, force) ==
  LET forced == force \/ LooksIndefinite(node)
      d == Dump(Kid(node, 1), forced)
      after == WithOnly(node, d.node)
      all == WithLength("der", 0, <<d.enc>>)
      hdr == IF node.hdr = <<>> \/ forced THEN [form |-> "der", len |-> all.len] ELSE node.hdr[1]
  IN IF after.raised THEN [node |-> after, enc |-> NoBytes]
     ELSE [node |-> [after EXCEPT !.hdr = <<hdr>>],
           enc |-> [all EXCEPT !.form = hdr.form, !.len = hdr.len]]

\* Mutant: a forced dump sets the octet string to its bytes
DumpOctetsBytes(node, force) == Headed(IF force THEN [node EXCEPT !.hdr = <<>>] ELSE node)

\* Only a forced dump looks at what the bytes were decoded to.
Recoded(node, d) ==
  LET after == WithOnly(node, d.node)
  IN IF after.raised THEN after ELSE [after EXCEPT !.hdr = <<>>, !.con = <<d.enc>>]

DumpOctets(node, force) ==
  Headed(CASE ~force -> node
           [] force /\ ~node.parsed -> [node EXCEPT !.hdr = <<>>]
           [] OTHER -> Recoded(node, Dump(Kid(node, 1), TRUE)))

Dumped(node, force) ==
  CASE node.ty.kind = "int" -> DumpInt(node, force)
    [] node.ty.kind = "seq" -> DumpSeq(node, force)
    [] node.ty.kind = "list" -> DumpList(node, force)
    [] node.ty.kind = "choice" -> DumpChoice(node, force)
    [] node.ty.kind = "octets" -> DumpOctets(node, force)

-----------------------------------------------------------------------------
(* native and copy() *)

\* What a parent's native value holds of a child: an object of the child's
\* own, seen through a Choice and a decoded octet string, or a plain value.
Entry(node) ==
  CASE node.ty.kind = "int" -> Alone(Num(node.val))
    [] node.ty.kind = "choice" \/ (node.ty.kind = "octets" /\ node.parsed) -> Entry(Kid(node, 1))
    [] node.ty.kind = "octets" -> Alone(Meaning(node.ty, WithLength("der", 0, node.con)))
    [] OTHER -> Shared

SlotEntry(slot) == IF slot.state = "gone" THEN Alone(Void) ELSE Entry(slot.node[1])

\* Asking a structure for its native value decodes all of it, once.  If a
\* refused alternative is met before anything was parsed, nothing is.
NativeKid(slot) ==
  CASE slot.state = "gone" -> Skipped(Gone, NoBytes)
    [] slot.state = "undone" -> Stuck(slot)
    [] OTHER -> Done(NativeOf(slot.node[1]), NoBytes)

NativeSlot(n, i) == NativeKid(LazyChild(n, i))

WithEntries(n) ==
  IF n.raised THEN n
  ELSE [n EXCEPT !.nat = <<[i \in DOMAIN n.kids |-> SlotEntry(n.kids[i])]>>]

NativeParsed(n) == WithEntries(Visited(n, [i \in DOMAIN n.kids |-> NativeSlot(n, i)]))

StructNative(node) ==
  LET n == Contents(node)
  IN CASE n.raised \/ n.nat # <<>> -> n
       [] ~n.raised /\ n.nat = <<>> /\ n.parsed -> NativeParsed(n)
       [] OTHER -> IF \E i \in DOMAIN n.con :
                          RefusedWithin(Field(n.ty, i), n.con[i], {"seq", "list"})
                   THEN [n EXCEPT !.raised = TRUE]
                   ELSE NativeParsed(Decoded(n))

WithNative(node) ==
  CASE Structured(node.ty) -> StructNative(node)
    [] node.ty.kind = "choice" \/ (node.ty.kind = "octets" /\ node.parsed) ->
         WithOnly(node, NativeOf(Kid(node, 1)))
    [] OTHER -> node

\* The native value a caller holds, once it was asked for.
NatOf(node) ==
  CASE node.ty.kind = "int" -> Num(node.val)
    [] node.ty.kind = "choice" -> Parts(<<NatOf(Kid(node, 1))>>)
    [] node.ty.kind = "octets" ->
         IF node.parsed THEN Parts(<<NatOf(Kid(node, 1))>>)
         ELSE Meaning(node.ty, WithLength("der", 0, node.con))
    [] OTHER -> Parts([i \in DOMAIN node.nat[1] |->
                  IF node.nat[1][i].shared THEN NatOf(Kid(node, i)) ELSE node.nat[1][i].plain])

\* The native value that is cached, all of it apart from any child.
NatApart(node) ==
  IF node.nat = <<>> THEN <<>>
  ELSE <<[i \in DOMAIN node.nat[1] |->
            Alone(IF node.nat[1][i].shared THEN NatOf(Kid(node, i)) ELSE node.nat[1][i].plain)]>>

\* A copied Choice copies its alternative, an octet string its bytes and what
\* they were decoded to.
CopyOfChoice(node) ==
  WithOnly([Node(node.ty) EXCEPT !.parsed = TRUE], CopyOf(Kid(node, 1)))

CopyOfOctets(node) ==
  LET new == [Node(node.ty) EXCEPT !.con = node.con, !.parsed = node.parsed]
  IN IF node.parsed THEN WithOnly(new, CopyOf(Kid(node, 1))) ELSE new

\* A copied structure takes the contents (encoded again if a change was
\* noticed) and the native value, but no children.
CopyOfStruct(node) ==
  LET n == Contents(node)
  IN [Node(node.ty) EXCEPT !.con = n.con, !.nat = NatApart(n), !.raised = n.raised]

Copied(node) ==
  CASE Structured(node.ty) -> CopyOfStruct(node)
    [] node.ty.kind = "choice" -> CopyOfChoice(node)
    [] node.ty.kind = "octets" -> CopyOfOctets(node)
    [] node.ty.kind = "int" -> [Node(node.ty) EXCEPT !.val = node.val]

-----------------------------------------------------------------------------
(* Objects made from native values *)

\* Tagging a value for its field copies it.
FixTagging(node) == CopyOf(node)

NewInt(v) == [Node(IntType) EXCEPT !.val = v.val]

NewChoice(ty, v) ==
  [Node(ty) EXCEPT !.parsed = TRUE,
                   !.kids = <<Built(FixTagging(Make(ty.of[1], v.parts[1])))>>]

NewOctets(ty, v) == [Node(ty) EXCEPT !.con = <<Der(ty.of[1], v.parts[1])>>]

\* Sequence._make_value: __setitem__ asks the new child for its contents.
MakeField(ty, i, v) == Contents(Make(Field(ty, i), v))

\* SequenceOf._make_value.
MakeElement(ty, v) == Make(ty.of[1], v)

\* Field after field is set; what is not given is void.
NewSeq(ty, v) ==
  [Node(ty) EXCEPT !.parsed = TRUE, !.mut = TRUE,
     !.kids = [i \in DOMAIN v.parts |->
                 IF v.parts[i] = Void THEN Gone ELSE Built(MakeField(ty, i, v.parts[i]))]]

\* Element after element is set; then the contents are made, for a blank list too.
NewList(ty, v) ==
  Contents([Node(ty) EXCEPT !.parsed = TRUE, !.mut = v.parts # <<>>,
     !.kids = [i \in DOMAIN v.parts |-> Built(MakeElement(ty, v.parts[i]))]])

Made(ty, v) ==
  CASE ty.kind = "int" -> NewInt(v)
    [] ty.kind = "choice" -> NewChoice(ty, v)
    [] ty.kind = "octets" -> NewOctets(ty, v)
    [] ty.kind = "seq" -> NewSeq(ty, v)
    [] ty.kind = "list" -> NewList(ty, v)

\* The value of the tree as its accessors show it.
Live(node) ==
  CASE node.ty.kind = "int" -> Num(node.val)
    [] node.ty.kind # "int" /\ ~node.parsed ->
         Meaning(node.ty, WithLength("der", 0, node.con))
    [] OTHER -> Parts([i \in DOMAIN node.kids |->
                  CASE node.kids[i].state = "gone" -> Void
                    [] node.kids[i].state = "undone" ->
                         Meaning(Field(node.ty, i), node.kids[i].enc)
                    [] OTHER -> Live(Kid(node, i))])

-----------------------------------------------------------------------------
(* Edits, at the object a path of accessors leads to *)

\* Taking one step: a structure decodes the slot, an octet string its bytes.
Opened(n, i) ==
  LET slot == LazyChild(n, i)
  IN [n EXCEPT !.kids[i] = slot, !.raised = slot.state = "undone"]

Unwrapped(node) ==
  LET ty == node.ty.of[1]
  IN IF Refused(ty, node.con[1]) THEN [node EXCEPT !.raised = TRUE]
     ELSE [node EXCEPT !.parsed = TRUE, !.kids = <<Built(Build(ty, node.con[1]))>>]

Open(node, i) ==
  CASE Structured(node.ty) -> Opened(Children(node), i)
    [] node.ty.kind = "octets" /\ ~node.parsed -> Unwrapped(node)
    [] OTHER -> node

\* A new child shows in the native value if there is one.
Shown(node, made) == IF node.nat = <<>> THEN made ELSE NativeOf(made)

\* Mutant: the cached native value is not kept up
SeqWithOnly(n, i, kid) ==
  LET Kept == Alone(IF n.nat[1][i].shared THEN NatOf(Kid(n, i)) ELSE n.nat[1][i].plain)
  IN [n EXCEPT !.kids[i] = Built(kid), !.mut = TRUE,
               !.nat = IF n.nat = <<>> THEN <<>> ELSE <<[n.nat[1] EXCEPT ![i] = Kept]>>]

\* Sequence.__setitem__: the child, its native value and the mark.
SeqWith(n, i, kid) ==
  [n EXCEPT !.kids[i] = Built(kid), !.mut = TRUE,
            !.nat = IF n.nat = <<>> THEN <<>> ELSE <<[n.nat[1] EXCEPT ![i] = Entry(kid)]>>]

SeqPut(node, i, v) == SeqWith(Children(node), i, Shown(node, MakeField(node.ty, i, v)))

\* Sequence.__delitem__: an optional field is void, a defaulted one set to
\* its default.
SeqWithout(n, i) ==
  [n EXCEPT !.kids[i] = Gone, !.mut = TRUE,
            !.nat = IF n.nat = <<>> THEN <<>> ELSE <<[n.nat[1] EXCEPT ![i] = Alone(Void)]>>]

SeqDelete(node, i) ==
  IF Mode(node.ty, i) = "default" THEN SeqPut(node, i, Num(Default))
  ELSE SeqWithout(Children(node), i)

\* SequenceOf.__setitem__, at an index in the list or just after its end.
Placed(s, i, x) == IF i = Len(s) + 1 THEN Append(s, x) ELSE [s EXCEPT ![i] = x]

ListWith(n, i, kid) ==
  [n EXCEPT !.kids = Placed(@, i, Built(kid)), !.mut = TRUE,
            !.nat = IF n.nat = <<>> THEN <<>> ELSE <<Placed(n.nat[1], i, Entry(kid))>>]

ListPut(node, i, v) == ListWith(Children(node), i, Shown(node, MakeElement(node.ty, v)))

ListAppend(node, v) == ListPut(node, Len(Children(node).kids) + 1, v)

\* SequenceOf.__delitem__.
ListWithout(n, i) ==
  [n EXCEPT !.kids = RemoveAt(@, i), !.mut = TRUE,
            !.nat = IF n.nat = <<>> THEN <<>> ELSE <<RemoveAt(n.nat[1], i)>>]

ListDelete(node, i) == ListWithout(Children(node), i)

\* set() of an integer, and of an octet string, which keeps what its old
\* bytes were decoded to.
SetInt(node, v) == [node EXCEPT !.val = v.val, !.hdr = <<>>]
SetOctets(node, v) == [node EXCEPT !.con = <<Der(node.ty.of[1], v.parts[1])>>, !.hdr = <<>>]

\* An edit is [what, at, v]; what it does to an object and to a plain value.
Applied(node, e) ==
  CASE e.what = "set" -> IF node.ty.kind = "int" THEN SetInt(node, e.v) ELSE SetOctets(node, e.v)
    [] e.what = "put" -> IF node.ty.kind = "seq" THEN SeqPut(node, e.at, e.v)
                         ELSE ListPut(node, e.at, e.v)
    [] e.what = "append" -> ListAppend(node, e.v)
    [] e.what = "delete" -> IF node.ty.kind = "seq" THEN SeqDelete(node, e.at)
                            ELSE ListDelete(node, e.at)
    [] e.what = "native" -> NativeOf(node)
    [] e.what \in {"dump", "force"} -> Dump(node, e.what = "force").node
    [] e.what = "read" -> node

Method(name, a, b) ==
  CASE name = "make" -> Made(a, b)
    [] name = "contents" -> ContentsNow(a)
    [] name = "dump" -> Dumped(a, b)
    [] name = "native" -> WithNative(a)
    [] name = "copy" -> Copied(a)
    [] name = "apply" -> Applied(a, b)

Written(ty, plain, e) ==
  CASE e.what = "set" -> e.v
    [] e.what = "put" -> Parts([plain.parts EXCEPT ![e.at] = e.v])
    [] e.what = "append" -> Parts(Append(plain.parts, e.v))
    [] e.what = "delete" /\ ty.kind = "list" -> Parts(RemoveAt(plain.parts, e.at))
    [] e.what = "delete" /\ ty.kind # "list" ->
         Parts([plain.parts EXCEPT ![e.at] = IF Mode(ty, e.at) = "default" THEN Num(Default)
                                             ELSE Void])
    [] OTHER -> plain

RECURSIVE Edited(_, _, _), Rewritten(_, _, _, _), TypeAt(_, _), Paths(_, _), Apart(_, _),
          PlainAt(_, _), WasParsed(_, _), Outgrown(_), Legible(_)

WithKid(n, i, kid) == [n EXCEPT !.kids[i] = Built(Calm(kid)), !.raised = kid.raised]

EditedAt(n, path, e) ==
  IF n.raised THEN n ELSE WithKid(n, path[1], Edited(Kid(n, path[1]), Tail(path), e))

Edited(node, path, e) ==
  IF path = <<>> THEN Apply(node, e) ELSE EditedAt(Open(node, path[1]), path, e)

Rewritten(ty, plain, path, e) ==
  IF path = <<>> THEN Written(ty, plain, e)
  ELSE Parts([plain.parts EXCEPT ![Head(path)] =
                Rewritten(Field(ty, Head(path)), plain.parts[Head(path)], Tail(path), e)])

TypeAt(ty, path) ==
  IF path = <<>> THEN ty ELSE TypeAt(Field(ty, Head(path)), Tail(path))

PlainAt(plain, path) ==
  IF path = <<>> THEN plain ELSE PlainAt(plain.parts[Head(path)], Tail(path))

WasParsed(node, path) ==
  IF path = <<>> THEN node.parsed
  ELSE WasParsed(Kid(Open(node, Head(path)), Head(path)), Tail(path))

\* The paths to what is there.
Paths(ty, plain) ==
  {<<>>} \cup UNION {{<<i>> \o p : p \in Paths(Field(ty, i), plain.parts[i])} :
                     i \in {j \in DOMAIN plain.parts : plain.parts[j] # Void}}

\* The calls an object of a type and value takes.
Edits(ty, plain) ==
  LET E(what, at, vs) == {[what |-> what, at |-> at, v |-> v] : v \in vs}
  IN CASE ty.kind \in {"int", "octets"} -> E("set", 0, Samples(ty))
       [] ty.kind = "choice" -> {}
       [] ty.kind = "seq" ->
            UNION {E("put", i, Samples(ty.of[i])) : i \in DOMAIN ty.of}
            \cup UNION {E("delete", i, {Void}) : i \in {j \in DOMAIN ty.of : ty.mode[j] # "must"}}
       [] ty.kind = "list" ->
            E("append", 0, Samples(ty.of[1]))
            \cup UNION {E("put", i, Samples(ty.of[1])) \cup E("delete", i, {Void}) :
                        i \in DOMAIN plain.parts}

Looks == {[what |-> what, at |-> 0, v |-> Void] : what \in {"read", "native", "dump", "force"}}

\* A change no structure notices: set() on a child, and any edit beneath a
\* Choice or in a decoded octet string, where dump() may change the encoding
\* too (what was not DER becomes shorter).
Aside(ty, path, e) ==
  \/ e.what = "set" /\ path # <<>>
  \/ /\ e.what \notin {"read", "native"}
     /\ \E n \in 0 .. Len(path) - 1 : ~Structured(TypeAt(ty, SubSeq(path, 1, n)))

\* Some structure on the way holds a native value that stands alone.
Apart(node, path) ==
  /\ path # <<>>
  /\ \/ node.nat # <<>> /\ ~node.nat[1][Head(path)].shared
     \/ Apart(Kid(Open(node, Head(path)), Head(path)), Tail(path))

\* The header kept in front of an alternative no longer states its length:
\* after a change beneath it, or because its own header ends in 80 and it is
\* encoded again, shorter.
Outgrown(node) ==
  \/ /\ node.ty.kind = "choice" /\ node.hdr # <<>> /\ ~LooksIndefinite(node)
     /\ node.hdr[1].len # Size(Dump(Kid(node, 1), FALSE).enc)
  \/ \E i \in DOMAIN node.kids : node.kids[i].state = "built" /\ Outgrown(Kid(node, i))

\* The bytes still to be decoded have headers that state their lengths.
Legible(node) ==
  /\ ~node.parsed => \A i \in DOMAIN node.con : Fits(node.con[i])
  /\ \A i \in DOMAIN node.kids :
       CASE node.kids[i].state = "built" -> Legible(Kid(node, i))
         [] node.kids[i].state = "undone" -> Fits(node.kids[i].enc)
         [] OTHER -> TRUE

-----------------------------------------------------------------------------
VARIABLES obj,       \* "orig" and, once made, "copy", as sequences of 0 or 1
          loaded,    \* the bytes the original came from
          value,     \* what was loaded and written since
          past,      \* of each object: touched, aside, apart, lost
          calls      \* how many were made

vars == <<obj, loaded, value, past, calls>>

Objects == {"orig", "copy"}
Untouched == [touched |-> FALSE, aside |-> FALSE, apart |-> FALSE, lost |-> FALSE]

\* load(): the first layout's header outside, the second's within.
Init ==
  \E ty \in Types, layout \in Layouts :
    \E plain \in Samples(ty) :
      /\ loaded = Encode(ty, plain, layout[1], layout[2])
      /\ ~Refused(ty, loaded)
      /\ obj = [o \in Objects |-> IF o = "orig" THEN <<Build(ty, loaded)>> ELSE <<>>]
      /\ value = [o \in Objects |-> IF o = "orig" THEN plain ELSE Void]
      /\ past = [o \in Objects |-> Untouched]
      /\ calls = 0

\* A call at the end of a path that did not raise.  Bytes set to an octet
\* string after it was decoded are lost at the next forced dump.
Returned(o, path, e) ==
  LET node == obj[o][1]
      whole == path = <<>> /\ (e.what = "force" \/ (e.what = "dump" /\ LooksIndefinite(node)))
      edit == e.what \in {"set", "put", "append", "delete"}
  IN [past[o] EXCEPT
        !.touched = @ \/ edit \/ e.what = "force" \/ whole,
        !.aside = (@ /\ ~whole) \/ Aside(node.ty, path, e) \/ Outgrown(obj'[o][1]),
        !.apart = @ \/ (edit /\ Apart(node, path)),
        !.lost = @ \/ /\ e.what = "set" /\ TypeAt(node.ty, path).kind = "octets"
                      /\ WasParsed(node, path)]

\* One that raises has written nothing, whatever it decoded, or encoded again,
\* before.
Leaves(o, path, e, after) ==
  /\ obj' = [obj EXCEPT ![o] = <<Calm(after)>>]
  /\ past' = [past EXCEPT ![o] =
                 IF after.raised THEN [@ EXCEPT !.aside = @ \/ Outgrown(obj'[o][1])]
                 ELSE Returned(o, path, e)]
  /\ value' = [value EXCEPT ![o] =
                 CASE past'[o].lost -> Live(obj'[o][1])
                   [] ~past'[o].lost /\ after.raised -> @
                   [] OTHER -> Rewritten(obj'[o][1].ty, @, path, e)]
  /\ UNCHANGED loaded

Call(o, path, e) == Leaves(o, path, e, Edited(obj[o][1], path, e))

\* copy(): what was not noticed does not reach the copy, or reaches it behind
\* a header of another length.
Copy ==
  LET node == obj["orig"][1]
      new == CopyOf(node)
      was == past["orig"]
  IN /\ obj["copy"] = <<>>
     /\ obj' = [o \in Objects |->
                  CASE o = "orig" -> <<Calm(Contents(node))>>
                    [] o = "copy" /\ ~new.raised -> <<new>>
                    [] OTHER -> <<>>]
     /\ value' = [value EXCEPT !["copy"] =
                    CASE new.raised -> @
                      [] ~new.raised /\ (was.aside \/ was.lost) -> Live(new)
                      [] OTHER -> value["orig"]]
     /\ past' = IF new.raised THEN past
                ELSE [past EXCEPT !["copy"] =
                        [touched |-> TRUE, aside |-> FALSE, apart |-> was.apart,
                         lost |-> was.aside \/ was.lost]]
     /\ UNCHANGED loaded

Next ==
  /\ calls < MaxCalls
  /\ calls' = calls + 1
  /\ \/ Copy
     \/ \E o \in Objects : obj[o] # <<>> /\ Legible(obj[o][1]) /\
          LET ty == obj[o][1].ty
              live == Live(obj[o][1])
          IN \E path \in Paths(ty, live) :
               \E e \in Looks \cup Edits(TypeAt(ty, path), PlainAt(live, path)) : Call(o, path, e)

Spec == Init /\ [][Next]_vars

-----------------------------------------------------------------------------
(* Properties *)

RECURSIVE CachesOK(_), HoldsRefused(_)

\* A cached native value has an entry for each child, and an entry that is
\* shared belongs to a child that was built.
CachesOK(node) ==
  /\ node.nat # <<>> =>
       /\ Len(node.nat[1]) = Len(IF node.parsed THEN node.kids ELSE node.con)
       /\ \A i \in DOMAIN node.nat[1] :
            node.nat[1][i].shared => node.parsed /\ node.kids[i].state = "built"
  /\ \A i \in DOMAIN node.kids : node.kids[i].state = "built" =>
       /\ node.kids[i].node[1].ty = Field(node.ty, i)
       /\ CachesOK(Kid(node, i))

\* Every object is of a loaded type, no call is left raising in it, and the
\* native values cached in it stay in step with the children whatever is put,
\* deleted and appended, and wherever a call raised.
TypeOK ==
  /\ \A o \in Objects : obj[o] # <<>> =>
       obj[o][1].ty \in Types /\ ~obj[o][1].raised /\ CachesOK(obj[o][1])
  /\ past \in [Objects -> [touched : BOOLEAN, aside : BOOLEAN, apart : BOOLEAN,
                           lost : BOOLEAN]]
  /\ calls \in 0 .. MaxCalls

\* There is a refused alternative in what reading everything would decode.
HoldsRefused(node) ==
  LET deep == {"seq", "list", "choice"}
  IN IF ~node.parsed
     THEN Structured(node.ty) /\ \E i \in DOMAIN node.con :
            RefusedWithin(Field(node.ty, i), node.con[i], deep)
     ELSE \E i \in DOMAIN node.kids :
            CASE node.kids[i].state = "built" -> HoldsRefused(Kid(node, i))
              [] node.kids[i].state = "undone" ->
                   RefusedWithin(Field(node.ty, i), node.kids[i].enc, deep)
              [] OTHER -> FALSE

\* Reading a field gives what was loaded or last written there, in the object
\* and in its copy, however many fields were decoded, dumped or copied since
\* and wherever a call raised: decoding on demand never undoes an edit, no edit
\* reaches the other, and a refused field keeps its bytes until it is written.
AccessorsExact ==
  /\ TypeOK
  /\ \A o \in Objects : obj[o] # <<>> => Live(obj[o][1]) = value[o]

Stands(ty, enc, plain) == Fits(enc) /\ Meaning(ty, enc) = plain

\* dump() encodes what was written if every edit was made through the
\* structures (not by set() on a child, beneath a Choice, or in what an
\* octet string was decoded to, which dump() does not notice), and no
\* alternative outgrew the header kept before it (Outgrown); it raises only
\* for a refused alternative.  What was only read, turned into native values,
\* dumped and copied, or where that raised, dumps to the bytes it was loaded
\* from, BER and all: the bytes a signature is over.  But a header that ends
\* in 80, of indefinite length or not, is encoded again, as DER.
DumpExact ==
  /\ \A o \in Objects : obj[o] # <<>> /\ ~past[o].aside /\ ~past[o].lost =>
       LET d == Dump(obj[o][1], FALSE)
       IN IF d.node.raised THEN HoldsRefused(obj[o][1])
          ELSE Stands(obj[o][1].ty, d.enc, value[o])
  /\ ~past["orig"].touched =>
       LET d == Dump(obj["orig"][1], FALSE)
       IN IF loaded.form = "indefinite" \/ loaded.len % 256 = 128
          THEN d.node.raised \/ IsDer(obj["orig"][1].ty, d.enc)
          ELSE ~d.node.raised /\ d.enc = loaded

\* dump(force=True) is DER and encodes every edit, the unnoticed ones too,
\* except bytes set to an octet string that was decoded before.  It raises
\* exactly if a refused alternative is left in the tree.
ForcedExact ==
  \A o \in Objects : obj[o] # <<>> /\ ~past[o].lost =>
    LET d == Dump(obj[o][1], TRUE)
    IN IF HoldsRefused(obj[o][1]) THEN d.node.raised
       ELSE /\ ~d.node.raised
            /\ Stands(obj[o][1].ty, d.enc, value[o]) /\ IsDer(obj[o][1].ty, d.enc)

\* native is the value written, unless an edit was made to a child whose
\* native value the parent holds apart: an integer that was set() after the
\* parent's native was asked for, an octet string decoded after it, or
\* anything inside a copy whose original had a native value.  It raises exactly
\* if a refused alternative is left in the tree.
NativeExact ==
  \A o \in Objects : obj[o] # <<>> /\ ~past[o].apart /\ ~past[o].lost =>
    LET n == NativeOf(obj[o][1])
    IN IF HoldsRefused(obj[o][1]) THEN n.raised ELSE ~n.raised /\ NatOf(n) = value[o]

\* load() "Loads a BER/DER-encoded byte string" (core.py:210, and :1048 for a
\* Choice): what it took can be read.
LoadedIsRead == \A o \in Objects : obj[o] # <<>> => ~NativeOf(obj[o][1]).raised

\* dump() of a Choice returns "A byte string of the DER-encoded value"
\* (core.py:1334): one whose headers state the lengths of what follows.
DumpFits == \A o \in Objects : obj[o] # <<>> => Fits(Dump(obj[o][1], FALSE).enc)

=============================================================================
