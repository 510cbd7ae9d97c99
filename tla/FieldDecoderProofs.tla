--------------------------- MODULE FieldDecoderProofs ---------------------------
(***************************************************************************)
(* What is read of a structure, for every catalogue of well-formed types:  *)
(* nothing that arrived is lost, nothing required is missing, and what was *)
(* written undamaged is read as it was written.                            *)
(***************************************************************************)
EXTENDS FieldDecoder, Integers, FiniteSetTheorems, SequenceTheorems, TLAPS

(***************************************************************************)
(* Induction over numbers, for a set instead of a predicate.               *)
(***************************************************************************)

Less == {p \in Nat \X Nat : p[1] < p[2]}

LEMMA LessWellFounded == IsWellFoundedOn(Less, Nat)
<1>1. IsWellFoundedOn(OpToRel(<, Nat), Nat)
  BY NatLessThanWellFounded
<1>2. OpToRel(<, Nat) = Less
  BY DEF OpToRel, Less
<1>. QED  BY <1>1, <1>2

LEMMA LeastOf ==
    ASSUME NEW S, S \subseteq Nat, S # {}
    PROVE  \E n \in S : \A m \in S : n =< m
<1>1. \E n \in S : \A m \in S : ~(<<m, n>> \in Less)
  BY LessWellFounded, WFMin
<1>2. PICK n \in S : \A m \in S : ~(<<m, n>> \in Less)
  BY <1>1
<1>3. \A m \in S : ~(m < n)
  BY <1>2 DEF Less
<1>. QED  BY <1>2, <1>3

LEMMA Induction ==
    ASSUME NEW S, 0 \in S, \A n \in Nat : n \in S => n + 1 \in S
    PROVE  Nat \subseteq S
<1>. SUFFICES ASSUME NEW k \in Nat \ S PROVE FALSE
  OBVIOUS
<1>. DEFINE U == Nat \ S
<1>1. PICK n \in U : \A m \in U : n =< m
  <2>1. U \subseteq Nat /\ U # {}
    OBVIOUS
  <2>. HIDE DEF U
  <2>. QED  BY <2>1, LeastOf
<1>2. n \in Nat /\ n # 0 /\ n - 1 \in Nat
  BY <1>1
<1>3. n - 1 \in S
  BY <1>1, <1>2
<1>. QED  BY <1>1, <1>2, <1>3

\* A set of numbers with a bound has a largest.
LEMMA LastExists ==
    ASSUME NEW n \in Nat, NEW S, S \subseteq 1..n, S # {}
    PROVE  LastOf(S) \in S /\ \A j \in S : j =< LastOf(S)
<1>. DEFINE Up == {n - i : i \in S}
<1>1. Up \subseteq Nat /\ Up # {}
  <2>1. PICK s \in S : TRUE
    OBVIOUS
  <2>2. n - s \in Up
    BY <2>1
  <2>. QED  BY <2>2
<1>2. PICK u \in Up : \A v \in Up : u =< v
  <2>. HIDE DEF Up
  <2>. QED  BY <1>1, LeastOf
<1>3. PICK i \in S : u = n - i
  BY <1>2
<1>4. \A j \in S : n - j \in Up
  OBVIOUS
<1>5. \A j \in S : j =< i
  BY <1>2, <1>3, <1>4
<1>. QED  BY <1>3, <1>5 DEF LastOf

LEMMA LastOfOne == ASSUME NEW k \in Nat PROVE LastOf({k}) = k
<1>. DEFINE S == {k}
<1>1. k \in S /\ \A j \in S : j =< k
  OBVIOUS
<1>2. \A i \in S : i = k
  OBVIOUS
<1>. HIDE DEF S
<1>3. LastOf(S) \in S
  BY <1>1 DEF LastOf
<1>. QED  BY <1>2, <1>3 DEF S

-----------------------------------------------------------------------------
(* The place of an element among those that are there.                     *)

LEMMA PlaceStep ==
    ASSUME NEW w, NEW n \in Nat
    PROVE  /\ Place(w, 0) = 0
           /\ Place(w, n) \in Nat
           /\ Place(w, n + 1) = Place(w, n) + (IF w[n + 1] # Void THEN 1 ELSE 0)
<1>. DEFINE There(k) == {i \in 1..k : w[i] # Void}
<1>1. \A k \in Nat : IsFiniteSet(There(k))
  <2>. SUFFICES ASSUME NEW k \in Nat PROVE IsFiniteSet(There(k))
    OBVIOUS
  <2>1. IsFiniteSet(1..k)
    BY FS_Interval
  <2>. QED  BY <2>1, FS_Subset
<1>2. There(0) = {}
  OBVIOUS
<1>3. There(n + 1) = IF w[n + 1] # Void THEN There(n) \cup {n + 1} ELSE There(n)
  OBVIOUS
<1>4. n + 1 \notin There(n)
  OBVIOUS
<1>. HIDE DEF There
<1>5. Cardinality(There(0)) = 0 /\ Cardinality(There(n)) \in Nat
  BY <1>1, <1>2, FS_EmptySet, FS_CardinalityType
<1>6. Cardinality(There(n + 1)) = Cardinality(There(n)) + (IF w[n + 1] # Void THEN 1 ELSE 0)
  BY <1>1, <1>3, <1>4, <1>5, FS_AddElement
<1>. QED  BY <1>5, <1>6 DEF Place, There

LEMMA PlaceMono ==
    ASSUME NEW w, NEW m \in Nat, NEW n \in Nat, m =< n
    PROVE  Place(w, m) =< Place(w, n)
<1>1. IsFiniteSet({i \in 1..n : w[i] # Void})
  <2>1. IsFiniteSet(1..n)
    BY FS_Interval
  <2>. QED  BY <2>1, FS_Subset
<1>2. {i \in 1..m : w[i] # Void} \in SUBSET {i \in 1..n : w[i] # Void}
  OBVIOUS
<1>. QED  BY <1>1, <1>2, FS_Subset DEF Place

\* Different elements have different places, in their order.
LEMMA PlaceStrict ==
    ASSUME NEW w, NEW m \in Nat, NEW n \in Nat, m < n, w[n] # Void
    PROVE  Place(w, m) < Place(w, n)
<1>1. n - 1 \in Nat /\ m =< n - 1 /\ (n - 1) + 1 = n
  OBVIOUS
<1>2. Place(w, m) =< Place(w, n - 1)
  BY <1>1, PlaceMono
<1>3. Place(w, n) = Place(w, n - 1) + 1 /\ Place(w, n - 1) \in Nat
  BY <1>1, PlaceStep
<1>4. Place(w, m) \in Nat
  BY PlaceStep
<1>. QED  BY <1>2, <1>3, <1>4

LEMMA PlaceSame ==
    ASSUME NEW w, NEW v, NEW n, \A i \in 1..n : w[i] = v[i]
    PROVE  Place(w, n) = Place(v, n)
<1>1. {i \in 1..n : w[i] # Void} = {i \in 1..n : v[i] # Void}
  OBVIOUS
<1>. QED  BY <1>1 DEF Place

Filled(w, n) == \A k \in 1..Place(w, n) : \E i \in 1..n : w[i] # Void /\ Place(w, i) = k

\* Every place up to the number of elements is the place of one.
LEMMA PlaceFilled ==
    ASSUME NEW w, NEW n \in Nat
    PROVE  Filled(w, n)
<1>. DEFINE S == {m \in Nat : Filled(w, m)}
<1>1. 0 \in S
  BY PlaceStep DEF Filled
<1>2. ASSUME NEW m \in Nat, m \in S PROVE m + 1 \in S
  <2>. SUFFICES ASSUME NEW k \in 1..Place(w, m + 1)
                PROVE  \E i \in 1..(m + 1) : w[i] # Void /\ Place(w, i) = k
    BY <1>2 DEF Filled
  <2>1. /\ Place(w, m) \in Nat
        /\ Place(w, m + 1) = Place(w, m) + (IF w[m + 1] # Void THEN 1 ELSE 0)
    BY PlaceStep
  <2>2. CASE k \in 1..Place(w, m)
    <3>1. PICK i \in 1..m : w[i] # Void /\ Place(w, i) = k
      BY <1>2, <2>2 DEF Filled
    <3>. QED  BY <3>1
  <2>3. CASE k \notin 1..Place(w, m)
    <3>1. w[m + 1] # Void /\ k = Place(w, m + 1)
      BY <2>1, <2>3
    <3>2. m + 1 \in 1..(m + 1)
      OBVIOUS
    <3>. QED  BY <3>1, <3>2
  <2>. QED  BY <2>2, <2>3
<1>3. Nat \subseteq S
  <2>. HIDE DEF S
  <2>. QED  BY <1>1, <1>2, Induction
<1>. QED  BY <1>3

-----------------------------------------------------------------------------
(* The elements that are there.                                            *)

\* The provers do not know that the literals are strings.
Words == STRING \cup {"", "another"}
Elements == [id : Ids \cup {<<>>}, says : Words, code : Nat]
Real == Elements \ {Void}

LEMMA ElementType ==
    ASSUME NEW id \in Ids, NEW says \in Words, NEW code \in Nat
    PROVE  Element(id, says, code) \in Real
<1>1. id # <<>>
  BY DEF Ids
<1>. QED  BY <1>1 DEF Element, Elements, Void, Real

LEMMA VoidType == Void \in Elements
  BY DEF Void, Element, Elements, Words

LEMMA PresentFacts ==
    ASSUME NEW w \in Seq(Elements)
    PROVE  /\ Present(w) \in Seq(Real)
           /\ Len(Present(w)) = Place(w, Len(w))
           /\ \A i \in 1..Len(w) : w[i] # Void =>
                 Place(w, i) \in 1..Len(Present(w)) /\ Present(w)[Place(w, i)] = w[i]
           /\ \A k \in 1..Len(Present(w)) : \E i \in 1..Len(w) :
                 w[i] # Void /\ Place(w, i) = k /\ Present(w)[k] = w[i]
<1>. DEFINE n == Place(w, Len(w))
            at(k) == CHOOSE i \in DOMAIN w : w[i] # Void /\ Place(w, i) = k
<1>1. Len(w) \in Nat /\ DOMAIN w = 1..Len(w) /\ n \in Nat
  BY PlaceStep
<1>2. \A k \in 1..n : \E i \in DOMAIN w : w[i] # Void /\ Place(w, i) = k
  BY <1>1, PlaceFilled DEF Filled
<1>3. \A k \in 1..n : at(k) \in DOMAIN w /\ w[at(k)] # Void /\ Place(w, at(k)) = k
  BY <1>2
<1>4. Present(w) = [k \in 1..n |-> w[at(k)]]
  BY DEF Present
<1>. HIDE DEF n, at
<1>5. \A k \in 1..n : w[at(k)] \in Real
  BY <1>1, <1>3 DEF Real
<1>6. Present(w) \in Seq(Real) /\ Len(Present(w)) = n
  BY <1>1, <1>4, <1>5
<1>7. ASSUME NEW i \in 1..Len(w), w[i] # Void
      PROVE  Place(w, i) \in 1..n /\ Present(w)[Place(w, i)] = w[i]
  <2>1. Place(w, i) \in Nat /\ Place(w, 0) = 0 /\ Place(w, 0) < Place(w, i)
    BY <1>1, <1>7, PlaceStep, PlaceStrict
  <2>2. Place(w, i) =< n
    BY <1>1, PlaceMono DEF n
  <2>3. Place(w, i) \in 1..n
    BY <1>1, <2>1, <2>2
  <2>4. at(Place(w, i)) = i
    <3>1. at(Place(w, i)) \in 1..Len(w) /\ w[at(Place(w, i))] # Void
          /\ Place(w, at(Place(w, i))) = Place(w, i)
      BY <1>1, <1>3, <2>3
    <3>2. ~(at(Place(w, i)) < i) /\ ~(i < at(Place(w, i)))
      BY <1>1, <1>7, <2>1, <3>1, PlaceStrict
    <3>. QED  BY <1>1, <3>1, <3>2
  <2>. QED  BY <1>4, <2>3, <2>4
<1>8. ASSUME NEW k \in 1..n
      PROVE  \E i \in 1..Len(w) : w[i] # Void /\ Place(w, i) = k /\ Present(w)[k] = w[i]
  BY <1>1, <1>3, <1>4, <1>8
<1>. QED  BY <1>6, <1>7, <1>8 DEF n

-----------------------------------------------------------------------------
(* The invariant.                                                          *)

IsStructure == type.kind \in {"fields", "fieldset"}

\* Some choice of what the OID says gives every element an identifier that its
\* field can have.
WrittenAs(says) ==
    \A i \in 1..Count : written[i] # Void =>
       /\ written[i].id \in IdsOf(SpecUnder(type, i, says))
       /\ written[i].says = Says(type, i, says)

WrittenShape ==
    /\ written \in Seq(Elements)
    /\ type.kind # "named" => Len(written) = Count
    /\ IsStructure =>
         /\ \A i \in 1..Count : written[i] = Void => MayBeAbsent(type.fields[i])
         /\ \E says \in DOMAIN type.specs \cup {"", "another"} : WrittenAs(says)
    /\ type.kind = "choice" =>
         \E a \in 1..Count :
            /\ written[a] # Void /\ written[a].id \in IdsOf(type.fields[a].type)
            /\ \A i \in 1..Count : i # a => written[i] = Void
    /\ type.kind = "named" =>
         \E c \in DOMAIN type.names, id \in type.ids : written = <<Element(id, type.names[c], c)>>

WireShape ==
    /\ contents \in Seq(Real)
    /\ damage = "none" /\ phase \notin {"made", "raised"} =>
         contents = Present(written) /\ ~Unwritable(type, written)
    /\ damage # "none" => IsStructure

\* The children so far are the elements up to pointer, in their order.
InPlace ==
    /\ pointer = Place(children, Len(children))
    /\ \A i \in 1..Len(children) : children[i] # Void =>
          children[i] = contents[Place(children, i)]

ChildShape ==
    /\ type.kind # "named" => children \in Seq(Elements)
    /\ phase = "parsed" => type.kind # "named"
    /\ phase \in {"made", "sent"} => children = <<>> /\ pointer = 0
    /\ phase = "parsing" /\ type.kind # "fields" => children = <<>> /\ pointer = 0
    /\ phase \in {"made", "sent", "parsing"} => built = 0
    /\ type.kind = "fields" => InPlace
    /\ IsStructure => \A i \in 1..Count : i =< Len(children) /\ children[i] = Void =>
                        MayBeAbsent(type.fields[i])
    /\ phase \in {"parsed", "built"} =>
         /\ IsStructure => Count =< Len(children)
         /\ type.kind = "fields" => pointer = Len(contents)

BuiltShape ==
    type.kind # "named" =>
      /\ \A i \in 1..built : Builds(i)
      /\ phase = "built" => built = Len(children)

DecoderInv ==
    /\ \E n \in DOMAIN Catalog : type = Catalog[n]
    /\ TypeOK
    /\ WrittenShape /\ WireShape /\ ChildShape /\ BuiltShape

-----------------------------------------------------------------------------

LEMMA FunctionIsSeq ==
    ASSUME NEW S, NEW n \in Nat, NEW s \in [1..n -> S]
    PROVE  s \in Seq(S) /\ Len(s) = n
  OBVIOUS

LEMMA TypeFacts ==
    ASSUME \E n \in DOMAIN Catalog : type = Catalog[n]
    PROVE  /\ WellFormed(type) /\ (Known(type) => Unambiguous(type))
           /\ Count \in Nat /\ DOMAIN type.fields = 1..Count
           /\ Len(type.names) \in Nat /\ DOMAIN type.names = 1..Len(type.names)
<1>1. WellFormed(type) /\ (Known(type) => Unambiguous(type))
  BY CatalogAssumption
<1>. QED  BY <1>1 DEF WellFormed, IsList, FieldsOf, Count

\* A field has an identifier whatever the OID says.
LEMMA SpecIds ==
    ASSUME NEW t, WellFormed(t), NEW i \in DOMAIN t.fields, NEW says
    PROVE  /\ IdsOf(SpecUnder(t, i, says)) \subseteq Ids
           /\ IdsOf(SpecUnder(t, i, says)) # {}
<1>1. SpecUnder(t, i, says).ids \subseteq Ids
  BY DEF WellFormed, SpecUnder
<1>. QED  BY <1>1, CatalogAssumption DEF IdsOf

LEMMA StructureInit ==
    ASSUME \E n \in DOMAIN Catalog : type = Catalog[n], WritesStructure(type), IsStructure
    PROVE  WrittenShape
<1>. DEFINE t == type
<1>1. PICK absent \in SUBSET {i \in DOMAIN t.fields : MayBeAbsent(t.fields[i])},
           says \in IF t.pair = <<>> THEN {""} ELSE DOMAIN t.specs \cup {"another"},
           focus \in DOMAIN t.fields :
        \E id \in IdsOf(SpecUnder(t, focus, says)) : written = [i \in DOMAIN t.fields |->
                     IF i \in absent THEN Void
                     ELSE Element(IF i = focus THEN id
                                  ELSE CHOOSE other \in IdsOf(SpecUnder(t, i, says)) : TRUE,
                                  Says(t, i, says), 0)]
  BY DEF WritesStructure
<1>0. PICK id \in IdsOf(SpecUnder(t, focus, says)) :
        written = [i \in DOMAIN t.fields |->
                     IF i \in absent THEN Void
                     ELSE Element(IF i = focus THEN id
                                  ELSE CHOOSE other \in IdsOf(SpecUnder(t, i, says)) : TRUE,
                                  Says(t, i, says), 0)]
  BY <1>1
<1>. DEFINE own(i) == IF i = focus THEN id ELSE CHOOSE other \in IdsOf(SpecUnder(t, i, says)) : TRUE
            e(i) == IF i \in absent THEN Void ELSE Element(own(i), Says(t, i, says), 0)
<1>2. WellFormed(t) /\ Count \in Nat /\ DOMAIN t.fields = 1..Count
  BY TypeFacts
<1>3. \A i \in 1..Count : own(i) \in IdsOf(SpecUnder(t, i, says)) /\ own(i) \in Ids
  <2>. SUFFICES ASSUME NEW i \in 1..Count
                PROVE  own(i) \in IdsOf(SpecUnder(t, i, says)) /\ own(i) \in Ids
    OBVIOUS
  <2>1. IdsOf(SpecUnder(t, i, says)) \subseteq Ids /\ IdsOf(SpecUnder(t, i, says)) # {}
    BY <1>2, SpecIds
  <2>2. own(i) \in IdsOf(SpecUnder(t, i, says))
    BY <2>1
  <2>. QED  BY <2>1, <2>2
<1>4. says \in Words /\ says \in DOMAIN t.specs \cup {"", "another"}
  BY <1>1, <1>2 DEF WellFormed, Words
<1>5. \A i \in 1..Count : Says(t, i, says) \in Words
  BY <1>4 DEF Says, Words
<1>6. written = [i \in 1..Count |-> e(i)]
  BY <1>0, <1>2
<1>. HIDE DEF own
<1>7. ASSUME NEW i \in 1..Count
      PROVE  /\ written[i] \in Elements
             /\ written[i] = Void <=> i \in absent
             /\ i \notin absent => written[i].id = own(i) /\ written[i].says = Says(t, i, says)
  <2>1. Element(own(i), Says(t, i, says), 0) \in Elements /\ Element(own(i), Says(t, i, says), 0) # Void
    BY <1>3, <1>5, ElementType DEF Real
  <2>2. /\ Element(own(i), Says(t, i, says), 0).id = own(i)
        /\ Element(own(i), Says(t, i, says), 0).says = Says(t, i, says)
    BY DEF Element
  <2>3. written[i] = e(i)
    BY <1>6
  <2>. QED  BY <2>1, <2>2, <2>3, VoidType
<1>8. written \in [1..Count -> Elements]
  <2>. HIDE DEF e
  <2>. QED  BY <1>6, <1>7
<1>9. written \in Seq(Elements) /\ Len(written) = Count
  BY <1>2, <1>8, FunctionIsSeq
<1>10. WrittenAs(says)
  BY <1>3, <1>7 DEF WrittenAs
<1>11. \A i \in 1..Count : written[i] = Void => MayBeAbsent(type.fields[i])
  BY <1>1, <1>7
<1>. QED  BY <1>4, <1>9, <1>10, <1>11 DEF WrittenShape, IsStructure

LEMMA ChoiceInit ==
    ASSUME \E n \in DOMAIN Catalog : type = Catalog[n], WritesChoice(type), type.kind = "choice"
    PROVE  WrittenShape
<1>1. WellFormed(type) /\ Count \in Nat /\ DOMAIN type.fields = 1..Count
  BY TypeFacts
<1>0. PICK a \in DOMAIN type.fields : \E id \in IdsOf(type.fields[a].type) :
        written = [i \in DOMAIN type.fields |-> IF i = a THEN Element(id, "", 0) ELSE Void]
  BY DEF WritesChoice
<1>2. PICK id \in IdsOf(type.fields[a].type) :
        written = [i \in DOMAIN type.fields |-> IF i = a THEN Element(id, "", 0) ELSE Void]
  BY <1>0
<1>3. id \in Ids
  BY <1>1, <1>2, CatalogAssumption DEF WellFormed, IdsOf
<1>4. "" \in Words /\ 0 \in Nat
  BY DEF Words
<1>5. Element(id, "", 0) \in Elements /\ Element(id, "", 0) # Void
  BY <1>3, <1>4, ElementType DEF Real
<1>6. Element(id, "", 0).id = id
  BY DEF Element
<1>7. written \in Seq(Elements) /\ Len(written) = Count
  <2>1. written \in [1..Count -> Elements]
    BY <1>1, <1>2, <1>5, VoidType
  <2>. QED  BY <1>1, <2>1, FunctionIsSeq
<1>8. /\ written[a] # Void /\ written[a].id \in IdsOf(type.fields[a].type)
      /\ \A i \in 1..Count : i # a => written[i] = Void
  BY <1>1, <1>2, <1>5, <1>6
<1>. QED  BY <1>1, <1>7, <1>8 DEF WrittenShape, IsStructure

LEMMA NameInit ==
    ASSUME \E n \in DOMAIN Catalog : type = Catalog[n], WritesName(type), type.kind = "named"
    PROVE  WrittenShape
<1>1. WellFormed(type) /\ DOMAIN type.names = 1..Len(type.names) /\ Len(type.names) \in Nat
  BY TypeFacts
<1>2. PICK c \in DOMAIN type.names, id \in type.ids : written = <<Element(id, type.names[c], c)>>
  BY DEF WritesName
<1>3. id \in Ids /\ c \in Nat
  BY <1>1 DEF WellFormed
<1>6. type.names[c] \in Words
  BY <1>1 DEF WellFormed, Words
<1>4. Element(id, type.names[c], c) \in Elements
  BY <1>3, <1>6, ElementType DEF Real
<1>5. written \in Seq(Elements)
  BY <1>2, <1>4
<1>. QED  BY <1>2, <1>5 DEF WrittenShape, IsStructure

LEMMA DecoderInit == Init => DecoderInv
<1>. SUFFICES ASSUME Init PROVE DecoderInv
  OBVIOUS
<1>1. \E n \in DOMAIN Catalog : type = Catalog[n]
  BY DEF Init
<1>2. WellFormed(type) /\ Count \in Nat
  BY <1>1, TypeFacts
<1>3. WrittenShape
  BY <1>1, <1>2, StructureInit, ChoiceInit, NameInit DEF Init, WellFormed, IsStructure
<1>4. TypeOK
  <2>1. Len(contents) = 0 /\ Len(children) = 0
    BY DEF Init
  <2>2. pointer = 0 /\ built = 0 /\ damage = "none" /\ phase = "made"
    BY DEF Init
  <2>3. damage \in Damages
    BY <2>2, DamageAssumption
  <2>4. pointer \in 0..Len(contents)
    BY <2>1, <2>2
  <2>5. built \in 0..Len(children)
    BY <2>1, <2>2
  <2>. QED  BY <2>2, <2>3, <2>4, <2>5 DEF TypeOK
<1>5. WireShape
  BY DEF Init, WireShape
<1>6. ChildShape
  BY <1>2, PlaceStep DEF Init, ChildShape, InPlace
<1>7. BuiltShape
  BY DEF Init, BuiltShape
<1>. QED  BY <1>1, <1>3, <1>4, <1>5, <1>6, <1>7 DEF DecoderInv

-----------------------------------------------------------------------------
(* The steps.  None changes the type or what was written.                  *)

LEMMA SameType ==
    ASSUME DecoderInv, type' = type, written' = written
    PROVE  /\ (\E n \in DOMAIN Catalog : type = Catalog[n])'
           /\ WrittenShape'
           /\ Count' = Count /\ Count \in Nat /\ DOMAIN type.fields = 1..Count
<1>1. \E n \in DOMAIN Catalog : type = Catalog[n]
  BY DEF DecoderInv
<1>2. Count' = Count /\ Count \in Nat /\ DOMAIN type.fields = 1..Count
  BY <1>1, TypeFacts DEF Count, FieldsOf
<1>3. WrittenShape'
  BY <1>2 DEF DecoderInv, WrittenShape, WrittenAs, IsStructure
<1>. QED  BY <1>1, <1>2, <1>3

LEMMA Lengths ==
    ASSUME DecoderInv
    PROVE  /\ contents \in Seq(Real) /\ Len(contents) \in Nat
           /\ pointer \in Nat /\ pointer =< Len(contents)
           /\ type.kind # "named" =>
                /\ children \in Seq(Elements) /\ Len(children) \in Nat
                /\ built \in Nat /\ built =< Len(children)
<1>1. contents \in Seq(Real) /\ (type.kind # "named" => children \in Seq(Elements))
  BY DEF DecoderInv, WireShape, ChildShape
<1>2. Len(contents) \in Nat /\ (type.kind # "named" => Len(children) \in Nat)
  BY <1>1
<1>. QED  BY <1>1, <1>2 DEF DecoderInv, TypeOK

LEMMA RefuseStep ==
    ASSUME DecoderInv, Refuse, phase \in {"parsing", "parsed"}
    PROVE  DecoderInv'
<1>1. UNCHANGED <<type, written, damage, contents, pointer, children, built>> /\ phase' = "refused"
  BY DEF Refuse
<1>2. (\E n \in DOMAIN Catalog : type = Catalog[n])' /\ WrittenShape' /\ Count' = Count
  BY <1>1, SameType
<1>3. TypeOK'
  BY <1>1 DEF DecoderInv, TypeOK
<1>4. WireShape'
  BY <1>1 DEF DecoderInv, WireShape, IsStructure
<1>5. ChildShape'
  BY <1>1, <1>2 DEF DecoderInv, ChildShape, InPlace, IsStructure
<1>6. BuiltShape'
  BY <1>1, <1>2 DEF DecoderInv, BuiltShape, Builds
<1>. QED  BY <1>2, <1>3, <1>4, <1>5, <1>6 DEF DecoderInv

LEMMA DumpStep ==
    ASSUME DecoderInv, CannotDump \/ Dump
    PROVE  DecoderInv'
<1>1. /\ UNCHANGED <<type, written, damage, pointer, children, built>>
      /\ phase = "made" /\ phase' \in {"sent", "raised"}
  BY DEF CannotDump, Dump
<1>2. (\E n \in DOMAIN Catalog : type = Catalog[n])' /\ WrittenShape' /\ Count' = Count
  BY <1>1, SameType
<1>3. Present(written) \in Seq(Real)
  BY PresentFacts DEF DecoderInv, WrittenShape
<1>4. contents' \in Seq(Real) /\ Len(contents') \in Nat
  BY <1>3, Lengths DEF CannotDump, Dump
<1>5. children = <<>> /\ pointer = 0 /\ built = 0 /\ Len(children) = 0
  BY <1>1 DEF DecoderInv, ChildShape
<1>6. TypeOK'
  BY <1>1, <1>4, <1>5 DEF DecoderInv, TypeOK
<1>7. WireShape'
  BY <1>1, <1>4 DEF DecoderInv, WireShape, IsStructure, CannotDump, Dump
<1>8. ChildShape'
  BY <1>1, <1>2, <1>5, PlaceStep DEF DecoderInv, ChildShape, InPlace, IsStructure
<1>9. BuiltShape'
  BY <1>1, <1>5 DEF DecoderInv, BuiltShape
<1>. QED  BY <1>2, <1>6, <1>7, <1>8, <1>9 DEF DecoderInv

\* Losing, doubling, exchanging and slipping in leave a sequence of elements.
LEMMA EditShape ==
    ASSUME NEW s \in Seq(Real)
    PROVE  /\ \A k \in DOMAIN s : Without(s, k) \in Seq(Real)
           /\ \A k \in 0..Len(s), e \in Real : Inserted(s, k, e) \in Seq(Real)
           /\ \A k \in 1..(Len(s) - 1) :
                [s EXCEPT ![k] = s[k + 1], ![k + 1] = s[k]] \in Seq(Real)
<1>1. ASSUME NEW m \in Int, NEW n \in Int, 1 =< m, n =< Len(s)
      PROVE  SubSeq(s, m, n) \in Seq(Real)
  <2>1. \A i \in m..n : s[i] \in Real
    BY <1>1
  <2>. QED  BY <2>1, SubSeqProperties
<1>2. ASSUME NEW k \in DOMAIN s PROVE Without(s, k) \in Seq(Real)
  <2>1. SubSeq(s, 1, k - 1) \in Seq(Real) /\ SubSeq(s, k + 1, Len(s)) \in Seq(Real)
    BY <1>1
  <2>. QED  BY <2>1, ConcatProperties DEF Without
<1>3. ASSUME NEW k \in 0..Len(s), NEW e \in Real PROVE Inserted(s, k, e) \in Seq(Real)
  <2>1. SubSeq(s, 1, k) \in Seq(Real) /\ SubSeq(s, k + 1, Len(s)) \in Seq(Real)
    BY <1>1
  <2>2. SubSeq(s, 1, k) \o <<e>> \in Seq(Real)
    BY <2>1, ConcatProperties
  <2>. QED  BY <2>1, <2>2, ConcatProperties DEF Inserted
<1>4. ASSUME NEW k \in 1..(Len(s) - 1)
      PROVE  [s EXCEPT ![k] = s[k + 1], ![k + 1] = s[k]] \in Seq(Real)
  <2>1. k \in 1..Len(s) /\ k + 1 \in 1..Len(s) /\ s[k] \in Real /\ s[k + 1] \in Real
    OBVIOUS
  <2>. DEFINE t == [s EXCEPT ![k] = s[k + 1]]
  <2>2. t \in Seq(Real) /\ Len(t) = Len(s)
    BY <2>1, ExceptSeq
  <2>. HIDE DEF t
  <2>3. [t EXCEPT ![k + 1] = s[k]] \in Seq(Real)
    BY <2>1, <2>2, ExceptSeq
  <2>. QED  BY <2>3 DEF t
<1>. QED  BY <1>2, <1>3, <1>4

LEMMA DamageStep ==
    ASSUME DecoderInv, Damage \/ Load
    PROVE  DecoderInv'
<1>1. /\ UNCHANGED <<type, written, pointer, children, built>>
      /\ phase = "sent" /\ phase' = "parsing"
  BY DEF Damage, Load
<1>2. (\E n \in DOMAIN Catalog : type = Catalog[n])' /\ WrittenShape' /\ Count' = Count
  BY <1>1, SameType
<1>3. children = <<>> /\ pointer = 0 /\ built = 0 /\ Len(children) = 0
  BY <1>1 DEF DecoderInv, ChildShape
<1>4. /\ contents' \in Seq(Real)
      /\ damage' \in Damages
      /\ damage' = "none" => damage = "none" /\ contents' = contents
      /\ damage' # "none" => IsStructure
  <2>1. CASE Load
    BY <2>1 DEF Load, DecoderInv, WireShape, TypeOK
  <2>2. CASE Damage
    <3>1. damage' # "none" /\ IsStructure /\ damage' \in Damages
      BY <2>2 DEF Damage, IsStructure
    <3>2. \A id \in Strays : Element(id, "", 0) \in Real
      BY ElementType, CatalogAssumption DEF Words
    <3>3. contents \in Seq(Real) /\ \A k \in DOMAIN contents : contents[k] \in Real /\ k \in 0..Len(contents)
      BY Lengths
    <3>4. contents' \in Seq(Real)
      BY <2>2, <3>2, <3>3, EditShape DEF Damage
    <3>. QED  BY <3>1, <3>4
  <2>. QED  BY <2>1, <2>2
<1>5. TypeOK'
  <2>1. Len(contents') \in Nat
    BY <1>4
  <2>. QED  BY <1>1, <1>3, <1>4, <2>1 DEF DecoderInv, TypeOK
<1>6. WireShape'
  BY <1>1, <1>4 DEF DecoderInv, WireShape, IsStructure
<1>7. ChildShape'
  BY <1>1, <1>2, <1>3, PlaceStep DEF DecoderInv, ChildShape, InPlace, IsStructure
<1>8. BuiltShape'
  BY <1>1, <1>3 DEF DecoderInv, BuiltShape
<1>. QED  BY <1>2, <1>5, <1>6, <1>7, <1>8 DEF DecoderInv

-----------------------------------------------------------------------------
(* A sequence is parsed.                                                   *)

LEMMA PlaceAppend ==
    ASSUME NEW c \in Seq(Elements), NEW e \in Elements
    PROVE  /\ \A i \in 0..Len(c) : Place(Append(c, e), i) = Place(c, i)
           /\ Place(Append(c, e), Len(c) + 1) = Place(c, Len(c)) + (IF e # Void THEN 1 ELSE 0)
<1>1. /\ Append(c, e) \in Seq(Elements) /\ Len(Append(c, e)) = Len(c) + 1
      /\ \A i \in 1..Len(c) : Append(c, e)[i] = c[i]
      /\ Append(c, e)[Len(c) + 1] = e
      /\ Len(c) \in Nat
  BY AppendProperties
<1>. DEFINE a == Append(c, e)
<1>. HIDE DEF a
<1>2. \A i \in 0..Len(c) : Place(a, i) = Place(c, i)
  <2>. SUFFICES ASSUME NEW i \in 0..Len(c) PROVE Place(a, i) = Place(c, i)
    OBVIOUS
  <2>1. \A j \in 1..i : a[j] = c[j]
    BY <1>1 DEF a
  <2>. QED  BY <2>1, PlaceSame
<1>3. Place(a, Len(c) + 1) = Place(a, Len(c)) + (IF e # Void THEN 1 ELSE 0)
  <2>1. a[Len(c) + 1] = e
    BY <1>1 DEF a
  <2>2. PICK n \in Nat : n = Len(c)
    BY <1>1
  <2>3. Place(a, n + 1) = Place(a, n) + (IF a[n + 1] # Void THEN 1 ELSE 0)
    BY PlaceStep
  <2>. QED  BY <2>1, <2>2, <2>3
<1>4. Place(a, Len(c)) = Place(c, Len(c))
  BY <1>1, <1>2
<1>. QED  BY <1>2, <1>3, <1>4 DEF a

\* A child is added: void, or the next element.
LEMMA AppendInPlace ==
    ASSUME NEW c \in Seq(Elements), NEW s \in Seq(Real), NEW e \in Elements, NEW p \in Nat,
           p = Place(c, Len(c)), p < Len(s),
           \A i \in 1..Len(c) : c[i] # Void => c[i] = s[Place(c, i)],
           e = Void \/ e = s[p + 1]
    PROVE  LET a == Append(c, e)
           IN /\ a \in Seq(Elements) /\ Len(a) = Len(c) + 1
              /\ Place(a, Len(a)) = IF e = Void THEN p ELSE p + 1
              /\ \A i \in 1..Len(a) : a[i] # Void => a[i] = s[Place(a, i)]
<1>. DEFINE a == Append(c, e)
<1>1. /\ a \in Seq(Elements) /\ Len(a) = Len(c) + 1
      /\ \A i \in 1..Len(c) : a[i] = c[i]
      /\ a[Len(c) + 1] = e
      /\ Len(c) \in Nat
  BY AppendProperties
<1>2. /\ \A i \in 1..Len(c) : Place(a, i) = Place(c, i)
      /\ Place(a, Len(c) + 1) = IF e = Void THEN p ELSE p + 1
  BY PlaceAppend
<1>. HIDE DEF a
<1>3. ASSUME NEW i \in 1..Len(a), a[i] # Void PROVE a[i] = s[Place(a, i)]
  <2>1. CASE i \in 1..Len(c)
    BY <1>1, <1>2, <1>3, <2>1
  <2>2. CASE i \notin 1..Len(c)
    <3>1. i = Len(c) + 1
      BY <1>1, <2>2
    <3>. QED  BY <1>1, <1>2, <1>3, <3>1
  <2>. QED  BY <2>1, <2>2
<1>4. Place(a, Len(a)) = IF e = Void THEN p ELSE p + 1
  BY <1>1, <1>2
<1>. QED  BY <1>1, <1>3, <1>4 DEF a

LEMMA ParseStep ==
    ASSUME DecoderInv, SkipField \/ TakeField
    PROVE  DecoderInv'
<1>1. /\ UNCHANGED <<type, written, damage, contents, built, phase>>
      /\ type.kind = "fields" /\ phase = "parsing" /\ pointer < Len(contents)
  BY DEF SkipField, TakeField, ParsesField
<1>2. /\ (\E n \in DOMAIN Catalog : type = Catalog[n])' /\ WrittenShape'
      /\ Count' = Count /\ Count \in Nat /\ DOMAIN type.fields = 1..Count
  BY <1>1, SameType
<1>3. /\ contents \in Seq(Real) /\ Len(contents) \in Nat
      /\ children \in Seq(Elements) /\ Len(children) \in Nat
      /\ pointer \in Nat /\ built \in Nat
  BY <1>1, Lengths
<1>4. contents[pointer + 1] \in Real
  BY <1>1, <1>3
<1>5. PICK e \in Elements :
        /\ children' = Append(children, e)
        /\ pointer' = IF e = Void THEN pointer ELSE pointer + 1
        /\ e = Void \/ e = contents[pointer + 1]
        /\ e = Void /\ Len(children) + 1 =< Count => MayBeAbsent(type.fields[Len(children) + 1])
  <2>1. CASE SkipField
    BY <2>1, VoidType DEF SkipField, Skips, Next1, FieldsOf
  <2>2. CASE TakeField
    BY <1>4, <2>2 DEF TakeField, Real
  <2>. QED  BY <2>1, <2>2
<1>6. /\ pointer = Place(children, Len(children))
      /\ \A i \in 1..Len(children) : children[i] # Void => children[i] = contents[Place(children, i)]
      /\ \A i \in 1..Count : i =< Len(children) /\ children[i] = Void => MayBeAbsent(type.fields[i])
      /\ built = 0
  BY <1>1 DEF DecoderInv, ChildShape, InPlace, IsStructure
<1>7. /\ children' \in Seq(Elements) /\ Len(children') = Len(children) + 1
      /\ Place(children', Len(children')) = pointer'
      /\ \A i \in 1..Len(children') : children'[i] # Void => children'[i] = contents[Place(children', i)]
  BY <1>1, <1>3, <1>5, <1>6, AppendInPlace
<1>8. ASSUME NEW i \in 1..Count, i =< Len(children'), children'[i] = Void
      PROVE  MayBeAbsent(type.fields[i])
  <2>1. CASE i =< Len(children)
    <3>1. children'[i] = children[i]
      BY <1>3, <1>5, <2>1, AppendProperties
    <3>. QED  BY <1>6, <1>8, <2>1, <3>1
  <2>2. CASE ~(i =< Len(children))
    <3>1. i = Len(children) + 1
      BY <1>2, <1>3, <1>7, <1>8, <2>2
    <3>2. children'[i] = e
      BY <1>3, <1>5, <3>1, AppendProperties
    <3>. QED  BY <1>5, <1>8, <3>1, <3>2
  <2>. QED  BY <2>1, <2>2
<1>9. TypeOK'
  <2>1. pointer' \in 0..Len(contents)
    BY <1>1, <1>3, <1>5
  <2>2. built' \in 0..Len(children')
    BY <1>1, <1>3, <1>6, <1>7
  <2>. QED  BY <1>1, <2>1, <2>2 DEF DecoderInv, TypeOK
<1>10. WireShape'
  BY <1>1 DEF DecoderInv, WireShape, IsStructure
<1>11. ChildShape'
  BY <1>1, <1>2, <1>6, <1>7, <1>8 DEF ChildShape, InPlace, IsStructure
<1>12. BuiltShape'
  BY <1>1, <1>6 DEF BuiltShape
<1>. QED  BY <1>2, <1>9, <1>10, <1>11, <1>12 DEF DecoderInv

LEMMA FillStep ==
    ASSUME DecoderInv, FillFields, phase' = "parsed"
    PROVE  DecoderInv'
<1>1. /\ UNCHANGED <<type, written, damage, contents, pointer, built>>
      /\ type.kind = "fields" /\ phase = "parsing" /\ pointer = Len(contents)
      /\ \A i \in (Len(children) + 1)..Count : MayBeAbsent(type.fields[i])
      /\ children' = children \o [i \in 1..(Count - Len(children)) |-> Void]
  BY DEF FillFields, Refuse, Next1, FieldsOf
<1>2. /\ (\E n \in DOMAIN Catalog : type = Catalog[n])' /\ WrittenShape'
      /\ Count' = Count /\ Count \in Nat
  BY <1>1, SameType
<1>3. /\ contents \in Seq(Real) /\ Len(contents) \in Nat
      /\ children \in Seq(Elements) /\ Len(children) \in Nat
      /\ pointer \in Nat /\ built \in Nat
  BY <1>1, Lengths
<1>4. /\ pointer = Place(children, Len(children))
      /\ \A i \in 1..Len(children) : children[i] # Void => children[i] = contents[Place(children, i)]
      /\ \A i \in 1..Count : i =< Len(children) /\ children[i] = Void => MayBeAbsent(type.fields[i])
      /\ built = 0
  BY <1>1 DEF DecoderInv, ChildShape, InPlace, IsStructure
<1>5. /\ children' \in Seq(Elements) /\ Len(children) =< Len(children')
      /\ Count =< Len(children') /\ Len(children') \in Nat
      /\ \A i \in 1..Len(children') : children'[i] = IF i =< Len(children) THEN children[i] ELSE Void
  <2>. DEFINE m == IF Len(children) =< Count THEN Count - Len(children) ELSE 0
              rest == [i \in 1..(Count - Len(children)) |-> Void]
  <2>1. m \in Nat /\ 1..(Count - Len(children)) = 1..m
    BY <1>2, <1>3
  <2>2. rest \in [1..m -> Elements] /\ \A i \in 1..m : rest[i] = Void
    BY <2>1, VoidType
  <2>3. children' = children \o rest
    BY <1>1
  <2>. HIDE DEF rest, m
  <2>4. rest \in Seq(Elements) /\ Len(rest) = m
    BY <2>1, <2>2, FunctionIsSeq
  <2>5. /\ children' \in Seq(Elements) /\ Len(children') = Len(children) + m
        /\ \A i \in 1..(Len(children) + m) :
             children'[i] = IF i =< Len(children) THEN children[i] ELSE rest[i - Len(children)]
    BY <1>3, <2>3, <2>4, ConcatProperties
  <2>6. ASSUME NEW i \in 1..(Len(children) + m), ~(i =< Len(children))
        PROVE  rest[i - Len(children)] = Void
    <3>1. i - Len(children) \in 1..m
      BY <1>3, <2>1, <2>6
    <3>. QED  BY <2>2, <3>1
  <2>7. Count =< Len(children) + m
    BY <1>2, <1>3 DEF m
  <2>. QED  BY <1>2, <1>3, <2>1, <2>5, <2>6, <2>7
<1>6. \A i \in 0..Len(children) : Place(children', i) = Place(children, i)
  <2>. SUFFICES ASSUME NEW i \in 0..Len(children) PROVE Place(children', i) = Place(children, i)
    OBVIOUS
  <2>1. \A j \in 1..i : children'[j] = children[j]
    BY <1>3, <1>5
  <2>. QED  BY <2>1, PlaceSame
<1>7. Place(children', Len(children')) = Place(children, Len(children))
  <2>1. {i \in 1..Len(children') : children'[i] # Void} = {i \in 1..Len(children) : children[i] # Void}
    BY <1>3, <1>5
  <2>. QED  BY <2>1 DEF Place
<1>8. \A i \in 1..Len(children') : children'[i] # Void => children'[i] = contents[Place(children', i)]
  BY <1>3, <1>4, <1>5, <1>6
<1>9. \A i \in 1..Count : i =< Len(children') /\ children'[i] = Void => MayBeAbsent(type.fields[i])
  BY <1>1, <1>2, <1>3, <1>4, <1>5
<1>10. TypeOK'
  <2>1. built' \in 0..Len(children')
    <3>1. Len(children') \in Nat /\ built' = 0
      BY <1>1, <1>4, <1>5
    <3>. QED  BY <3>1
  <2>2. pointer' \in 0..Len(contents')
    BY <1>1, <1>3
  <2>. QED  BY <1>1, <2>1, <2>2 DEF DecoderInv, TypeOK
<1>11. WireShape'
  BY <1>1 DEF DecoderInv, WireShape, IsStructure
<1>12. ChildShape'
  BY <1>1, <1>2, <1>4, <1>5, <1>7, <1>8, <1>9 DEF ChildShape, InPlace, IsStructure
<1>13. BuiltShape'
  BY <1>1, <1>4 DEF BuiltShape
<1>. QED  BY <1>2, <1>10, <1>11, <1>12, <1>13 DEF DecoderInv

-----------------------------------------------------------------------------
(* A set, a choice and a name are parsed, and the children are built.      *)

LEMMA SetStep ==
    ASSUME DecoderInv, ParseSet, phase' = "parsed"
    PROVE  DecoderInv'
<1>. DEFINE For(i) == {k \in DOMAIN contents : i \in FieldWith(contents[k].id)}
            taken == [i \in 1..Count |-> IF For(i) = {} THEN Void ELSE contents[LastOf(For(i))]]
<1>1. /\ UNCHANGED <<type, written, damage, contents, built>>
      /\ type.kind = "fieldset" /\ phase = "parsing"
      /\ \A i \in 1..Count : For(i) = {} => MayBeAbsent(type.fields[i])
      /\ children' = taken /\ pointer' = Len(contents)
  BY DEF ParseSet, Refuse, FieldsOf
<1>2. /\ (\E n \in DOMAIN Catalog : type = Catalog[n])' /\ WrittenShape'
      /\ Count' = Count /\ Count \in Nat
  BY <1>1, SameType
<1>3. contents \in Seq(Real) /\ Len(contents) \in Nat /\ DOMAIN contents = 1..Len(contents)
  BY Lengths
<1>4. built = 0
  BY <1>1 DEF DecoderInv, ChildShape
<1>5. \A i \in 1..Count : For(i) # {} => contents[LastOf(For(i))] \in Real
  <2>. SUFFICES ASSUME NEW i \in 1..Count, For(i) # {} PROVE contents[LastOf(For(i))] \in Real
    OBVIOUS
  <2>1. For(i) \subseteq 1..Len(contents)
    BY <1>3
  <2>. HIDE DEF For
  <2>2. LastOf(For(i)) \in 1..Len(contents)
    BY <1>3, <2>1, LastExists
  <2>. QED  BY <1>3, <2>2
<1>. HIDE DEF For
<1>6. taken \in [1..Count -> Elements]
  BY <1>5, VoidType DEF Real
<1>7. \A i \in 1..Count : taken[i] = Void => MayBeAbsent(type.fields[i])
  BY <1>1, <1>5 DEF Real
<1>. HIDE DEF taken
<1>8. children' \in Seq(Elements) /\ Len(children') = Count
  BY <1>1, <1>2, <1>6, FunctionIsSeq
<1>9. TypeOK'
  <2>1. built' \in 0..Len(children')
    BY <1>1, <1>2, <1>4, <1>8
  <2>2. pointer' \in 0..Len(contents')
    BY <1>1, <1>3
  <2>. QED  BY <1>1, <2>1, <2>2 DEF DecoderInv, TypeOK
<1>10. WireShape'
  BY <1>1 DEF DecoderInv, WireShape, IsStructure
<1>11. ChildShape'
  BY <1>1, <1>2, <1>7, <1>8 DEF ChildShape, IsStructure
<1>12. BuiltShape'
  BY <1>1, <1>4 DEF BuiltShape
<1>. QED  BY <1>2, <1>9, <1>10, <1>11, <1>12 DEF DecoderInv

\* A choice and a name are one element.
LEMMA OneElement ==
    ASSUME DecoderInv, phase = "parsing", type.kind \in {"choice", "named"}
    PROVE  /\ damage = "none"
           /\ Len(contents) \in Nat /\ 1 =< Len(contents)
           /\ contents = Present(written)
<1>1. damage = "none" /\ contents = Present(written) /\ written \in Seq(Elements)
  BY DEF DecoderInv, WireShape, WrittenShape, IsStructure
<1>2. \E i \in 1..Len(written) : written[i] # Void
  <2>1. CASE type.kind = "choice"
    BY <2>1 DEF DecoderInv, WrittenShape, IsStructure
  <2>2. CASE type.kind = "named"
    <3>1. PICK c \in DOMAIN type.names, id \in type.ids : written = <<Element(id, type.names[c], c)>>
      BY <2>2 DEF DecoderInv, WrittenShape
    <3>2. WellFormed(type) /\ c \in Nat
      BY TypeFacts DEF DecoderInv
    <3>3. id \in Ids /\ type.names[c] \in Words
      BY <3>2 DEF WellFormed, Words
    <3>4. Element(id, type.names[c], c) # Void
      BY <3>2, <3>3, ElementType DEF Real
    <3>. QED  BY <3>1, <3>4
  <2>. QED  BY <2>1, <2>2
<1>3. \E k : k \in 1..Len(contents)
  BY <1>1, <1>2, PresentFacts
<1>. QED  BY <1>1, <1>3, Lengths

LEMMA ChooseStep ==
    ASSUME DecoderInv, Choose, phase' = "parsed"
    PROVE  DecoderInv'
<1>1. /\ UNCHANGED <<type, written, damage, contents, built>>
      /\ type.kind = "choice" /\ phase = "parsing"
      /\ pointer' = 1
  BY DEF Choose, Refuse
<1>2. /\ (\E n \in DOMAIN Catalog : type = Catalog[n])' /\ WrittenShape'
      /\ Count' = Count /\ Count \in Nat
  BY <1>1, SameType
<1>3. contents \in Seq(Real) /\ Len(contents) \in Nat /\ 1 =< Len(contents) /\ contents[1] \in Real
  BY <1>1, Lengths, OneElement
<1>4. built = 0
  BY <1>1 DEF DecoderInv, ChildShape
<1>5. children' \in [1..Count -> Elements]
  BY <1>3, VoidType DEF Choose, Refuse, Real
<1>6. children' \in Seq(Elements) /\ Len(children') = Count
  BY <1>2, <1>5, FunctionIsSeq
<1>7. TypeOK'
  <2>1. built' \in 0..Len(children')
    BY <1>1, <1>2, <1>4, <1>6
  <2>2. pointer' \in 0..Len(contents')
    BY <1>1, <1>3
  <2>. QED  BY <1>1, <2>1, <2>2 DEF DecoderInv, TypeOK
<1>8. WireShape'
  BY <1>1 DEF DecoderInv, WireShape, IsStructure
<1>9. ChildShape'
  BY <1>1, <1>6 DEF ChildShape, IsStructure
<1>10. BuiltShape'
  BY <1>1, <1>4 DEF BuiltShape
<1>. QED  BY <1>2, <1>7, <1>8, <1>9, <1>10 DEF DecoderInv

LEMMA RenameStep ==
    ASSUME DecoderInv, Rename
    PROVE  DecoderInv'
<1>1. /\ UNCHANGED <<type, written, damage, contents>>
      /\ type.kind = "named" /\ phase = "parsing"
      /\ pointer' = 1 /\ built' = 1 /\ phase' = "built" /\ Len(children') = 1
  BY DEF Rename
<1>2. (\E n \in DOMAIN Catalog : type = Catalog[n])' /\ WrittenShape'
  BY <1>1, SameType
<1>3. Len(contents) \in Nat /\ 1 =< Len(contents)
  BY <1>1, OneElement
<1>4. TypeOK'
  <2>1. built' \in 0..Len(children')
    BY <1>1
  <2>2. pointer' \in 0..Len(contents')
    BY <1>1, <1>3
  <2>. QED  BY <1>1, <2>1, <2>2 DEF DecoderInv, TypeOK
<1>5. WireShape'
  BY <1>1 DEF DecoderInv, WireShape, IsStructure
<1>6. ChildShape'
  BY <1>1 DEF ChildShape, IsStructure
<1>7. BuiltShape'
  BY <1>1 DEF BuiltShape
<1>. QED  BY <1>2, <1>4, <1>5, <1>6, <1>7 DEF DecoderInv

LEMMA BuildStep ==
    ASSUME DecoderInv, Build, phase' # "refused"
    PROVE  DecoderInv'
<1>1. /\ UNCHANGED <<type, written, damage, contents, pointer, children>>
      /\ phase = "parsed" /\ phase' \in {"parsed", "built"}
      /\ \/ built' = built /\ built = Len(children) /\ phase' = "built"
         \/ built' = built + 1 /\ built # Len(children) /\ Builds(built + 1) /\ phase' = "parsed"
  BY DEF Build, Refuse
<1>2. (\E n \in DOMAIN Catalog : type = Catalog[n])' /\ WrittenShape' /\ Count' = Count
  BY <1>1, SameType
<1>3. type.kind # "named"
  BY <1>1 DEF DecoderInv, ChildShape
<1>4. Len(children) \in Nat /\ built \in Nat /\ built =< Len(children)
  BY <1>3, Lengths
<1>5. TypeOK'
  <2>1. built' \in 0..Len(children')
    BY <1>1, <1>4
  <2>. QED  BY <1>1, <2>1 DEF DecoderInv, TypeOK
<1>6. WireShape'
  BY <1>1 DEF DecoderInv, WireShape, IsStructure
<1>7. ChildShape'
  BY <1>1, <1>2, <1>3 DEF DecoderInv, ChildShape, InPlace, IsStructure
<1>8. BuiltShape'
  <2>1. \A i : Builds(i)' = Builds(i)
    BY <1>1, <1>2 DEF Builds
  <2>2. \A i \in 1..built' : Builds(i)
    BY <1>1, <1>3, <1>4 DEF DecoderInv, BuiltShape
  <2>. QED  BY <1>1, <2>1, <2>2 DEF BuiltShape
<1>. QED  BY <1>2, <1>5, <1>6, <1>7, <1>8 DEF DecoderInv

LEMMA DecoderStep == DecoderInv /\ [Next]_vars => DecoderInv'
<1>. SUFFICES ASSUME DecoderInv, [Next]_vars PROVE DecoderInv'
  OBVIOUS
<1>1. CASE CannotDump \/ Dump
  BY <1>1, DumpStep
<1>2. CASE Damage \/ Load
  BY <1>2, DamageStep
<1>3. CASE SkipField \/ TakeField
  BY <1>3, ParseStep
<1>4. CASE Refuse /\ (OidRefused \/ FillFields \/ ParseSet \/ Choose \/ Build)
  BY <1>4, RefuseStep DEF OidRefused, ParsesField, FillFields, ParseSet, Choose, Build
<1>5. CASE FillFields /\ ~Refuse
  BY <1>5, FillStep DEF FillFields
<1>6. CASE ParseSet /\ ~Refuse
  BY <1>6, SetStep DEF ParseSet
<1>7. CASE Choose /\ ~Refuse
  BY <1>7, ChooseStep DEF Choose
<1>8. CASE Rename
  BY <1>8, RenameStep
<1>9. CASE Build /\ ~Refuse
  BY <1>9, BuildStep DEF Build, DecoderInv
<1>10. CASE UNCHANGED vars
  <2>1. UNCHANGED <<type, written, damage, contents, pointer, children, built, phase>>
    BY <1>10 DEF vars
  <2>2. (\E n \in DOMAIN Catalog : type = Catalog[n])' /\ WrittenShape' /\ Count' = Count
    BY <2>1, SameType
  <2>3. TypeOK' /\ WireShape'
    BY <2>1 DEF DecoderInv, TypeOK, WireShape, IsStructure
  <2>4. ChildShape' /\ BuiltShape'
    BY <2>1, <2>2 DEF DecoderInv, ChildShape, InPlace, IsStructure, BuiltShape, Builds
  <2>. QED  BY <2>2, <2>3, <2>4 DEF DecoderInv
<1>. QED
  BY <1>1, <1>2, <1>3, <1>4, <1>5, <1>6, <1>7, <1>8, <1>9, <1>10 DEF Next, OidRefused, Ended

\* DecoderInv is an invariant, and TypeOK with it.
THEOREM DecoderInvariant == Spec => []DecoderInv
  BY DecoderInit, DecoderStep, PTL DEF Spec

\* Whatever happened on the way, a structure that is read has every required
\* field, each with an element of a type it may have.
THEOREM Complete == Spec => []ReadIsComplete
<1>1. DecoderInv => ReadIsComplete
  <2>. SUFFICES ASSUME DecoderInv, phase = "built", IsStructure, NEW i \in 1..Count
                PROVE  /\ children[i] = Void => MayBeAbsent(FieldsOf(type)[i])
                       /\ children[i] # Void /\ FieldsOf(type)[i].type.ids # {} =>
                            Accepts(FieldsOf(type)[i].type, children[i].id)
    BY DEF ReadIsComplete, DecoderInv, IsStructure
  <2>1. Count \in Nat /\ Count =< Len(children) /\ Len(children) \in Nat /\ built = Len(children)
    BY TypeFacts, Lengths DEF DecoderInv, ChildShape, BuiltShape, IsStructure
  <2>2. children[i] = Void => MayBeAbsent(FieldsOf(type)[i])
    BY <2>1 DEF DecoderInv, ChildShape, FieldsOf
  <2>3. Builds(i)
    BY <2>1 DEF DecoderInv, BuiltShape, IsStructure
  <2>4. FieldsOf(type)[i].type.ids # {} => SpecFor(type, i, children) = FieldsOf(type)[i].type
    BY DEF SpecFor, SpecUnder, FieldsOf
  <2>. QED  BY <2>1, <2>2, <2>3, <2>4 DEF Builds
<1>. QED  BY <1>1, DecoderInvariant, PTL

\* A sequence that is read has, in the order they arrived, all the elements that
\* arrived and no others.
THEOREM NoElementLost == Spec => []NothingLost
<1>1. DecoderInv => NothingLost
  <2>. SUFFICES ASSUME DecoderInv, phase = "built", type.kind = "fields"
                PROVE  Present(children) = contents
    BY DEF NothingLost
  <2>1. /\ children \in Seq(Elements) /\ contents \in Seq(Real)
        /\ Place(children, Len(children)) = Len(contents)
        /\ \A i \in 1..Len(children) : children[i] # Void =>
             children[i] = contents[Place(children, i)]
    BY Lengths DEF DecoderInv, ChildShape, InPlace, IsStructure
  <2>2. /\ Present(children) \in Seq(Real) /\ Len(Present(children)) = Len(contents)
        /\ \A k \in 1..Len(Present(children)) : \E i \in 1..Len(children) :
             children[i] # Void /\ Place(children, i) = k /\ Present(children)[k] = children[i]
    BY <2>1, PresentFacts
  <2>3. \A k \in 1..Len(Present(children)) : Present(children)[k] = contents[k]
    BY <2>1, <2>2
  <2>. QED  BY <2>1, <2>2, <2>3, SeqEqual
<1>. QED  BY <1>1, DecoderInvariant, PTL

-----------------------------------------------------------------------------
(***************************************************************************)
(* The round trip.  While nothing is damaged the children are the elements *)
(* as they were written: a field without one is skipped, because the next  *)
(* element there is has an identifier that the field cannot have.          *)
(***************************************************************************)

Undamaged == damage = "none" /\ Known(type)

RoundInv ==
    Undamaged =>
      /\ phase # "refused"
      /\ type.kind = "fields" =>
           /\ Len(children) =< Count
           /\ \A i \in 1..Len(children) : children[i] = written[i]
      /\ phase \in {"parsed", "built"} /\ type.kind # "named" => children = written
      /\ phase = "built" /\ type.kind = "named" => children[1].says = written[1].says

\* The OID field's element was written for the type of that field.
LEMMA OidField ==
    ASSUME DecoderInv, NEW i \in DOMAIN type.fields, IsPairedValue(type, i)
    PROVE  /\ At(type, type.pair[1]) \in DOMAIN type.fields
           /\ At(type, type.pair[1]) < i
           /\ ~MayBeAbsent(type.fields[At(type, type.pair[1])])
           /\ type.fields[At(type, type.pair[1])].name = type.pair[1]
           /\ ~IsPairedValue(type, At(type, type.pair[1]))
<1>1. WellFormed(type) /\ type.pair # <<>> /\ type.fields[i].name = type.pair[2]
  BY TypeFacts DEF DecoderInv, IsPairedValue
<1>2. PICK o \in DOMAIN type.fields, v \in DOMAIN type.fields :
        /\ o < v /\ ~MayBeAbsent(type.fields[o])
        /\ type.fields[o].name = type.pair[1] /\ type.fields[v].name = type.pair[2]
  BY <1>1 DEF WellFormed
<1>3. \A a, b \in DOMAIN type.fields : type.fields[a].name = type.fields[b].name => a = b
  BY <1>1 DEF WellFormed
<1>4. v = i /\ o \in Nat /\ v \in Nat
  BY <1>1, <1>2, <1>3, TypeFacts DEF DecoderInv
<1>5. At(type, type.pair[1]) = o
  BY <1>2, <1>3 DEF At
<1>6. ~IsPairedValue(type, o)
  BY <1>2, <1>3, <1>4 DEF IsPairedValue
<1>. QED  BY <1>2, <1>4, <1>5, <1>6

\* What was written can be built again, the OID field on its own and every field
\* with the type that the OID decides.
LEMMA WrittenBuilds ==
    ASSUME DecoderInv, damage = "none", phase \notin {"made", "raised"},
           IsStructure \/ (type.kind = "choice" /\ Known(type)),
           NEW i \in 1..Count, written[i] # Void
    PROVE  /\ Accepts(SpecFor(type, i, written), written[i].id)
           /\ ~IsPairedValue(type, i) => Accepts(type.fields[i].type, written[i].id)
           /\ IsStructure => \E spec \in Under(type, i) : written[i].id \in IdsOf(spec)
           /\ type.fields[i].type.ids # {} => written[i].id \in type.fields[i].type.ids
<1>1. /\ WellFormed(type) /\ (Known(type) => Unambiguous(type))
      /\ DOMAIN type.fields = 1..Count /\ Count \in Nat
  BY TypeFacts DEF DecoderInv
<1>2. ~Unwritable(type, written) /\ type.kind # "named" /\ Len(written) = Count /\ written \in Seq(Elements)
  BY DEF DecoderInv, WireShape, WrittenShape, IsStructure
<1>3. type.fields[i].type.kind # "refused"
  BY <1>1, <1>2 DEF Unwritable
<1>4. ASSUME NEW spec, spec.kind # "refused", written[i].id \in IdsOf(spec)
      PROVE  Accepts(spec, written[i].id)
  BY <1>4 DEF Accepts, IdsOf
<1>5. CASE type.kind = "choice" /\ Known(type)
  <2>1. written[i].id \in IdsOf(type.fields[i].type)
    BY <1>5 DEF DecoderInv, WrittenShape
  <2>2. type.fields[i].type.ids # {}
    BY <1>1, <1>5 DEF Unambiguous
  <2>3. SpecFor(type, i, written) = type.fields[i].type
    BY <2>2 DEF SpecFor, SpecUnder
  <2>. QED  BY <1>3, <1>4, <1>5, <2>1, <2>2, <2>3 DEF IdsOf, IsStructure
<1>6. CASE IsStructure
  <2>1. PICK says \in DOMAIN type.specs \cup {"", "another"} : WrittenAs(says)
    BY <1>6 DEF DecoderInv, WrittenShape
  <2>2. written[i].id \in IdsOf(SpecUnder(type, i, says))
    BY <2>1 DEF WrittenAs
  <2>3. SpecUnder(type, i, says) \in Under(type, i)
    BY DEF Under
  <2>4. SpecUnder(type, i, says).kind # "refused"
    BY <1>1, <1>3 DEF SpecUnder, WellFormed
  <2>5. SpecFor(type, i, written) = SpecUnder(type, i, says)
    <3>1. CASE IsPairedValue(type, i)
      <4>. DEFINE o == At(type, type.pair[1])
      <4>1. o \in 1..Count /\ ~MayBeAbsent(type.fields[o]) /\ type.fields[o].name = type.pair[1]
        BY <1>1, <3>1, OidField
      <4>2. written[o] # Void
        BY <1>6, <4>1 DEF DecoderInv, WrittenShape
      <4>3. written[o].says = says
        BY <2>1, <3>1, <4>1, <4>2 DEF WrittenAs, Says, IsPairedValue
      <4>. QED  BY <3>1, <4>3 DEF SpecFor
    <3>2. CASE ~IsPairedValue(type, i)
      BY <3>2 DEF SpecFor, SpecUnder
    <3>. QED  BY <3>1, <3>2
  <2>6. ~IsPairedValue(type, i) => SpecUnder(type, i, says) = type.fields[i].type
    BY DEF SpecUnder
  <2>7. type.fields[i].type.ids # {} => SpecUnder(type, i, says) = type.fields[i].type
    BY DEF SpecUnder
  <2>. QED  BY <1>4, <2>2, <2>3, <2>4, <2>5, <2>6, <2>7 DEF IdsOf
<1>. QED  BY <1>5, <1>6

\* The next element is that of the first field, of those not parsed, that has one.
LEMMA NextElement ==
    ASSUME NEW w \in Seq(Elements), NEW n \in 0..Len(w), NEW p, p = Place(w, n),
           p < Len(Present(w))
    PROVE  \E j \in (n + 1)..Len(w) :
             /\ w[j] # Void /\ Present(w)[p + 1] = w[j]
             /\ \A k \in (n + 1)..(j - 1) : w[k] = Void
<1>1. Len(w) \in Nat /\ n \in Nat /\ p \in Nat /\ Len(Present(w)) \in Nat
  BY PlaceStep, PresentFacts
<1>2. p + 1 \in 1..Len(Present(w))
  BY <1>1
<1>3. PICK j \in 1..Len(w) : w[j] # Void /\ Place(w, j) = p + 1 /\ Present(w)[p + 1] = w[j]
  BY <1>2, PresentFacts
<1>4. n < j
  <2>. SUFFICES ASSUME j =< n PROVE FALSE
    BY <1>1
  <2>1. Place(w, j) =< Place(w, n)
    BY <1>1, PlaceMono
  <2>. QED  BY <1>1, <1>3, <2>1
<1>5. ASSUME NEW k \in (n + 1)..(j - 1), w[k] # Void PROVE FALSE
  <2>1. k \in Nat /\ j \in Nat /\ n < k /\ k < j
    BY <1>1, <1>4
  <2>2. Place(w, n) < Place(w, k)
    BY <1>1, <1>5, <2>1, PlaceStrict
  <2>3. Place(w, k) < Place(w, j)
    BY <1>3, <2>1, PlaceStrict
  <2>4. Place(w, k) \in Nat
    BY <2>1, PlaceStep
  <2>. QED  BY <1>1, <1>3, <2>2, <2>3, <2>4
<1>. QED  BY <1>1, <1>3, <1>4, <1>5

\* When no element is left, neither has any field one.
LEMMA NoElementLeft ==
    ASSUME NEW w \in Seq(Elements), NEW n \in 0..Len(w), Place(w, n) = Len(Present(w))
    PROVE  \A i \in (n + 1)..Len(w) : w[i] = Void
<1>. SUFFICES ASSUME NEW i \in (n + 1)..Len(w), w[i] # Void PROVE FALSE
  OBVIOUS
<1>1. Len(w) \in Nat /\ n \in Nat /\ i \in Nat /\ n < i /\ i =< Len(w)
  OBVIOUS
<1>2. Place(w, n) < Place(w, i)
  BY <1>1, PlaceStrict
<1>3. Place(w, i) =< Place(w, Len(w))
  BY <1>1, PlaceMono
<1>4. Place(w, n) \in Nat /\ Place(w, i) \in Nat /\ Place(w, Len(w)) = Place(w, n)
  BY <1>1, PlaceStep, PresentFacts
<1>. QED  BY <1>2, <1>3, <1>4

\* The state of the parser of a sequence that was not damaged.
LEMMA ParsingUndamaged ==
    ASSUME DecoderInv, RoundInv, Undamaged, type.kind = "fields", phase = "parsing"
    PROVE  /\ WellFormed(type) /\ Unambiguous(type) /\ IsStructure
           /\ Count \in Nat /\ DOMAIN type.fields = 1..Count
           /\ written \in Seq(Elements) /\ Len(written) = Count
           /\ contents = Present(written)
           /\ children \in Seq(Elements) /\ Len(children) \in 0..Count
           /\ \A i \in 1..Len(children) : children[i] = written[i]
           /\ pointer = Place(written, Len(children))
<1>1. WellFormed(type) /\ Unambiguous(type) /\ Count \in Nat /\ DOMAIN type.fields = 1..Count
  BY TypeFacts DEF DecoderInv, Undamaged
<1>2. /\ written \in Seq(Elements) /\ Len(written) = Count /\ contents = Present(written)
  BY DEF DecoderInv, WireShape, WrittenShape, Undamaged
<1>3. /\ children \in Seq(Elements) /\ pointer = Place(children, Len(children))
      /\ Len(children) =< Count /\ \A i \in 1..Len(children) : children[i] = written[i]
  BY DEF DecoderInv, ChildShape, InPlace, RoundInv
<1>4. Len(children) \in 0..Count
  BY <1>1, <1>3
<1>5. Place(children, Len(children)) = Place(written, Len(children))
  BY <1>3, PlaceSame
<1>. QED  BY <1>1, <1>2, <1>3, <1>4, <1>5 DEF IsStructure

LEMMA OidBuildsHere ==
    ASSUME DecoderInv, RoundInv, Undamaged, type.kind = "fields", phase = "parsing",
           Len(children) + 1 =< Count
    PROVE  OidBuilds(type, Len(children) + 1)
<1>. DEFINE i == Len(children) + 1
            o == At(type, type.pair[1])
<1>. SUFFICES ASSUME IsPairedValue(type, i), children[o] # Void
              PROVE  Accepts(type.fields[o].type, children[o].id)
  BY DEF OidBuilds
<1>1. /\ Count \in Nat /\ DOMAIN type.fields = 1..Count /\ Len(children) \in 0..Count
      /\ \A k \in 1..Len(children) : children[k] = written[k]
      /\ IsStructure
  BY ParsingUndamaged
<1>2. i \in DOMAIN type.fields
  BY <1>1
<1>3. o \in 1..Count /\ o < i /\ ~IsPairedValue(type, o)
  BY <1>1, <1>2, OidField
<1>4. children[o] = written[o]
  <2>1. o \in 1..Len(children)
    BY <1>1, <1>3
  <2>. QED  BY <1>1, <2>1
<1>. QED  BY <1>1, <1>3, <1>4, WrittenBuilds DEF Undamaged

LEMMA AppendedAgrees ==
    ASSUME children \in Seq(Elements), written \in Seq(Elements), Len(children) + 1 =< Count,
           Count \in Nat, Len(children) + 1 \in 1..Len(written),
           \A i \in 1..Len(children) : children[i] = written[i],
           children' = Append(children, written[Len(children) + 1]),
           UNCHANGED <<type, written, damage, contents, built, phase>>,
           type.kind = "fields", phase = "parsing"
    PROVE  RoundInv'
<1>1. written[Len(children) + 1] \in Elements /\ Len(children) \in Nat
  OBVIOUS
<1>2. /\ Len(children') = Len(children) + 1
      /\ \A i \in 1..Len(children) : children'[i] = children[i]
      /\ children'[Len(children) + 1] = written[Len(children) + 1]
  BY <1>1, AppendProperties
<1>3. \A i \in 1..Len(children') : children'[i] = written[i]
  BY <1>1, <1>2
<1>4. Count' = Count
  BY DEF Count, FieldsOf
<1>. QED  BY <1>2, <1>3, <1>4 DEF RoundInv, Undamaged

\* A field is skipped when it has no element, and takes the one it has.
LEMMA RoundParse ==
    ASSUME DecoderInv, RoundInv, Undamaged, SkipField \/ TakeField
    PROVE  RoundInv'
<1>. DEFINE n == Len(children)
<1>1. /\ UNCHANGED <<type, written, damage, contents, built, phase>>
      /\ type.kind = "fields" /\ phase = "parsing" /\ pointer < Len(contents)
  BY DEF SkipField, TakeField, ParsesField
<1>2. /\ Unambiguous(type) /\ IsStructure
      /\ Count \in Nat /\ DOMAIN type.fields = 1..Count
      /\ written \in Seq(Elements) /\ Len(written) = Count
      /\ contents = Present(written)
      /\ children \in Seq(Elements) /\ n \in 0..Count
      /\ \A i \in 1..n : children[i] = written[i]
      /\ pointer = Place(written, n)
  BY <1>1, ParsingUndamaged
<1>3. PICK j \in (n + 1)..Count :
        /\ written[j] # Void /\ contents[pointer + 1] = written[j]
        /\ \A k \in (n + 1)..(j - 1) : written[k] = Void
  BY <1>1, <1>2, NextElement
<1>4. n + 1 =< Count /\ n + 1 \in 1..Count /\ j \in 1..Count
  BY <1>2, <1>3
<1>5. damage = "none" /\ phase \notin {"made", "raised"}
  BY <1>1 DEF Undamaged
<1>6. PICK spec \in Under(type, j) : written[j].id \in IdsOf(spec)
  BY <1>2, <1>3, <1>4, <1>5, WrittenBuilds
<1>7. OidBuilds(type, n + 1)
  BY <1>1, <1>4, OidBuildsHere
<1>. DEFINE f == type.fields[n + 1]
<1>8. CASE j = n + 1
  <2>1. ~Skips(n + 1)
    <3>. SUFFICES ASSUME MayBeAbsent(f) PROVE Matches(f, contents[pointer + 1])
      BY DEF Skips, FieldsOf
    <3>1. f.type.kind = "any" \/ IdsOf(spec) \subseteq f.type.ids
      BY <1>1, <1>2, <1>4, <1>6, <1>8 DEF Unambiguous
    <3>. QED  BY <1>3, <1>6, <1>8, <3>1 DEF Matches
  <2>2. children' = Append(children, written[n + 1])
    BY <1>3, <1>4, <1>7, <1>8, <2>1 DEF SkipField, TakeField, Next1
  <2>. QED  BY <1>1, <1>2, <1>4, <2>2, AppendedAgrees
<1>9. CASE j # n + 1
  <2>1. written[n + 1] = Void /\ n + 1 < j
    BY <1>2, <1>3, <1>9
  <2>2. \A k \in (n + 1)..(j - 1) : MayBeAbsent(type.fields[k])
    <3>1. \A k \in 1..Count : written[k] = Void => MayBeAbsent(type.fields[k])
      BY <1>2 DEF DecoderInv, WrittenShape
    <3>2. \A k \in (n + 1)..(j - 1) : k \in 1..Count
      BY <1>2, <1>4
    <3>. QED  BY <1>3, <3>1, <3>2
  <2>3. MayBeAbsent(f)
    BY <1>2, <1>4, <2>1, <2>2
  <2>4. f.type.kind # "any" /\ IdsOf(spec) \cap f.type.ids = {}
    BY <1>1, <1>2, <1>4, <1>6, <2>1, <2>2, <2>3 DEF Unambiguous
  <2>5. Skips(n + 1)
    BY <1>3, <1>6, <2>3, <2>4 DEF Skips, Matches, FieldsOf
  <2>6. children' = Append(children, written[n + 1])
    BY <1>4, <2>1, <2>5 DEF SkipField, TakeField, Next1
  <2>. QED  BY <1>1, <1>2, <1>4, <2>6, AppendedAgrees
<1>. QED  BY <1>8, <1>9

LEMMA RoundFill ==
    ASSUME DecoderInv, RoundInv, Undamaged, FillFields
    PROVE  RoundInv'
<1>. DEFINE n == Len(children)
            rest == [i \in 1..(Count - n) |-> Void]
<1>1. type.kind = "fields" /\ phase = "parsing" /\ pointer = Len(contents)
  BY DEF FillFields
<1>2. /\ Count \in Nat /\ DOMAIN type.fields = 1..Count
      /\ written \in Seq(Elements) /\ Len(written) = Count
      /\ contents = Present(written)
      /\ children \in Seq(Elements) /\ n \in 0..Count
      /\ \A i \in 1..n : children[i] = written[i]
      /\ pointer = Place(written, n)
      /\ IsStructure
  BY <1>1, ParsingUndamaged
<1>3. \A i \in (n + 1)..Count : written[i] = Void
  BY <1>1, <1>2, NoElementLeft
<1>4. \A i \in (n + 1)..Count : MayBeAbsent(type.fields[i])
  <2>1. \A i \in 1..Count : written[i] = Void => MayBeAbsent(type.fields[i])
    BY <1>2 DEF DecoderInv, WrittenShape
  <2>2. \A i \in (n + 1)..Count : i \in 1..Count
    BY <1>2
  <2>. QED  BY <1>3, <2>1, <2>2
<1>5. /\ children' = children \o rest /\ phase' = "parsed"
      /\ UNCHANGED <<type, written, damage, contents>>
  BY <1>4 DEF FillFields, Refuse, Next1, FieldsOf
<1>6. Count - n \in Nat /\ rest \in [1..(Count - n) -> Elements]
  BY <1>2, VoidType
<1>7. \A i \in 1..(Count - n) : rest[i] = Void
  OBVIOUS
<1>. HIDE DEF rest
<1>8. rest \in Seq(Elements) /\ Len(rest) = Count - n
  BY <1>6, FunctionIsSeq
<1>9. /\ children' \in Seq(Elements) /\ Len(children') = n + (Count - n)
      /\ \A i \in 1..(n + (Count - n)) :
           children'[i] = IF i =< n THEN children[i] ELSE rest[i - n]
  BY <1>2, <1>5, <1>8, ConcatProperties
<1>10. Len(children') = Count /\ n + (Count - n) = Count
  BY <1>2, <1>9
<1>11. ASSUME NEW i \in 1..Count PROVE children'[i] = written[i]
  <2>1. CASE i =< n
    BY <1>2, <1>9, <1>10, <2>1
  <2>2. CASE ~(i =< n)
    <3>1. i \in (n + 1)..Count /\ i - n \in 1..(Count - n)
      BY <1>2, <2>2
    <3>. QED  BY <1>3, <1>7, <1>9, <1>10, <2>2, <3>1
  <2>. QED  BY <2>1, <2>2
<1>12. children' = written
  BY <1>2, <1>9, <1>10, <1>11, SeqEqual
<1>13. Count' = Count
  BY <1>5 DEF Count, FieldsOf
<1>. QED  BY <1>1, <1>2, <1>5, <1>10, <1>11, <1>12, <1>13 DEF RoundInv

\* In a set or a choice only its own field has the identifier of an element.
LEMMA OwnField ==
    ASSUME DecoderInv, Undamaged, phase \notin {"made", "raised"},
           type.kind \in {"fieldset", "choice"},
           NEW i \in 1..Count, written[i] # Void
    PROVE  FieldWith(written[i].id) = {i} /\ LastOf({i}) = i
<1>1. Unambiguous(type) /\ Count \in Nat /\ DOMAIN type.fields = 1..Count
  BY TypeFacts DEF DecoderInv, Undamaged
<1>2. \A k \in 1..Count : /\ type.fields[k].type.ids # {}
                          /\ k # i => type.fields[k].type.ids \cap type.fields[i].type.ids = {}
  BY <1>1 DEF Unambiguous
<1>3. written[i].id \in type.fields[i].type.ids
  <2>1. /\ damage = "none" /\ phase \notin {"made", "raised"}
        /\ IsStructure \/ (type.kind = "choice" /\ Known(type))
    BY DEF Undamaged, IsStructure
  <2>2. type.fields[i].type.ids # {} => written[i].id \in type.fields[i].type.ids
    BY <2>1, WrittenBuilds
  <2>3. type.fields[i].type.ids # {}
    BY <1>2
  <2>. QED  BY <2>2, <2>3
<1>4. FieldWith(written[i].id) = {i}
  BY <1>2, <1>3 DEF FieldWith, FieldsOf
<1>5. i \in Nat /\ {i} \subseteq 1..i /\ {i} # {}
  BY <1>1
<1>. QED  BY <1>4, <1>5, LastExists

LEMMA RoundSet ==
    ASSUME DecoderInv, RoundInv, Undamaged, ParseSet
    PROVE  RoundInv'
<1>. DEFINE For(i) == {k \in DOMAIN contents : i \in FieldWith(contents[k].id)}
<1>1. type.kind = "fieldset" /\ phase = "parsing" /\ IsStructure
  BY DEF ParseSet, IsStructure
<1>2. /\ written \in Seq(Elements) /\ Len(written) = Count /\ contents = Present(written)
      /\ \A i \in 1..Count : written[i] = Void => MayBeAbsent(type.fields[i])
      /\ DOMAIN contents = 1..Len(contents) /\ Len(contents) \in Nat /\ Count \in Nat
  <2>1. /\ written \in Seq(Elements) /\ Len(written) = Count
        /\ \A i \in 1..Count : written[i] = Void => MayBeAbsent(type.fields[i])
    BY <1>1 DEF DecoderInv, WrittenShape
  <2>2. contents = Present(written)
    BY <1>1 DEF DecoderInv, WireShape, Undamaged
  <2>3. contents \in Seq(Real)
    BY Lengths
  <2>4. DOMAIN contents = 1..Len(contents) /\ Len(contents) \in Nat
    BY <2>3
  <2>5. Count \in Nat
    BY TypeFacts DEF DecoderInv
  <2>. QED  BY <2>1, <2>2, <2>4, <2>5
<1>3. \A k \in 1..Len(contents) : \E i \in 1..Count :
        written[i] # Void /\ Place(written, i) = k /\ contents[k] = written[i]
  BY <1>2, PresentFacts
<1>4. \A i \in 1..Count : written[i] # Void =>
        /\ Place(written, i) \in 1..Len(contents) /\ contents[Place(written, i)] = written[i]
        /\ FieldWith(written[i].id) = {i}
  <2>1. \A i \in 1..Count : written[i] # Void => FieldWith(written[i].id) = {i}
    BY <1>1, OwnField
  <2>. QED  BY <1>2, <2>1, PresentFacts
<1>5. \A i \in 1..Count : For(i) = IF written[i] = Void THEN {} ELSE {Place(written, i)}
  <2>. SUFFICES ASSUME NEW i \in 1..Count
                PROVE  For(i) = IF written[i] = Void THEN {} ELSE {Place(written, i)}
    OBVIOUS
  <2>1. ASSUME NEW k \in 1..Len(contents), i \in FieldWith(contents[k].id)
        PROVE  written[i] # Void /\ k = Place(written, i)
    <3>1. PICK j \in 1..Count : written[j] # Void /\ Place(written, j) = k /\ contents[k] = written[j]
      BY <1>3
    <3>2. FieldWith(contents[k].id) = {j}
      BY <1>4, <3>1
    <3>3. i = j
      BY <2>1, <3>2
    <3>. QED  BY <3>1, <3>3
  <2>2. CASE written[i] = Void
    BY <1>2, <2>1, <2>2
  <2>3. CASE written[i] # Void
    <3>1. i \in FieldWith(contents[Place(written, i)].id) /\ Place(written, i) \in DOMAIN contents
      BY <1>2, <1>4, <2>3
    <3>2. Place(written, i) \in For(i)
      BY <3>1
    <3>3. For(i) \subseteq {Place(written, i)}
      BY <1>2, <2>1
    <3>. QED  BY <2>3, <3>2, <3>3
  <2>. QED  BY <2>2, <2>3
<1>6. \A k \in DOMAIN contents : FieldWith(contents[k].id) # {}
  <2>. TAKE k \in DOMAIN contents
  <2>1. PICK j \in 1..Count : written[j] # Void /\ contents[k] = written[j]
    BY <1>2, <1>3
  <2>2. FieldWith(contents[k].id) = {j}
    BY <1>4, <2>1
  <2>. QED  BY <2>2
<1>. HIDE DEF For
<1>7. \A i \in 1..Count : For(i) = {} => MayBeAbsent(FieldsOf(type)[i])
  BY <1>2, <1>5 DEF FieldsOf
<1>8. /\ children' = [i \in 1..Count |-> IF For(i) = {} THEN Void ELSE contents[LastOf(For(i))]]
      /\ phase' = "parsed" /\ UNCHANGED <<type, written, damage, contents, built>>
  BY <1>6, <1>7 DEF ParseSet, For
<1>9. ASSUME NEW i \in 1..Count
      PROVE  (IF For(i) = {} THEN Void ELSE contents[LastOf(For(i))]) = written[i]
  <2>1. CASE written[i] = Void
    BY <1>5, <2>1
  <2>2. CASE written[i] # Void
    <3>1. For(i) = {Place(written, i)} /\ Place(written, i) \in 1..Len(contents)
      BY <1>4, <1>5, <2>2
    <3>2. LastOf({Place(written, i)}) = Place(written, i)
      <4>1. Place(written, i) \in Nat
        BY <1>2, <3>1
      <4>. QED  BY <4>1, LastOfOne
    <3>3. For(i) # {} /\ LastOf(For(i)) = Place(written, i)
      BY <3>1, <3>2
    <3>4. contents[Place(written, i)] = written[i]
      BY <1>4, <2>2
    <3>. QED  BY <3>3, <3>4
  <2>. QED  BY <2>1, <2>2
<1>10. children' = written
  <2>1. children' = [i \in 1..Count |-> written[i]]
    BY <1>8, <1>9
  <2>. QED  BY <1>2, <2>1
<1>. QED  BY <1>1, <1>8, <1>10 DEF RoundInv

LEMMA RoundChoose ==
    ASSUME DecoderInv, RoundInv, Undamaged, Choose
    PROVE  RoundInv'
<1>1. type.kind = "choice" /\ phase = "parsing"
  BY DEF Choose
<1>2. /\ written \in Seq(Elements) /\ Len(written) = Count /\ contents = Present(written)
      /\ Len(contents) \in Nat /\ 1 =< Len(contents) /\ Count \in Nat
  BY <1>1, OneElement, TypeFacts DEF DecoderInv, WrittenShape
<1>3. PICK a \in 1..Count : written[a] # Void /\ \A i \in 1..Count : i # a => written[i] = Void
  BY <1>1 DEF DecoderInv, WrittenShape
<1>4. contents[1] = written[a]
  <2>1. 1 \in 1..Len(contents)
    BY <1>2
  <2>. QED  BY <1>2, <1>3, <2>1, PresentFacts
<1>5. FieldWith(contents[1].id) = {a} /\ LastOf({a}) = a
  BY <1>1, <1>3, <1>4, OwnField
<1>6. /\ children' = [i \in 1..Count |-> IF i = a THEN contents[1] ELSE Void]
      /\ phase' = "parsed" /\ UNCHANGED <<type, written, damage, contents>>
  BY <1>5 DEF Choose
<1>7. children' = written
  <2>1. children' = [i \in 1..Count |-> written[i]]
    BY <1>3, <1>4, <1>6
  <2>. QED  BY <1>2, <2>1
<1>. QED  BY <1>1, <1>6, <1>7 DEF RoundInv

LEMMA RoundRename ==
    ASSUME DecoderInv, RoundInv, Undamaged, Rename
    PROVE  RoundInv'
<1>1. type.kind = "named" /\ phase = "parsing" /\ phase' = "built" /\ UNCHANGED <<type, written>>
  BY DEF Rename
<1>2. /\ written \in Seq(Elements) /\ contents = Present(written)
      /\ Len(contents) \in Nat /\ 1 =< Len(contents)
  BY <1>1, OneElement DEF DecoderInv, WrittenShape
<1>3. PICK c \in DOMAIN type.names, id \in type.ids : written = <<Element(id, type.names[c], c)>>
  BY <1>1 DEF DecoderInv, WrittenShape
<1>4. written[1].code = c /\ written[1].says = type.names[c] /\ Len(written) = 1
  BY <1>3 DEF Element
<1>5. contents[1] = written[1]
  <2>1. 1 \in 1..Len(contents)
    BY <1>2
  <2>2. PICK i \in 1..Len(written) : contents[1] = written[i]
    BY <1>2, <2>1, PresentFacts
  <2>. QED  BY <1>4, <2>2
<1>. DEFINE code == CodeFor(type, type.names[c])
<1>6. type.names[code] = type.names[c]
  <2>1. /\ Unambiguous(type)
        /\ Len(type.names) \in Nat /\ DOMAIN type.names = 1..Len(type.names)
    BY TypeFacts DEF DecoderInv, Undamaged
  <2>2. CASE type.names[c] \in DOMAIN type.back
    BY <1>1, <2>1, <2>2 DEF CodeFor, Unambiguous
  <2>3. CASE type.names[c] \notin DOMAIN type.back
    <3>. DEFINE S == {k \in DOMAIN type.names : type.names[k] = type.names[c]}
    <3>1. S \subseteq 1..Len(type.names) /\ S # {}
      <4>1. c \in S
        OBVIOUS
      <4>. QED  BY <2>1, <4>1
    <3>2. LastOf(S) \in S
      <4>. HIDE DEF S
      <4>. QED  BY <2>1, <3>1, LastExists
    <3>3. code = LastOf(S)
      BY <2>3 DEF CodeFor
    <3>. QED  BY <3>2, <3>3
  <2>. QED  BY <2>2, <2>3
<1>. HIDE DEF code
<1>7. children' = <<Element(contents[1].id, type.names[code], code)>>
  BY <1>4, <1>5 DEF Rename, code
<1>8. children'[1].says = type.names[code]
  BY <1>7 DEF Element
<1>. QED  BY <1>1, <1>4, <1>6, <1>8 DEF RoundInv

LEMMA RoundBuild ==
    ASSUME DecoderInv, RoundInv, Undamaged, Build
    PROVE  RoundInv'
<1>1. phase = "parsed" /\ UNCHANGED <<type, written, children>>
  BY DEF Build, Refuse
<1>2. type.kind # "named" /\ children = written
  BY <1>1 DEF DecoderInv, ChildShape, RoundInv
<1>3. phase' # "refused"
  <2>. SUFFICES ASSUME built # Len(children) PROVE Builds(built + 1)
    BY <1>1 DEF Build
  <2>1. Count \in Nat /\ Len(written) = Count /\ built \in Nat /\ built =< Len(children)
    BY <1>2, Lengths, TypeFacts DEF DecoderInv, WrittenShape
  <2>2. built + 1 \in 1..Count
    BY <1>2, <2>1
  <2>3. IsStructure \/ type.kind = "choice"
    BY <1>2, TypeFacts DEF DecoderInv, WellFormed, IsStructure
  <2>4. written[built + 1] # Void => Accepts(SpecFor(type, built + 1, written), written[built + 1].id)
    BY <1>1, <2>2, <2>3, WrittenBuilds DEF Undamaged
  <2>. QED  BY <1>2, <2>1, <2>2, <2>4 DEF Builds
<1>4. Count' = Count
  BY <1>1 DEF Count, FieldsOf
<1>. QED  BY <1>1, <1>2, <1>3, <1>4 DEF RoundInv, Undamaged

LEMMA RoundStep == DecoderInv /\ RoundInv /\ [Next]_vars => RoundInv'
<1>. SUFFICES ASSUME DecoderInv, RoundInv, [Next]_vars, Undamaged' PROVE RoundInv'
  BY DEF RoundInv
<1>1. type' = type /\ damage = "none"
  BY DEF Next, CannotDump, Dump, Damage, Load, SkipField, TakeField, OidRefused, FillFields,
         ParseSet, Choose, Rename, Build, Ended, Refuse, Undamaged, vars
<1>2. Undamaged
  BY <1>1 DEF Undamaged, Known
<1>3. CASE CannotDump \/ Dump \/ Load
  <2>1. /\ phase \in {"made", "sent"} /\ phase' \in {"sent", "parsing", "raised"}
        /\ children' = children /\ children = <<>>
    BY <1>3 DEF CannotDump, Dump, Load, DecoderInv, ChildShape
  <2>2. Count' = Count /\ Count \in Nat /\ Len(children') = 0
    BY <1>1, <2>1, TypeFacts DEF DecoderInv, Count, FieldsOf
  <2>. QED  BY <2>1, <2>2 DEF RoundInv
<1>4. CASE Damage
  BY <1>4 DEF Damage, Undamaged
<1>5. CASE SkipField \/ TakeField
  BY <1>2, <1>5, RoundParse
<1>6. CASE OidRefused
  <2>1. Len(children) + 1 =< Count /\ type.kind = "fields" /\ phase = "parsing"
        /\ ~OidBuilds(type, Len(children) + 1)
    BY <1>6 DEF OidRefused, ParsesField, Next1
  <2>. QED  BY <1>2, <2>1, OidBuildsHere
<1>7. CASE FillFields \/ ParseSet \/ Choose \/ Rename \/ Build
  BY <1>2, <1>7, RoundFill, RoundSet, RoundChoose, RoundRename, RoundBuild
<1>8. CASE UNCHANGED vars
  BY <1>8 DEF vars, RoundInv, Undamaged, Known, Count, FieldsOf
<1>. QED  BY <1>3, <1>4, <1>5, <1>6, <1>7, <1>8 DEF Next, Ended

\* What dump() writes of any value of any unambiguous type of the catalogue,
\* load() reads, and reads as the same fields or the same name.
THEOREM ReadsBack == Spec => []RoundTrip
<1>1. Init => RoundInv
  <2>. SUFFICES ASSUME Init PROVE RoundInv
    OBVIOUS
  <2>1. DecoderInv /\ phase = "made" /\ children = <<>>
    BY DecoderInit DEF Init
  <2>2. Count \in Nat /\ Len(children) = 0
    BY <2>1, TypeFacts DEF DecoderInv
  <2>. QED  BY <2>1, <2>2 DEF RoundInv
<1>2. RoundInv => RoundTrip
  BY DEF RoundInv, Undamaged, RoundTrip
<1>. QED  BY <1>1, <1>2, DecoderInvariant, RoundStep, PTL DEF Spec
=============================================================================
