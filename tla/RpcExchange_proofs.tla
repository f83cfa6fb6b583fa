------------------------- MODULE RpcExchange_proofs -------------------------
(***************************************************************************)
(* What the run of RpcExchange checks, proved for every number of items in *)
(* the lists and every set of parameters left out or empty.                *)
(*                                                                         *)
(* A call is a table of parameters of names of their own, and a text lies  *)
(* in the place of its parameter, item, member and field.  A reader whose  *)
(* parameters fit those written (Readable) reads a text in its own place   *)
(* or not at all (ReadTable), misses only the names it does not look for   *)
(* (LostWithin), gives up just when one of them is not there, and makes    *)
(* the signature of those it looks for (ReadCall).  Received says of each  *)
(* form that its parser is such a reader, and finds its method; Delivered  *)
(* says it of each answer.  The inductive invariant, IInv, says that the   *)
(* variables are what these make of the call under way.                    *)
(***************************************************************************)
EXTENDS RpcExchange, SequenceTheorems, FiniteSetTheorems, TLAPS

-----------------------------------------------------------------------------
(* The members of a sequence at the indices in a set.                      *)

Rank(T, i) == Cardinality({j \in T : j <= i})

\* A finite set's numbers have each a rank of their own.
LEMMA Ranks ==
  ASSUME NEW T \in SUBSET Nat, IsFiniteSet(T)
  PROVE  /\ Cardinality(T) \in Nat
         /\ \A i \in T : Rank(T, i) \in 1..Cardinality(T)
         /\ \A i, j \in T : Rank(T, i) = Rank(T, j) => i = j
         /\ \A k \in 1..Cardinality(T) : \E i \in T : Rank(T, i) = k
<1> DEFINE Upto(i) == {j \in T : j <= i}
           r == [i \in T |-> Rank(T, i)]
           n == Cardinality(T)
<1>0. \A i : Rank(T, i) = Cardinality(Upto(i))
  BY DEF Rank
<1>1. n \in Nat
  BY FS_CardinalityType
<1>2. \A i \in T : IsFiniteSet(Upto(i)) /\ Cardinality(Upto(i)) \in Nat /\ Cardinality(Upto(i)) <= n
  BY FS_Subset, FS_CardinalityType
<1>3. ASSUME NEW i \in T PROVE Rank(T, i) \in 1..n
  <2>1. i \in Upto(i)
    OBVIOUS
  <2>2. Cardinality(Upto(i)) # 0
    BY <2>1, <1>2, FS_EmptySet
  <2> QED
    BY <2>2, <1>0, <1>1, <1>2
<1>4. ASSUME NEW i \in T, NEW j \in T, i < j PROVE Rank(T, i) < Rank(T, j)
  <2>1. \A x \in T : x \in Nat
    OBVIOUS
  <2>2. \A x \in T : x <= i => x <= j
    BY <2>1, <1>4
  <2>3. Upto(i) \in SUBSET Upto(j)
    BY <2>2
  <2>4. j <= j /\ ~(j <= i)
    BY <2>1, <1>4
  <2>5. Upto(i) \in SUBSET Upto(j) /\ j \in Upto(j) /\ j \notin Upto(i)
    BY <2>3, <2>4
  <2>6. Cardinality(Upto(i)) <= Cardinality(Upto(j)) /\ Cardinality(Upto(i)) # Cardinality(Upto(j))
    BY <2>5, <1>2, FS_Subset
  <2>7. Cardinality(Upto(i)) < Cardinality(Upto(j))
    <3> HIDE DEF Upto
    <3> QED
      BY <2>6, <1>2
  <2> QED
    BY <2>7, <1>0
<1>5. \A i, j \in T : Rank(T, i) = Rank(T, j) => i = j
  <2> SUFFICES ASSUME NEW i \in T, NEW j \in T, i # j PROVE Rank(T, i) # Rank(T, j)
    OBVIOUS
  <2>1. i < j \/ j < i
    OBVIOUS
  <2>2. Rank(T, i) \in Nat /\ Rank(T, j) \in Nat
    BY <1>1, <1>3
  <2> QED
    BY <2>1, <2>2, <1>4
<1>6. r \in Injection(T, 1..n)
  BY <1>3, <1>5 DEF Injection, IsInjective
<1>7. IsFiniteSet(1..n) /\ Cardinality(1..n) = n
  BY <1>1, FS_Interval
<1>8. r \in Surjection(T, 1..n)
  BY <1>6, <1>7, FS_Injection
<1>9. \A k \in 1..n : \E i \in T : r[i] = k
  BY <1>8 DEF Surjection
<1> QED
  BY <1>1, <1>3, <1>5, <1>9

\* Nth numbers a finite set, from 1.
LEMMA Numbered ==
  ASSUME NEW T \in SUBSET Nat, IsFiniteSet(T)
  PROVE  /\ \A i \in T : Nth(T, Rank(T, i)) = i
         /\ \A k \in 1..Cardinality(T) : Nth(T, k) \in T /\ Rank(T, Nth(T, k)) = k
<1>1. ASSUME NEW k \in 1..Cardinality(T) PROVE Nth(T, k) \in T /\ Rank(T, Nth(T, k)) = k
  <2>1. \E i \in T : Rank(T, i) = k
    BY Ranks
  <2>2. Nth(T, k) = CHOOSE i \in T : Rank(T, i) = k
    BY DEF Nth, Rank
  <2> QED
    BY <2>1, <2>2, Zenon
<1>2. ASSUME NEW i \in T PROVE Nth(T, Rank(T, i)) = i
  <2>1. Rank(T, i) \in 1..Cardinality(T)
    BY Ranks
  <2>2. Nth(T, Rank(T, i)) \in T /\ Rank(T, Nth(T, Rank(T, i))) = Rank(T, i)
    BY <2>1, <1>1
  <2>3. \A j \in T : Rank(T, j) = Rank(T, i) => j = i
    BY Ranks
  <2> QED
    BY <2>2, <2>3
<1> QED
  BY <1>1, <1>2

\* Of no index, nothing.
LEMMA OnlyNone == ASSUME NEW s PROVE Only(s, {}) = << >>
BY FS_EmptySet DEF Only

\* Of one index, one member.
LEMMA OnlyOne ==
  ASSUME NEW s, NEW r \in Nat
  PROVE  Only(s, {r}) = << s[r] >>
<1>1. IsFiniteSet({r}) /\ Cardinality({r}) = 1 /\ {r} \in SUBSET Nat
  BY FS_Singleton
<1>2. Nth({r}, 1) = r
  BY <1>1, Numbered
<1>3. Only(s, {r}) = [k \in 1..1 |-> s[Nth({r}, k)]]
  BY <1>1 DEF Only
<1>4. \A f : f = [k \in 1..1 |-> f[k]] => f = << f[1] >>
  OBVIOUS
<1> QED
  BY <1>2, <1>3, <1>4

\* Of all the indices, the sequence.
LEMMA OnlyAll ==
  ASSUME NEW s, NEW n \in Nat
  PROVE  Only(s, 1..n) = [k \in 1..n |-> s[k]]
<1>1. IsFiniteSet(1..n) /\ Cardinality(1..n) = n /\ 1..n \in SUBSET Nat
  BY FS_Interval
<1>2. ASSUME NEW k \in 1..n PROVE Nth(1..n, k) = k
  <2>1. {j \in 1..n : j <= k} = 1..k
    OBVIOUS
  <2>2. Cardinality(1..k) = k
    BY FS_Interval
  <2>3. Rank(1..n, k) = k
    BY <2>1, <2>2 DEF Rank
  <2> QED
    BY <2>3, <1>1, Numbered
<1> QED
  BY <1>1, <1>2 DEF Only

-----------------------------------------------------------------------------
(* Children by name.                                                       *)

\* The only child of a name is the one that is found.
LEMMA OneChild ==
  ASSUME NEW kids, NEW m \in Nat, DOMAIN kids = 1..m, NEW r \in 1..m, NEW nm,
         \A k \in 1..m : kids[k].tag = nm <=> k = r
  PROVE  ChildrenNamed(kids, nm) = << kids[r] >>
<1>1. {k \in DOMAIN kids : kids[k].tag = nm} = {r}
  OBVIOUS
<1> QED
  BY <1>1, OnlyOne DEF ChildrenNamed

\* No child of a name, none found.
LEMMA NoChild ==
  ASSUME NEW kids, NEW nm, \A k \in DOMAIN kids : kids[k].tag # nm
  PROVE  ChildrenNamed(kids, nm) = << >>
<1>1. {k \in DOMAIN kids : kids[k].tag = nm} = {}
  OBVIOUS
<1> QED
  BY <1>1, OnlyNone DEF ChildrenNamed

\* Children of one name are all found, in their order: the items of a list.
LEMMA AllChildren ==
  ASSUME NEW kids, NEW m \in Nat, DOMAIN kids = 1..m, NEW nm,
         \A k \in 1..m : kids[k].tag = nm
  PROVE  /\ ChildrenNamed(kids, nm) = [k \in 1..m |-> kids[k]]
         /\ Len(ChildrenNamed(kids, nm)) = m
<1>1. {k \in DOMAIN kids : kids[k].tag = nm} = 1..m
  OBVIOUS
<1>2. ChildrenNamed(kids, nm) = [k \in 1..m |-> kids[k]]
  BY <1>1, OnlyAll DEF ChildrenNamed
<1>3. Len([k \in 1..m |-> kids[k]]) = m
  OBVIOUS
<1> QED
  BY <1>2, <1>3

-----------------------------------------------------------------------------
(* What the readers make of a row of children, each of a name of its own.  *)

Counted(s)  == \E m \in Nat : DOMAIN s = 1..m
Distinct(s) == \A i, j \in DOMAIN s : s[i].name = s[j].name => i = j

\* The children are named as the shapes of a row.
Tagged(kids, fs) ==
  /\ Counted(fs) /\ Distinct(fs)
  /\ DOMAIN kids = DOMAIN fs
  /\ \A k \in DOMAIN fs : kids[k].tag = fs[k].name

\* Of a row, the child of a shape's name.
LEMMA FoundChild ==
  ASSUME NEW kids, NEW fs, Tagged(kids, fs), NEW r \in DOMAIN fs
  PROVE  LET found == ChildrenNamed(kids, fs[r].name)
         IN  found # << >> /\ found[1] = kids[r] /\ Len(found) = 1
<1>1. PICK m \in Nat : DOMAIN fs = 1..m
  BY DEF Tagged, Counted
<1>2. \A k \in 1..m : kids[k].tag = fs[r].name <=> k = r
  BY <1>1 DEF Tagged, Distinct
<1>3. ChildrenNamed(kids, fs[r].name) = << kids[r] >>
  BY <1>1, <1>2, OneChild DEF Tagged
<1> QED
  BY <1>3

\* A name that is not in the row.
LEMMA NoneFound ==
  ASSUME NEW kids, NEW fs, Tagged(kids, fs), NEW nm, \A k \in DOMAIN fs : fs[k].name # nm
  PROVE  ChildrenNamed(kids, nm) = << >>
BY NoChild DEF Tagged

\* A simple value is read from the child of its name.
LEMMA SimpleRead ==
  ASSUME NEW kids, NEW fs, Tagged(kids, fs), NEW r \in DOMAIN fs, NEW a, a.name = fs[r].name
  PROVE  getSimpleValue(kids, a) =
           IF kids[r].text = NoText THEN Void(a.name) ELSE Val(a.name, a.type, kids[r].text, << >>)
BY FoundChild DEF getSimpleValue

\* A simple value that is not in the row is void.
LEMMA SimpleUnread ==
  ASSUME NEW kids, NEW fs, Tagged(kids, fs), NEW a, \A k \in DOMAIN fs : fs[k].name # a.name
  PROVE  getSimpleValue(kids, a) = Void(a.name)
BY NoneFound DEF getSimpleValue

\* A struct's members are read from its child's.
LEMMA StructRead ==
  ASSUME NEW kids, NEW fs, Tagged(kids, fs), NEW r \in DOMAIN fs, NEW a, a.name = fs[r].name,
         a.type = "struct"
  PROVE  getMember(kids, a) =
           Val(a.name, "struct", NoText,
               [k \in DOMAIN a.fields |-> getSimpleValue(kids[r].kids, a.fields[k])])
BY FoundChild DEF getMember

\* A struct that is not in the row has no member, and is not void.
LEMMA StructUnread ==
  ASSUME NEW kids, NEW fs, Tagged(kids, fs), NEW a, \A k \in DOMAIN fs : fs[k].name # a.name,
         a.type = "struct"
  PROVE  getMember(kids, a) = Val(a.name, "struct", NoText, << >>)
BY NoneFound DEF getMember

-----------------------------------------------------------------------------
(* Shapes, and the texts that a caller's values and a reader's share.      *)

SimpleShape(s) == s.type \in {"string", "int"}
SimpleRow(fs)  == Counted(fs) /\ Distinct(fs) /\ \A k \in DOMAIN fs : SimpleShape(fs[k])
MemberShape(s) == SimpleShape(s) \/ (s.type = "struct" /\ SimpleRow(s.fields))
MemberRow(fs)  == Counted(fs) /\ Distinct(fs) /\ \A k \in DOMAIN fs : MemberShape(fs[k])
ParamShape(s)  == MemberShape(s) \/ (s.type = "array" /\ MemberRow(s.fields))
Table(C)       == Counted(C) /\ Distinct(C) /\ \A k \in DOMAIN C : ParamShape(C[k])

\* What is written as b can be read as a.
MemberFits(a, b) ==
  \/ SimpleShape(a) /\ SimpleShape(b)
  \/ a.type = "struct" /\ b.type = "struct"
RowFits(ws, fs)  ==
  \A j \in DOMAIN ws, k \in DOMAIN fs : ws[j].name = fs[k].name => MemberFits(ws[j], fs[k])
Fits(a, b) ==
  \/ MemberFits(a, b)
  \/ a.type = "array" /\ b.type = "array" /\ RowFits(a.fields, b.fields)

\* A text in its place.
Twice(p) == <<p, p>>

Shared(ws, fs) == {j \in DOMAIN ws : \E k \in DOMAIN fs : fs[k].name = ws[j].name}

\* The texts of b that are read as a, both at a place.
Common(a, b, at) ==
  IF a.type = "struct"
  THEN {Twice(Place(Place(at, a.name, 0), a.fields[j].name, 0)) : j \in Shared(a.fields, b.fields)}
  ELSE {Twice(Place(at, a.name, 0))}

\* A text that is filled is not the empty one.
LEMMA PlaceIsText == ASSUME NEW at, NEW nm, NEW i PROVE Place(at, nm, i) # NoText
BY DEF Place, NoText

\* A simple value's text.
LEMMA FilledSimple ==
  ASSUME NEW s, NEW at
  PROVE  TextAt(FillSimple(s, at), Place(at, s.name, 0)) = {Twice(Place(at, s.name, 0))}
BY PlaceIsText DEF FillSimple, TextAt, Val, Twice

\* A member without any in it.
LEMMA AloneTexts ==
  ASSUME NEW v, v.kids = << >>, NEW at
  PROVE  MemberTexts(v, at) = TextAt(v, Place(at, v.name, 0))
BY DEF MemberTexts

\* A struct's texts are its members'.
LEMMA StructTexts ==
  ASSUME NEW nm, NEW kids, NEW at, NEW q
  PROVE  q \in MemberTexts(Val(nm, "struct", NoText, kids), at)
           <=> \E k \in DOMAIN kids : q \in TextAt(kids[k], Place(Place(at, nm, 0), kids[k].name, 0))
<1>1. TextAt(Val(nm, "struct", NoText, kids), Place(at, nm, 0)) = {}
  BY DEF TextAt, Val
<1> QED
  BY <1>1 DEF MemberTexts, Val

\* Whatever the caller fills a member with lies in its place.
LEMMA FilledMember ==
  ASSUME NEW b, MemberShape(b), NEW at
  PROVE  MemberTexts(FillMember(b, at), at) = Common(b, b, at)
<1> DEFINE here == Place(at, b.name, 0)
<1>1. CASE b.type = "struct"
  <2> DEFINE kids == [k \in DOMAIN b.fields |-> FillSimple(b.fields[k], here)]
  <2>1. FillMember(b, at) = Val(b.name, "struct", NoText, kids)
    BY <1>1 DEF FillMember
  <2>2. \A k \in DOMAIN b.fields : kids[k].name = b.fields[k].name
    BY DEF FillSimple, Val
  <2>3. \A k \in DOMAIN b.fields : TextAt(kids[k], Place(here, kids[k].name, 0))
                                     = {Twice(Place(here, b.fields[k].name, 0))}
    BY <2>2, FilledSimple
  <2>4. DOMAIN kids = DOMAIN b.fields
    OBVIOUS
  <2> HIDE DEF kids
  <2>5. ASSUME NEW q
        PROVE  q \in MemberTexts(FillMember(b, at), at)
                 <=> \E k \in DOMAIN b.fields : q = Twice(Place(here, b.fields[k].name, 0))
    <3>1. q \in MemberTexts(FillMember(b, at), at)
            <=> \E k \in DOMAIN kids : q \in TextAt(kids[k], Place(here, kids[k].name, 0))
      BY <2>1, StructTexts
    <3> QED
      BY <3>1, <2>3, <2>4
  <2>6. Shared(b.fields, b.fields) = DOMAIN b.fields
    BY DEF Shared
  <2>7. ASSUME NEW q
        PROVE  q \in Common(b, b, at)
                 <=> \E k \in DOMAIN b.fields : q = Twice(Place(here, b.fields[k].name, 0))
    BY <1>1, <2>6 DEF Common
  <2> QED
    BY <2>5, <2>7
<1>2. CASE b.type # "struct"
  <2>1. FillMember(b, at) = FillSimple(b, at)
    BY <1>2 DEF FillMember
  <2>2. FillSimple(b, at).kids = << >> /\ FillSimple(b, at).name = b.name
    BY DEF FillSimple, Val
  <2> QED
    <3>1. MemberTexts(FillSimple(b, at), at)
            = TextAt(FillSimple(b, at), Place(at, FillSimple(b, at).name, 0))
      BY <2>2, AloneTexts
    <3> QED
      BY <1>2, <2>1, <2>2, <3>1, FilledSimple DEF Common
<1> QED
  BY <1>1, <1>2

\* A void value has no text.
LEMMA VoidTexts == ASSUME NEW nm, NEW at PROVE MemberTexts(Void(nm), at) = {}
<1>1. Void(nm).kids = << >> /\ TextAt(Void(nm), Place(at, Void(nm).name, 0)) = {}
  BY DEF Void, Val, TextAt
<1> QED
  BY <1>1, AloneTexts

\* What is simple is no struct.
LEMMA SimpleIsNone ==
  ASSUME NEW a, SimpleShape(a)
  PROVE  a.type # "struct" /\ a.type # "array" /\ a.type # "void"
BY DEF SimpleShape

\* A simple member is read as a simple value.
LEMMA SimpleMember ==
  ASSUME NEW a, SimpleShape(a), NEW kids
  PROVE  getMember(kids, a) = getSimpleValue(kids, a)
BY SimpleIsNone DEF getMember

\* A member is read from what it is written as.
LEMMA ReadSame ==
  ASSUME NEW kids, NEW fs, Tagged(kids, fs), NEW r \in DOMAIN fs, NEW at,
         MemberShape(fs[r]), kids[r] = MemberXml(FillMember(fs[r], at)),
         NEW a, MemberShape(a), a.name = fs[r].name, MemberFits(a, fs[r])
  PROVE  /\ MemberTexts(getMember(kids, a), at) = Common(a, fs[r], at)
         /\ getMember(kids, a).type = a.type /\ getMember(kids, a).name = a.name
<1> DEFINE b == fs[r]
           here == Place(at, a.name, 0)
<1>1. CASE SimpleShape(a) /\ SimpleShape(b)
  <2>1. FillMember(b, at) = FillSimple(b, at)
    BY <1>1, SimpleIsNone DEF FillMember
  <2>2. kids[r].text = here
    BY <2>1 DEF MemberXml, Element, FillSimple, Val
  <2>3. getMember(kids, a) = Val(a.name, a.type, here, << >>)
    <3>1. kids[r].text # NoText
      BY <2>2, PlaceIsText
    <3>2. getSimpleValue(kids, a) = Val(a.name, a.type, kids[r].text, << >>)
      BY <3>1, SimpleRead
    <3> QED
      BY <1>1, <2>2, <3>2, SimpleMember
  <2> DEFINE v == getMember(kids, a)
  <2>4. v.kids = << >> /\ v.name = a.name /\ v.type = a.type /\ v.text = here
    BY <2>3 DEF Val
  <2>5. TextAt(v, here) = {Twice(here)}
    BY <2>4, PlaceIsText DEF TextAt, Twice
  <2>6. MemberTexts(v, at) = TextAt(v, Place(at, v.name, 0))
    BY <2>4, AloneTexts
  <2>7. Common(a, b, at) = {Twice(here)}
    BY <1>1, SimpleIsNone DEF Common
  <2> QED
    BY <2>4, <2>5, <2>6, <2>7
<1>2. CASE a.type = "struct" /\ b.type = "struct"
  <2> DEFINE inner == [k \in DOMAIN b.fields |-> FillSimple(b.fields[k], here)]
             row == kids[r].kids
             read == [k \in DOMAIN a.fields |-> getSimpleValue(row, a.fields[k])]
  <2>1. SimpleRow(a.fields) /\ SimpleRow(b.fields)
    BY <1>2, SimpleIsNone DEF MemberShape
  <2>2. FillMember(b, at) = Val(b.name, "struct", NoText, inner)
    BY <1>2 DEF FillMember
  <2>3. row = [k \in DOMAIN inner |-> SimpleXml(inner[k])]
    BY <2>2 DEF MemberXml, Element, Val
  <2>4. \A k \in DOMAIN b.fields : /\ row[k].tag = b.fields[k].name
                                   /\ row[k].text = Place(here, b.fields[k].name, 0)
    <3>1. \A k \in DOMAIN b.fields : row[k] = SimpleXml(FillSimple(b.fields[k], here))
      BY <2>3
    <3>2. \A s : /\ SimpleXml(FillSimple(s, here)).tag = s.name
                 /\ SimpleXml(FillSimple(s, here)).text = Place(here, s.name, 0)
      BY DEF SimpleXml, Element, FillSimple, Val
    <3> QED
      BY <3>1, <3>2
  <2>5. DOMAIN row = DOMAIN b.fields
    BY <2>3
  <2>6. Tagged(row, b.fields)
    BY <2>1, <2>4, <2>5 DEF Tagged, SimpleRow
  <2>7. getMember(kids, a) = Val(a.name, "struct", NoText, read)
    BY <1>2, StructRead
  <2>8. ASSUME NEW j \in DOMAIN a.fields
        PROVE  TextAt(read[j], Place(here, read[j].name, 0)) =
                 IF j \in Shared(a.fields, b.fields) THEN {Twice(Place(here, a.fields[j].name, 0))} ELSE {}
    <3>0. read[j] = getSimpleValue(row, a.fields[j])
      OBVIOUS
    <3>1. CASE j \in Shared(a.fields, b.fields)
      <4>1. PICK k \in DOMAIN b.fields : b.fields[k].name = a.fields[j].name
        BY <3>1 DEF Shared
      <4>2. row[k].text = Place(here, a.fields[j].name, 0) /\ row[k].text # NoText
        BY <2>4, <4>1, PlaceIsText
      <4>3. getSimpleValue(row, a.fields[j])
              = Val(a.fields[j].name, a.fields[j].type, Place(here, a.fields[j].name, 0), << >>)
        BY <2>6, <4>1, <4>2, SimpleRead
      <4>4. read[j].name = a.fields[j].name /\ read[j].text = Place(here, a.fields[j].name, 0)
        BY <3>0, <4>3 DEF Val
      <4> HIDE DEF read, here
      <4> QED
        BY <3>1, <4>4, PlaceIsText DEF TextAt, Twice
    <3>2. CASE j \notin Shared(a.fields, b.fields)
      <4>1. \A k \in DOMAIN b.fields : b.fields[k].name # a.fields[j].name
        BY <3>2 DEF Shared
      <4>2. getSimpleValue(row, a.fields[j]) = Void(a.fields[j].name)
        BY <2>6, <4>1, SimpleUnread
      <4>3. read[j].text = NoText
        BY <3>0, <4>2 DEF Void, Val
      <4> HIDE DEF read, here
      <4> QED
        BY <3>2, <4>3 DEF TextAt
    <3> QED
      BY <3>1, <3>2
  <2>9. ASSUME NEW q
        PROVE  q \in MemberTexts(getMember(kids, a), at) <=> q \in Common(a, b, at)
    <3>1. DOMAIN read = DOMAIN a.fields
      OBVIOUS
    <3> HIDE DEF read
    <3>2. q \in MemberTexts(getMember(kids, a), at)
            <=> \E k \in DOMAIN read : q \in TextAt(read[k], Place(here, read[k].name, 0))
      BY <2>7, StructTexts
    <3>3. q \in MemberTexts(getMember(kids, a), at)
            <=> \E j \in Shared(a.fields, b.fields) : q = Twice(Place(here, a.fields[j].name, 0))
      BY <3>1, <3>2, <2>8 DEF Shared
    <3> QED
      BY <1>2, <3>3 DEF Common
  <2>10. getMember(kids, a).type = a.type /\ getMember(kids, a).name = a.name
    BY <1>2, <2>7 DEF Val
  <2> QED
    BY <2>9, <2>10
<1> QED
  BY <1>1, <1>2 DEF MemberFits

\* A member that is not there, or empty, has no text.
LEMMA ReadOther ==
  ASSUME NEW kids, NEW fs, Tagged(kids, fs), NEW at, NEW a, MemberShape(a),
         \A k \in DOMAIN fs : fs[k].name = a.name => SimpleShape(a) /\ kids[k].text = NoText
  PROVE  /\ MemberTexts(getMember(kids, a), at) = {}
         /\ getMember(kids, a).type = IF a.type = "struct" THEN "struct" ELSE "void"
         /\ getMember(kids, a).name = a.name
<1>1. CASE a.type = "struct"
  <2>1. \A k \in DOMAIN fs : fs[k].name # a.name
    BY <1>1, SimpleIsNone
  <2>2. getMember(kids, a) = Val(a.name, "struct", NoText, << >>)
    BY <1>1, <2>1, StructUnread
  <2>3. /\ Val(a.name, "struct", NoText, << >>).kids = << >>
        /\ TextAt(Val(a.name, "struct", NoText, << >>),
                   Place(at, Val(a.name, "struct", NoText, << >>).name, 0)) = {}
    BY DEF Val, TextAt
  <2>4. MemberTexts(Val(a.name, "struct", NoText, << >>), at) = {}
    BY <2>3, AloneTexts
  <2> QED
    BY <1>1, <2>2, <2>4 DEF Val
<1>2. CASE a.type # "struct"
  <2>1. SimpleShape(a)
    BY <1>2 DEF MemberShape
  <2>2. getMember(kids, a) = Void(a.name)
    <3>1. CASE \E k \in DOMAIN fs : fs[k].name = a.name
      <4>1. PICK k \in DOMAIN fs : fs[k].name = a.name
        BY <3>1
      <4>2. kids[k].text = NoText
        BY <4>1
      <4>3. getSimpleValue(kids, a) = Void(a.name)
        BY <4>1, <4>2, SimpleRead
      <4> QED
        BY <2>1, <4>3, SimpleMember
    <3>2. CASE \A k \in DOMAIN fs : fs[k].name # a.name
      BY <2>1, <3>2, SimpleUnread, SimpleMember
    <3> QED
      BY <3>1, <3>2
  <2> QED
    BY <1>2, <2>2, VoidTexts DEF Void, Val
<1> QED
  BY <1>1, <1>2

-----------------------------------------------------------------------------
(* Items, and parameters.                                                  *)

\* q is a text of a row fs that is read by a row ws.
InRow(q, ws, fs, at) ==
  \E j \in DOMAIN ws, k \in DOMAIN fs : ws[j].name = fs[k].name /\ q \in Common(ws[j], fs[k], at)

\* q is a text of parameter b, its list of n items if it is one, that is read
\* as a.
InParam(q, a, b, n) ==
  IF a.type = "array"
  THEN \E i \in 1..n : InRow(q, a.fields, b.fields, Place(Place(Top, a.name, 0), "URL", i))
  ELSE q \in Common(a, b, Top)

\* A member is written under its name.
LEMMA MemberNamed ==
  ASSUME NEW s, NEW at
  PROVE  FillMember(s, at).name = s.name /\ MemberXml(FillMember(s, at)).tag = s.name
BY DEF FillMember, FillSimple, Val, MemberXml, Element

\* A row against itself.
LEMMA OwnRow ==
  ASSUME NEW fs, MemberRow(fs), NEW at, NEW q
  PROVE  InRow(q, fs, fs, at) <=> \E k \in DOMAIN fs : q \in Common(fs[k], fs[k], at)
BY DEF InRow, MemberRow, Distinct

\* What an item is filled with lies in its place.
LEMMA FilledItem ==
  ASSUME NEW fs, MemberRow(fs), NEW at, NEW i, NEW q
  PROVE  q \in ItemTexts(FillItem(fs, at, i), at, i) <=> InRow(q, fs, fs, Place(at, "URL", i))
<1> DEFINE here == Place(at, "URL", i)
           kids == [k \in DOMAIN fs |-> FillMember(fs[k], here)]
<1>1. FillItem(fs, at, i).kids = kids /\ FillItem(fs, at, i).name = "URL"
  BY DEF FillItem, Val
<1>2. DOMAIN kids = DOMAIN fs /\ \A k \in DOMAIN fs : kids[k] = FillMember(fs[k], here)
  OBVIOUS
<1>3. \A k \in DOMAIN fs : MemberTexts(FillMember(fs[k], here), here) = Common(fs[k], fs[k], here)
  BY FilledMember DEF MemberRow
<1> HIDE DEF kids, here
<1>4. ItemTexts(FillItem(fs, at, i), at, i) = UNION {MemberTexts(kids[k], here) : k \in DOMAIN kids}
  BY <1>1 DEF ItemTexts, here
<1>5. q \in ItemTexts(FillItem(fs, at, i), at, i) <=> \E k \in DOMAIN fs : q \in Common(fs[k], fs[k], here)
  BY <1>2, <1>3, <1>4
<1> QED
  BY <1>5, OwnRow DEF here

\* A row's members are read each from the one of its name.
LEMMA ReadRow ==
  ASSUME NEW row, NEW fs, MemberRow(fs), Tagged(row, fs), NEW here,
         \A k \in DOMAIN fs : row[k] = MemberXml(FillMember(fs[k], here)),
         NEW ws, MemberRow(ws), RowFits(ws, fs), NEW j \in DOMAIN ws, NEW q
  PROVE  q \in MemberTexts(getMember(row, ws[j]), here)
           <=> \E k \in DOMAIN fs : ws[j].name = fs[k].name /\ q \in Common(ws[j], fs[k], here)
<1>1. MemberShape(ws[j])
  BY DEF MemberRow
<1>2. CASE \E k \in DOMAIN fs : ws[j].name = fs[k].name
  <2>1. PICK k \in DOMAIN fs : ws[j].name = fs[k].name
    BY <1>2
  <2>2. MemberFits(ws[j], fs[k]) /\ MemberShape(fs[k]) /\ row[k] = MemberXml(FillMember(fs[k], here))
    BY <2>1 DEF RowFits, MemberRow
  <2>3. MemberTexts(getMember(row, ws[j]), here) = Common(ws[j], fs[k], here)
    BY <1>1, <2>1, <2>2, ReadSame
  <2>4. \A m \in DOMAIN fs : ws[j].name = fs[m].name => m = k
    BY <2>1 DEF MemberRow, Distinct
  <2> QED
    BY <2>1, <2>3, <2>4
<1>3. CASE \A k \in DOMAIN fs : ws[j].name # fs[k].name
  <2>1. MemberTexts(getMember(row, ws[j]), here) = {}
    <3>1. \A k \in DOMAIN fs : fs[k].name = ws[j].name => SimpleShape(ws[j]) /\ row[k].text = NoText
      BY <1>3
    <3> QED
      BY <1>1, <3>1, ReadOther
  <2> QED
    BY <1>3, <2>1
<1> QED
  BY <1>2, <1>3

\* An item is read from what it is written as, whatever its index.
LEMMA ReadItem ==
  ASSUME NEW kids, NEW n \in Nat, DOMAIN kids = 1..n, NEW at, NEW i \in 1..n,
         NEW fs, MemberRow(fs), \A m \in 1..n : kids[m] = ItemXml(FillItem(fs, at, m)),
         NEW ws, MemberRow(ws), RowFits(ws, fs), NEW q
  PROVE  q \in ItemTexts(getStructValue(kids, "URL", ws, i), at, i)
           <=> InRow(q, ws, fs, Place(at, "URL", i))
<1> DEFINE here == Place(at, "URL", i)
           row == kids[i].kids
           read == [k \in DOMAIN ws |-> getMember(row, ws[k])]
<1>1. \A m : ItemXml(FillItem(fs, at, m)).tag = "URL"
  BY DEF ItemXml, Element, FillItem, Val
<1>2. \A m \in 1..n : kids[m].tag = "URL"
  BY <1>1
<1>3. getStructValue(kids, "URL", ws, i) = Val("URL", "struct", NoText, read)
  <2>1. ChildrenNamed(kids, "URL") = [k \in 1..n |-> kids[k]] /\ Len(ChildrenNamed(kids, "URL")) = n
    BY <1>2, AllChildren
  <2>2. ~(i > Len(ChildrenNamed(kids, "URL"))) /\ ChildrenNamed(kids, "URL")[i] = kids[i]
    BY <2>1
  <2> QED
    BY <2>2 DEF getStructValue
<1>4. /\ DOMAIN row = DOMAIN fs
      /\ \A k \in DOMAIN fs : row[k] = MemberXml(FillMember(fs[k], here))
  <2> DEFINE filled == [k \in DOMAIN fs |-> FillMember(fs[k], here)]
  <2>1. FillItem(fs, at, i).kids = filled
    BY DEF FillItem, Val
  <2>2. row = [k \in DOMAIN filled |-> MemberXml(filled[k])]
    BY <2>1 DEF ItemXml, Element
  <2> QED
    BY <2>2
<1>5. Tagged(row, fs)
  BY <1>4, MemberNamed DEF Tagged, MemberRow
<1>6. ASSUME NEW j \in DOMAIN ws
      PROVE  /\ read[j] = getMember(row, ws[j])
             /\ MemberShape(ws[j])
  BY DEF MemberRow
<1>7. ASSUME NEW j \in DOMAIN ws
      PROVE  q \in MemberTexts(read[j], here)
               <=> \E k \in DOMAIN fs : ws[j].name = fs[k].name /\ q \in Common(ws[j], fs[k], here)
  <2> HIDE DEF row, here, read
  <2>1. q \in MemberTexts(getMember(row, ws[j]), here)
           <=> \E k \in DOMAIN fs : ws[j].name = fs[k].name /\ q \in Common(ws[j], fs[k], here)
    BY <1>4, <1>5, ReadRow
  <2> QED
    BY <1>6, <2>1
<1>8. DOMAIN read = DOMAIN ws
  OBVIOUS
<1> HIDE DEF read, here, row
<1>9. ItemTexts(Val("URL", "struct", NoText, read), at, i)
        = UNION {MemberTexts(read[k], here) : k \in DOMAIN read}
  BY DEF ItemTexts, Val, here
<1>10. q \in ItemTexts(getStructValue(kids, "URL", ws, i), at, i)
         <=> \E j \in DOMAIN ws : q \in MemberTexts(read[j], here)
  BY <1>3, <1>8, <1>9
<1> QED
  BY <1>7, <1>10 DEF InRow, here

\* A member is filled with a value of its type.
LEMMA MemberType ==
  ASSUME NEW s, MemberShape(s), NEW at
  PROVE  /\ s.type # "array" /\ s.type # "void"
         /\ FillMember(s, at).type = s.type
BY SimpleIsNone DEF MemberShape, FillMember, FillSimple, Val

\* A list's texts are its items'.
LEMMA ListTexts ==
  ASSUME NEW nm, NEW items, NEW n, DOMAIN items = 1..n, NEW q
  PROVE  q \in Texts(Val(nm, "array", NoText, items))
           <=> \E i \in 1..n : q \in ItemTexts(items[i], Place(Top, nm, 0), i)
BY DEF Texts, Val

\* What the caller fills a parameter with lies in its place.
LEMMA FilledParam ==
  ASSUME NEW b, ParamShape(b), NEW n \in Nat, NEW q
  PROVE  q \in Texts(Fill(b, n)) <=> InParam(q, b, b, n)
<1>1. CASE MemberShape(b)
  <2>1. b.type # "array" /\ FillMember(b, Top).type = b.type
    BY <1>1, MemberType
  <2>2. Fill(b, n) = FillMember(b, Top)
    BY <2>1 DEF Fill
  <2>3. Texts(FillMember(b, Top)) = MemberTexts(FillMember(b, Top), Top)
    BY <2>1 DEF Texts
  <2> QED
    BY <1>1, <2>1, <2>2, <2>3, FilledMember DEF InParam
<1>2. CASE b.type = "array" /\ MemberRow(b.fields)
  <2> DEFINE here == Place(Top, b.name, 0)
             items == [i \in 1..n |-> FillItem(b.fields, here, i)]
  <2>1. Fill(b, n) = Val(b.name, "array", NoText, items)
    BY <1>2 DEF Fill
  <2>2. DOMAIN items = 1..n /\ \A i \in 1..n : items[i] = FillItem(b.fields, here, i)
    OBVIOUS
  <2>3. \A i : q \in ItemTexts(FillItem(b.fields, here, i), here, i)
                 <=> InRow(q, b.fields, b.fields, Place(here, "URL", i))
    BY <1>2, FilledItem
  <2> HIDE DEF items
  <2>4. q \in Texts(Fill(b, n)) <=> \E i \in 1..n : q \in ItemTexts(items[i], here, i)
    BY <2>1, <2>2, ListTexts
  <2> QED
    BY <1>2, <2>2, <2>3, <2>4 DEF InParam
<1> QED
  BY <1>1, <1>2 DEF ParamShape

\* A parameter is read from what it is written as.
LEMMA ReadParam ==
  ASSUME NEW kids, NEW fs, Tagged(kids, fs), NEW r \in DOMAIN fs, NEW n \in Nat,
         ParamShape(fs[r]), kids[r] = getXml(Fill(fs[r], n)),
         NEW a, ParamShape(a), a.name = fs[r].name, Fits(a, fs[r])
  PROVE  /\ \A q : q \in Texts(getValue(kids, a)) <=> InParam(q, a, fs[r], n)
         /\ getValue(kids, a).type = a.type
         /\ getValue(kids, a).name = a.name
<1> DEFINE b == fs[r]
<1>1. CASE MemberShape(a) /\ MemberShape(b) /\ MemberFits(a, b)
  <2>1. b.type # "array" /\ FillMember(b, Top).type = b.type /\ a.type # "array"
    BY <1>1, MemberType
  <2>2. Fill(b, n) = FillMember(b, Top)
    BY <2>1 DEF Fill
  <2>3. kids[r] = MemberXml(FillMember(b, Top))
    BY <2>1, <2>2 DEF getXml
  <2>4. /\ MemberTexts(getMember(kids, a), Top) = Common(a, b, Top)
        /\ getMember(kids, a).type = a.type /\ getMember(kids, a).name = a.name
    BY <1>1, <2>3, ReadSame
  <2>5. getValue(kids, a) = getMember(kids, a)
    BY <2>1 DEF getValue
  <2>6. Texts(getMember(kids, a)) = MemberTexts(getMember(kids, a), Top)
    BY <2>1, <2>4 DEF Texts
  <2> QED
    BY <2>1, <2>4, <2>5, <2>6 DEF InParam
<1>2. CASE /\ a.type = "array" /\ MemberRow(a.fields) /\ b.type = "array" /\ MemberRow(b.fields)
           /\ RowFits(a.fields, b.fields)
  <2> DEFINE here == Place(Top, a.name, 0)
             items == [i \in 1..n |-> FillItem(b.fields, here, i)]
             row == kids[r].kids
             read == [i \in 1..n |-> getStructValue(row, "URL", a.fields, i)]
  <2>1. Fill(b, n) = Val(b.name, "array", NoText, items)
    BY <1>2 DEF Fill
  <2>2. row = [i \in 1..n |-> ItemXml(items[i])]
    BY <2>1 DEF getXml, Element, Val
  <2>3. DOMAIN row = 1..n /\ \A i \in 1..n : row[i] = ItemXml(FillItem(b.fields, here, i))
    BY <2>2
  <2>4. getValue(kids, a) = Val(a.name, "array", NoText, read)
    <3>1. /\ ChildrenNamed(kids, a.name) # << >>
          /\ ChildrenNamed(kids, a.name)[1] = kids[r]
      BY FoundChild
    <3>2. getArrayValue(kids, a.name, "URL", a.fields) = Val(a.name, "array", NoText, read)
      BY <2>3, <3>1 DEF getArrayValue
    <3> QED
      BY <1>2, <3>2 DEF getValue
  <2>5. DOMAIN read = 1..n /\ \A i \in 1..n : read[i] = getStructValue(row, "URL", a.fields, i)
    OBVIOUS
  <2> HIDE DEF read, row
  <2>6. ASSUME NEW q, NEW i \in 1..n
        PROVE  q \in ItemTexts(read[i], here, i)
                 <=> InRow(q, a.fields, b.fields, Place(here, "URL", i))
    <3>1. q \in ItemTexts(getStructValue(row, "URL", a.fields, i), here, i)
            <=> InRow(q, a.fields, b.fields, Place(here, "URL", i))
      BY <1>2, <2>3, ReadItem
    <3> QED
      BY <2>5, <3>1
  <2>7. ASSUME NEW q
        PROVE  q \in Texts(getValue(kids, a)) <=> InParam(q, a, b, n)
    <3>1. q \in Texts(getValue(kids, a)) <=> \E i \in 1..n : q \in ItemTexts(read[i], here, i)
      BY <2>4, <2>5, ListTexts
    <3> QED
      BY <1>2, <2>6, <3>1 DEF InParam
  <2>8. getValue(kids, a).type = a.type /\ getValue(kids, a).name = a.name
    BY <1>2, <2>4 DEF Val
  <2> QED
    BY <2>7, <2>8
<1>3. \/ MemberShape(a) /\ MemberShape(b) /\ MemberFits(a, b)
      \/ /\ a.type = "array" /\ MemberRow(a.fields) /\ b.type = "array" /\ MemberRow(b.fields)
         /\ RowFits(a.fields, b.fields)
  <2>1. MemberFits(a, b) => a.type # "array" /\ b.type # "array"
    BY SimpleIsNone DEF MemberFits
  <2>2. a.type = "array" => ~MemberShape(a)
    BY MemberType
  <2>3. b.type = "array" => ~MemberShape(b)
    BY MemberType
  <2> QED
    BY <2>1, <2>2, <2>3 DEF Fits, ParamShape
<1> QED
  BY <1>1, <1>2, <1>3

\* A parameter that is not there, or empty, has no text; it is void, unless it
\* is a struct.
LEMMA ParamOther ==
  ASSUME NEW kids, NEW fs, Tagged(kids, fs), NEW a, ParamShape(a),
         \A k \in DOMAIN fs : fs[k].name = a.name => SimpleShape(a) /\ kids[k].text = NoText
  PROVE  /\ Texts(getValue(kids, a)) = {}
         /\ getValue(kids, a).type = IF a.type = "struct" THEN "struct" ELSE "void"
<1>1. CASE MemberShape(a)
  <2>1. a.type # "array"
    BY <1>1, MemberType
  <2>2. /\ MemberTexts(getMember(kids, a), Top) = {}
        /\ getMember(kids, a).type = IF a.type = "struct" THEN "struct" ELSE "void"
    BY <1>1, ReadOther
  <2>3. getValue(kids, a) = getMember(kids, a)
    BY <2>1 DEF getValue
  <2>4. Texts(getMember(kids, a)) = MemberTexts(getMember(kids, a), Top)
    BY <2>2 DEF Texts
  <2> QED
    BY <2>2, <2>3, <2>4
<1>2. CASE a.type = "array"
  <2>1. \A k \in DOMAIN fs : fs[k].name # a.name
    BY <1>2, SimpleIsNone
  <2>2. getArrayValue(kids, a.name, "URL", a.fields) = Void("unnamed")
    BY <2>1, NoneFound DEF getArrayValue
  <2>3. getValue(kids, a) = Void("unnamed")
    BY <1>2, <2>2 DEF getValue
  <2>4. Void("unnamed").type = "void"
    BY DEF Void, Val
  <2>5. Texts(Void("unnamed")) = {}
    BY <2>4, VoidTexts DEF Texts
  <2> QED
    BY <1>2, <2>3, <2>4, <2>5
<1> QED
  BY <1>1, <1>2 DEF ParamShape

-----------------------------------------------------------------------------
(* Calls and answers: what is sent with gaps, and what is read of it.      *)

\* The parameters that are there and not empty.
Given(C, g) == DOMAIN C \ (g.missing \cup g.empty)
Kept(C, g)  == DOMAIN C \ g.missing

\* Gaps a caller may leave; the strings left empty are simple.
Gaps(C, g) == g.missing \subseteq DOMAIN C /\ g.empty \subseteq {i \in DOMAIN C : SimpleShape(C[i])}

\* What the model lets a caller leave out or empty is a gap of its call.
LEMMA GapsAllowed ==
  ASSUME NEW C, NEW g \in GapsOf(C)
  PROVE  Gaps(C, g)
<1>1. PICK m \in SUBSET DOMAIN C, e \in SUBSET {i \in DOMAIN C : C[i].type = "string"} :
        g = [missing |-> m, empty |-> e]
  BY DEF GapsOf
<1>2. g.missing = m /\ g.empty = e
  BY <1>1
<1> QED
  BY <1>2 DEF Gaps, SimpleShape

\* So is leaving out nothing.
LEMMA NoGapsAllowed == ASSUME NEW C PROVE Gaps(C, NoGaps)
BY DEF Gaps, NoGaps

\* An empty string.
LEMMA EmptiedSimple ==
  ASSUME NEW s, SimpleShape(s), NEW n
  PROVE  /\ Emptied(Fill(s, n)) = Val(s.name, s.type, NoText, << >>)
         /\ getXml(Emptied(Fill(s, n))).text = NoText
         /\ Texts(Emptied(Fill(s, n))) = {}
<1> DEFINE v == Val(s.name, s.type, NoText, << >>)
<1>1. Fill(s, n) = Val(s.name, s.type, Place(Top, s.name, 0), << >>)
  BY SimpleIsNone DEF Fill, FillMember, FillSimple
<1>2. Emptied(Fill(s, n)) = v
  BY <1>1 DEF Emptied, Val
<1>3. v.type # "array" /\ v.kids = << >> /\ v.text = NoText
  BY SimpleIsNone DEF Val
<1>4. getXml(v).text = NoText
  BY <1>3 DEF getXml, MemberXml, Element
<1>5. Texts(v) = MemberTexts(v, Top)
  BY <1>3 DEF Texts
<1>6. TextAt(v, Place(Top, v.name, 0)) = {}
  BY <1>3 DEF TextAt
<1>7. Texts(v) = {}
  BY <1>3, <1>5, <1>6, AloneTexts
<1> QED
  BY <1>2, <1>4, <1>7

\* A parameter is written under its name.
LEMMA ParamNamed ==
  ASSUME NEW s, NEW n
  PROVE  Fill(s, n).name = s.name /\ getXml(Fill(s, n)).tag = s.name
<1>1. Fill(s, n).name = s.name
  BY DEF Fill, FillMember, FillSimple, Val
<1> QED
  BY <1>1 DEF getXml, MemberXml, Element

\* The parameters kept, and where each of them is.
LEMMA KeptOnes ==
  ASSUME NEW C, Table(C), NEW g
  PROVE  LET T == Kept(C, g) IN
         /\ Cardinality(T) \in Nat
         /\ \A i \in T : Rank(T, i) \in 1..Cardinality(T) /\ Nth(T, Rank(T, i)) = i
         /\ \A k \in 1..Cardinality(T) : Nth(T, k) \in T /\ Rank(T, Nth(T, k)) = k
<1> DEFINE T == Kept(C, g)
<1>1. PICK m \in Nat : DOMAIN C = 1..m
  BY DEF Table, Counted
<1>2. IsFiniteSet(1..m) /\ T \in SUBSET (1..m)
  <2>1. IsFiniteSet(1..m)
    BY FS_Interval
  <2> QED
    BY <1>1, <2>1 DEF Kept
<1>3. IsFiniteSet(T) /\ T \in SUBSET Nat
  BY <1>2, FS_Subset
<1> QED
  BY <1>3, Ranks, Numbered

\* A call as it is written: the parameters kept, in their order.
LEMMA Sent ==
  ASSUME NEW C, Table(C), NEW g, Gaps(C, g), NEW n
  PROVE  LET T == Kept(C, g)
             row == Only(C, T)
             values == Build(C, g, n)
         IN /\ DOMAIN values = 1..Cardinality(T) /\ DOMAIN row = 1..Cardinality(T)
            /\ \A k \in 1..Cardinality(T) :
                 /\ row[k] = C[Nth(T, k)] /\ values[k].name = row[k].name
                 /\ values[k] = IF Nth(T, k) \in g.empty THEN Emptied(Fill(row[k], n)) ELSE Fill(row[k], n)
            /\ Tagged(Xml(values), row)
<1> DEFINE T == Kept(C, g)
           row == Only(C, T)
           values == Build(C, g, n)
           c == Cardinality(T)
<1>0. c \in Nat /\ \A k \in 1..c : Nth(T, k) \in T /\ Rank(T, Nth(T, k)) = k
  BY KeptOnes
<1>1. DOMAIN values = 1..c /\ DOMAIN row = 1..c
  BY DEF Build, Only, Kept
<1>2. \A k \in 1..c : row[k] = C[Nth(T, k)] /\ values[k] = Built(C, g, n)[Nth(T, k)]
  BY DEF Build, Only, Kept
<1>3. \A k \in 1..c : Nth(T, k) \in DOMAIN C
  BY <1>0 DEF Kept
<1>4. \A i \in DOMAIN C : Built(C, g, n)[i] = IF i \in g.empty THEN Emptied(Fill(C[i], n)) ELSE Fill(C[i], n)
  BY DEF Built
<1> HIDE DEF values, row, c, T
<1>5. \A k \in 1..c : values[k] = IF Nth(T, k) \in g.empty THEN Emptied(Fill(row[k], n)) ELSE Fill(row[k], n)
  BY <1>2, <1>3, <1>4
<1>6. ASSUME NEW k \in 1..c
      PROVE  values[k].name = row[k].name /\ getXml(values[k]).tag = row[k].name
  <2>1. CASE Nth(T, k) \in g.empty
    <3>1. SimpleShape(row[k])
      BY <1>2, <2>1 DEF Gaps
    <3>2. values[k] = Val(row[k].name, row[k].type, NoText, << >>)
      BY <1>5, <2>1, <3>1, EmptiedSimple
    <3> QED
      BY <3>2 DEF Val, getXml, MemberXml, Element
  <2>2. CASE Nth(T, k) \notin g.empty
    BY <1>5, <2>2, ParamNamed
  <2> QED
    BY <2>1, <2>2
<1>7. Distinct(row)
  <2> SUFFICES ASSUME NEW k \in 1..c, NEW l \in 1..c, row[k].name = row[l].name
               PROVE  k = l
    BY <1>1 DEF Distinct
  <2>1. Nth(T, k) = Nth(T, l)
    BY <1>2, <1>3 DEF Table, Distinct
  <2> QED
    BY <2>1, <1>0
<1>8. Tagged(Xml(values), row)
  <2>1. DOMAIN Xml(values) = DOMAIN row /\ \A k \in DOMAIN row : Xml(values)[k] = getXml(values[k])
    BY <1>1 DEF Xml
  <2>2. Counted(row)
    BY <1>0, <1>1 DEF Counted
  <2> QED
    BY <1>1, <1>6, <1>7, <2>1, <2>2 DEF Tagged
<1> QED
  BY <1>1, <1>2, <1>5, <1>6, <1>8 DEF values, row, c, T

\* A text sent lies in the place of a parameter that is there.
LEMMA SentTexts ==
  ASSUME NEW C, Table(C), NEW g, Gaps(C, g), NEW n \in Nat, NEW q
  PROVE  q \in TextsOf(Build(C, g, n)) <=> \E i \in Given(C, g) : InParam(q, C[i], C[i], n)
<1> DEFINE T == Kept(C, g)
           row == Only(C, T)
           values == Build(C, g, n)
           c == Cardinality(T)
<1>1. /\ DOMAIN values = 1..c
      /\ \A k \in 1..c :
           /\ row[k] = C[Nth(T, k)]
           /\ values[k] = IF Nth(T, k) \in g.empty THEN Emptied(Fill(row[k], n)) ELSE Fill(row[k], n)
  BY Sent
<1>2. /\ \A i \in T : Rank(T, i) \in 1..c /\ Nth(T, Rank(T, i)) = i
      /\ \A k \in 1..c : Nth(T, k) \in T
  BY KeptOnes
<1>3. \A i \in T : i \in DOMAIN C /\ (i \in Given(C, g) <=> i \notin g.empty)
  BY DEF Kept, Given
<1>4. \A i \in Given(C, g) : i \in T
  BY DEF Kept, Given
<1> HIDE DEF values, row, c, T
<1>5. ASSUME NEW k \in 1..c
      PROVE  q \in Texts(values[k]) <=> Nth(T, k) \in Given(C, g) /\ InParam(q, C[Nth(T, k)], C[Nth(T, k)], n)
  <2>1. CASE Nth(T, k) \in g.empty
    <3>1. SimpleShape(row[k])
      BY <1>1, <2>1 DEF Gaps
    <3>2. Texts(values[k]) = {}
      BY <1>1, <2>1, <3>1, EmptiedSimple
    <3> QED
      BY <1>2, <1>3, <2>1, <3>2
  <2>2. CASE Nth(T, k) \notin g.empty
    <3>1. Nth(T, k) \in Given(C, g) /\ values[k] = Fill(C[Nth(T, k)], n)
      BY <1>1, <1>2, <1>3, <2>2
    <3>2. ParamShape(C[Nth(T, k)])
      BY <1>2, <1>3 DEF Table
    <3> QED
      BY <3>1, <3>2, FilledParam
  <2> QED
    BY <2>1, <2>2
<1>6. TextsOf(values) = UNION {Texts(values[k]) : k \in 1..c}
  BY <1>1 DEF TextsOf
<1>7. q \in TextsOf(values) <=> \E k \in 1..c : q \in Texts(values[k])
  BY <1>6
<1>8. ASSUME q \in TextsOf(values)
      PROVE  \E i \in Given(C, g) : InParam(q, C[i], C[i], n)
  BY <1>5, <1>7, <1>8
<1>9. ASSUME NEW i \in Given(C, g), InParam(q, C[i], C[i], n)
      PROVE  q \in TextsOf(values)
  <2>1. Rank(T, i) \in 1..c /\ Nth(T, Rank(T, i)) = i
    BY <1>2, <1>4
  <2>2. q \in Texts(values[Rank(T, i)])
    BY <1>5, <1>9, <2>1
  <2> QED
    BY <1>7, <2>1, <2>2
<1> QED
  BY <1>8, <1>9 DEF values

\* The parameters P can be read from a call of parameters C.
Readable(P, C) ==
  /\ \A j \in DOMAIN P : ParamShape(P[j])
  /\ \A j \in DOMAIN P, i \in DOMAIN C : P[j].name = C[i].name => Fits(P[j], C[i])

\* Parameter j of P is in the call.
There(P, j, C, g) == \E i \in Given(C, g) : C[i].name = P[j].name

\* One parameter, read from the call.
LEMMA ReadOne ==
  ASSUME NEW C, Table(C), NEW g, Gaps(C, g), NEW n \in Nat, NEW P, Readable(P, C), NEW j \in DOMAIN P
  PROVE  LET v == getValue(Xml(Build(C, g, n)), P[j]) IN
         /\ \A q : q \in Texts(v)
                     <=> \E i \in Given(C, g) : P[j].name = C[i].name /\ InParam(q, P[j], C[i], n)
         /\ v.type = IF There(P, j, C, g) THEN P[j].type
                     ELSE IF P[j].type = "struct" THEN "struct" ELSE "void"
         /\ There(P, j, C, g) => v.name = P[j].name
<1> DEFINE T == Kept(C, g)
           row == Only(C, T)
           values == Build(C, g, n)
           kids == Xml(values)
           c == Cardinality(T)
<1>1. /\ DOMAIN values = 1..c /\ DOMAIN row = 1..c
      /\ \A k \in 1..c :
           /\ row[k] = C[Nth(T, k)]
           /\ values[k] = IF Nth(T, k) \in g.empty THEN Emptied(Fill(row[k], n)) ELSE Fill(row[k], n)
      /\ Tagged(kids, row)
  BY Sent
<1>2. /\ \A i \in T : Rank(T, i) \in 1..c /\ Nth(T, Rank(T, i)) = i
      /\ \A k \in 1..c : Nth(T, k) \in T
  BY KeptOnes
<1>3. \A i \in T : i \in DOMAIN C /\ (i \in Given(C, g) <=> i \notin g.empty)
  BY DEF Kept, Given
<1>4. \A i \in Given(C, g) : i \in T
  BY DEF Kept, Given
<1>5. \A k \in 1..c : kids[k] = getXml(values[k])
  BY <1>1 DEF Xml
<1>6. ParamShape(P[j]) /\ \A i \in DOMAIN C : P[j].name = C[i].name => Fits(P[j], C[i])
  BY DEF Readable
<1> HIDE DEF values, row, c, T, kids
<1>7. CASE There(P, j, C, g)
  <2>1. PICK i \in Given(C, g) : C[i].name = P[j].name
    BY <1>7 DEF There
  <2> DEFINE r == Rank(T, i)
  <2>2. r \in 1..c /\ Nth(T, r) = i /\ i \notin g.empty /\ i \in DOMAIN C
    BY <1>2, <1>3, <1>4
  <2>3. r \in DOMAIN row /\ row[r] = C[i] /\ kids[r] = getXml(Fill(row[r], n))
    BY <1>1, <1>5, <2>2
  <2> HIDE DEF r
  <2>4. ParamShape(row[r]) /\ P[j].name = row[r].name /\ Fits(P[j], row[r])
    BY <1>6, <2>1, <2>2, <2>3 DEF Table
  <2>5. /\ \A q : q \in Texts(getValue(kids, P[j])) <=> InParam(q, P[j], C[i], n)
        /\ getValue(kids, P[j]).type = P[j].type
        /\ getValue(kids, P[j]).name = P[j].name
    <3> DEFINE a == P[j]
    <3>1. /\ Tagged(kids, row) /\ r \in DOMAIN row /\ ParamShape(row[r])
          /\ kids[r] = getXml(Fill(row[r], n))
          /\ ParamShape(a) /\ a.name = row[r].name /\ Fits(a, row[r])
      BY <1>1, <1>6, <2>3, <2>4
    <3> HIDE DEF a
    <3>2. /\ \A q : q \in Texts(getValue(kids, a)) <=> InParam(q, a, row[r], n)
          /\ getValue(kids, a).type = a.type /\ getValue(kids, a).name = a.name
      BY <3>1, ReadParam
    <3> QED
      BY <2>3, <3>2 DEF a
  <2>6. \A m \in Given(C, g) : P[j].name = C[m].name => m = i
    BY <1>3, <1>4, <2>1 DEF Table, Distinct
  <2> QED
    BY <1>7, <2>1, <2>5, <2>6 DEF kids, values
<1>8. CASE ~There(P, j, C, g)
  <2>1. ASSUME NEW k \in 1..c, row[k].name = P[j].name
        PROVE  SimpleShape(P[j]) /\ kids[k].text = NoText
    <3>1. Nth(T, k) \in T /\ C[Nth(T, k)].name = P[j].name
      BY <1>1, <1>2, <2>1
    <3>2. Nth(T, k) \in g.empty
      BY <1>3, <1>8, <3>1 DEF There
    <3>3. SimpleShape(row[k]) /\ Fits(P[j], row[k])
      BY <1>1, <1>3, <1>6, <3>1, <3>2 DEF Gaps
    <3>4. SimpleShape(P[j])
      BY <3>3, SimpleIsNone DEF Fits, MemberFits
    <3>5. kids[k].text = NoText
      BY <1>1, <1>5, <3>2, <3>3, EmptiedSimple
    <3> QED
      BY <3>4, <3>5
  <2>2. /\ Texts(getValue(kids, P[j])) = {}
        /\ getValue(kids, P[j]).type = IF P[j].type = "struct" THEN "struct" ELSE "void"
    <3> DEFINE a == P[j]
    <3>1. /\ Tagged(kids, row) /\ ParamShape(a)
          /\ \A k \in DOMAIN row : row[k].name = a.name => SimpleShape(a) /\ kids[k].text = NoText
      BY <1>1, <1>6, <2>1
    <3> HIDE DEF a
    <3>2. /\ Texts(getValue(kids, a)) = {}
          /\ getValue(kids, a).type = IF a.type = "struct" THEN "struct" ELSE "void"
      BY <3>1, ParamOther
    <3> QED
      BY <3>2 DEF a
  <2> QED
    BY <1>8, <2>2 DEF There, kids, values
<1> QED
  BY <1>7, <1>8

-----------------------------------------------------------------------------
(* A table of parameters read from a call.                                 *)

\* What is read lies where it was put by the caller.
LEMMA ReadTable ==
  ASSUME NEW C, Table(C), NEW g, Gaps(C, g), NEW n \in Nat, NEW P, Readable(P, C)
  PROVE  LET read == ReadAll(Xml(Build(C, g, n)), P) IN
         /\ DOMAIN read = DOMAIN P
         /\ \A q : q \in TextsOf(read)
                     <=> \E j \in DOMAIN P, i \in Given(C, g) :
                           P[j].name = C[i].name /\ InParam(q, P[j], C[i], n)
         /\ \A j \in DOMAIN P :
              /\ read[j].type = IF There(P, j, C, g) THEN P[j].type
                                ELSE IF P[j].type = "struct" THEN "struct" ELSE "void"
              /\ There(P, j, C, g) => read[j].name = P[j].name
<1> DEFINE kids == Xml(Build(C, g, n))
           read == ReadAll(kids, P)
<1>1. DOMAIN read = DOMAIN P /\ \A j \in DOMAIN P : read[j] = getValue(kids, P[j])
  BY DEF ReadAll
<1>2. \A j \in DOMAIN P :
        /\ \A q : q \in Texts(getValue(kids, P[j]))
                    <=> \E i \in Given(C, g) : P[j].name = C[i].name /\ InParam(q, P[j], C[i], n)
        /\ getValue(kids, P[j]).type = IF There(P, j, C, g) THEN P[j].type
                                       ELSE IF P[j].type = "struct" THEN "struct" ELSE "void"
        /\ There(P, j, C, g) => getValue(kids, P[j]).name = P[j].name
  BY ReadOne
<1> HIDE DEF kids, read
<1>3. TextsOf(read) = UNION {Texts(read[j]) : j \in DOMAIN P}
  BY <1>1 DEF TextsOf
<1>4. ASSUME NEW q
      PROVE  q \in TextsOf(read)
               <=> \E j \in DOMAIN P, i \in Given(C, g) :
                     P[j].name = C[i].name /\ InParam(q, P[j], C[i], n)
  <2>1. q \in TextsOf(read) <=> \E j \in DOMAIN P : q \in Texts(getValue(kids, P[j]))
    BY <1>1, <1>3
  <2> QED
    BY <1>2, <2>1
<1> QED
  BY <1>1, <1>2, <1>4 DEF read, kids

\* The parts of a text in its place.
LEMMA TwiceParts ==
  ASSUME NEW p, NEW at, NEW nm, NEW i
  PROVE  /\ Twice(p)[1] = p /\ Twice(p)[2] = p /\ <<p, p>> = Twice(p)
         /\ Place(at, nm, i)[2] = nm
BY DEF Twice, Place

\* Every text that is read as b is in its place.
LEMMA CommonTwice ==
  ASSUME NEW a, NEW b, NEW at, NEW q \in Common(a, b, at)
  PROVE  \E p : q = Twice(p)
BY DEF Common

\* So is every text of a parameter.
LEMMA InParamTwice ==
  ASSUME NEW a, NEW b, NEW n, NEW q, InParam(q, a, b, n)
  PROVE  \E p : q = Twice(p)
<1>1. \A at : InRow(q, a.fields, b.fields, at) => \E p : q = Twice(p)
  BY CommonTwice DEF InRow
<1> QED
  BY <1>1, CommonTwice DEF InParam

\* Nothing that is read has gone astray.
LEMMA NoneAstray ==
  ASSUME NEW C, Table(C), NEW g, Gaps(C, g), NEW n \in Nat, NEW P, Readable(P, C)
  PROVE  Astray(ReadAll(Xml(Build(C, g, n)), P)) = {}
<1>1. ASSUME NEW q \in TextsOf(ReadAll(Xml(Build(C, g, n)), P))
      PROVE  q[1] = q[2]
  <2>1. \E j \in DOMAIN P, i \in Given(C, g) : InParam(q, P[j], C[i], n)
    BY ReadTable
  <2>2. \E p : q = Twice(p)
    BY <2>1, InParamTwice
  <2> QED
    BY <2>2, TwiceParts
<1> QED
  BY <1>1 DEF Astray

\* A name lost is that of a text in the call that is not read.
LEMMA LostMeans ==
  ASSUME NEW C, Table(C), NEW g, Gaps(C, g), NEW n \in Nat, NEW to, NEW nm
  PROVE  nm \in Lost(Build(C, g, n), to)
           <=> \E p : /\ p[2] = nm /\ Twice(p) \notin TextsOf(to)
                      /\ \E i \in Given(C, g) : InParam(Twice(p), C[i], C[i], n)
<1> DEFINE from == Build(C, g, n)
<1>1. \A q : q \in TextsOf(from) <=> \E i \in Given(C, g) : InParam(q, C[i], C[i], n)
  BY SentTexts
<1>2. \A q \in TextsOf(from) : \E p : q = Twice(p)
  BY <1>1, InParamTwice
<1> HIDE DEF from
<1>3. \A p : p \in Filled(from) <=> Twice(p) \in TextsOf(from)
  BY <1>2, TwiceParts DEF Filled
<1>4. nm \in Lost(from, to) <=> \E p \in Filled(from) : p[2] = nm /\ Twice(p) \notin TextsOf(to)
  <2> DEFINE L == {p \in Filled(from) : <<p, p>> \notin TextsOf(to)}
  <2>1. \A p : p \in L <=> p \in Filled(from) /\ Twice(p) \notin TextsOf(to)
    BY DEF Twice
  <2>2. Lost(from, to) = {p[2] : p \in L}
    BY DEF Lost
  <2> HIDE DEF L
  <2>3. nm \in Lost(from, to) <=> \E p \in L : nm = p[2]
    BY <2>2
  <2> QED
    BY <2>1, <2>3
<1>5. nm \in Lost(from, to)
        <=> \E p : p[2] = nm /\ Twice(p) \notin TextsOf(to) /\ Twice(p) \in TextsOf(from)
  BY <1>3, <1>4
<1> QED
  BY <1>1, <1>5 DEF from

-----------------------------------------------------------------------------
(* What a reader covers, but for the names in G.                           *)

Reaches(w, nm, G) == nm \in G \/ \E j \in DOMAIN w : w[j].name = nm
MemberCovers(a, b, G) ==
  b.type = "struct" => \A k \in DOMAIN b.fields : Reaches(a.fields, b.fields[k].name, G)
\* All the texts of a member have names in G.
Spared(b, G) ==
  \/ SimpleShape(b) /\ b.name \in G
  \/ b.type = "struct" /\ \A k \in DOMAIN b.fields : b.fields[k].name \in G
RowCovers(ws, fs, G) ==
  \A k \in DOMAIN fs :
     \/ Spared(fs[k], G)
     \/ \E j \in DOMAIN ws : ws[j].name = fs[k].name /\ MemberCovers(ws[j], fs[k], G)
Covers(a, b, G) ==
  IF b.type = "array" THEN RowCovers(a.fields, b.fields, G) ELSE MemberCovers(a, b, G)
TableCovers(P, C, g, G) ==
  \A i \in Given(C, g) :
     \/ Spared(C[i], G)
     \/ \E j \in DOMAIN P : P[j].name = C[i].name /\ Covers(P[j], C[i], G)

\* All the names of a member that is spared are in G.
LEMMA SparedNames ==
  ASSUME NEW b, NEW G, Spared(b, G), NEW at, NEW p, Twice(p) \in Common(b, b, at)
  PROVE  p[2] \in G
<1>1. CASE b.type = "struct"
  <2>1. PICK k \in DOMAIN b.fields : Twice(p) = Twice(Place(Place(at, b.name, 0), b.fields[k].name, 0))
    BY <1>1 DEF Common, Shared
  <2>2. p = Place(Place(at, b.name, 0), b.fields[k].name, 0)
    BY <2>1, TwiceParts
  <2>3. p[2] = b.fields[k].name
    BY <2>2, TwiceParts
  <2> QED
    BY <1>1, <2>3, SimpleIsNone DEF Spared
<1>2. CASE b.type # "struct"
  <2>1. Twice(p) = Twice(Place(at, b.name, 0))
    BY <1>2 DEF Common
  <2>2. p = Place(at, b.name, 0)
    BY <2>1, TwiceParts
  <2>3. p[2] = b.name
    BY <2>2, TwiceParts
  <2> QED
    BY <1>2, <2>3 DEF Spared
<1> QED
  BY <1>1, <1>2

\* A text of b that a does not share has a name in G.
LEMMA CoveredNames ==
  ASSUME NEW a, NEW b, a.name = b.name, MemberFits(a, b), NEW G, MemberCovers(a, b, G), NEW at,
         NEW p, Twice(p) \in Common(b, b, at)
  PROVE  Twice(p) \in Common(a, b, at) \/ p[2] \in G
<1>1. CASE b.type = "struct"
  <2>0. a.type = "struct"
    BY <1>1, SimpleIsNone DEF MemberFits
  <2>1. PICK k \in DOMAIN b.fields : Twice(p) = Twice(Place(Place(at, b.name, 0), b.fields[k].name, 0))
    BY <1>1 DEF Common, Shared
  <2>2. p = Place(Place(at, b.name, 0), b.fields[k].name, 0)
    BY <2>1, TwiceParts
  <2>3. p[2] = b.fields[k].name
    BY <2>2, TwiceParts
  <2>4. CASE \E j \in DOMAIN a.fields : a.fields[j].name = b.fields[k].name
    <3>1. PICK j \in DOMAIN a.fields : a.fields[j].name = b.fields[k].name
      BY <2>4
    <3>2. j \in Shared(a.fields, b.fields)
      BY <3>1 DEF Shared
    <3>3. Twice(p) = Twice(Place(Place(at, a.name, 0), a.fields[j].name, 0))
      BY <2>1, <3>1
    <3> QED
      BY <2>0, <3>2, <3>3 DEF Common
  <2>5. CASE b.fields[k].name \in G
    BY <2>3, <2>5
  <2> QED
    BY <1>1, <2>4, <2>5 DEF MemberCovers, Reaches
<1>2. CASE b.type # "struct"
  <2>1. a.type # "struct"
    BY <1>2, SimpleIsNone DEF MemberFits
  <2> QED
    BY <1>2, <2>1 DEF Common
<1> QED
  BY <1>1, <1>2

\* A text of a parameter b that is not read as a has a name in G.
LEMMA CoveredParam ==
  ASSUME NEW a, NEW b, ParamShape(b), a.name = b.name, Fits(a, b), NEW G, Covers(a, b, G),
         NEW n, NEW p, InParam(Twice(p), b, b, n)
  PROVE  InParam(Twice(p), a, b, n) \/ p[2] \in G
<1>1. CASE b.type = "array"
  <2>1. a.type = "array" /\ RowFits(a.fields, b.fields) /\ RowCovers(a.fields, b.fields, G)
    BY <1>1, SimpleIsNone DEF Fits, MemberFits, Covers
  <2>2. MemberRow(b.fields)
    BY <1>1, MemberType DEF ParamShape
  <2>3. PICK i \in 1..n :
          InRow(Twice(p), b.fields, b.fields, Place(Place(Top, b.name, 0), "URL", i))
    BY <1>1 DEF InParam
  <2> DEFINE at == Place(Place(Top, b.name, 0), "URL", i)
             fs == b.fields
             ws == a.fields
  <2> HIDE DEF at, fs, ws
  <2>4. PICK k \in DOMAIN fs : Twice(p) \in Common(fs[k], fs[k], at)
    BY <2>2, <2>3, OwnRow DEF at, fs
  <2>5. CASE Spared(fs[k], G)
    <3> DEFINE f == fs[k]
    <3>1. Spared(f, G) /\ Twice(p) \in Common(f, f, at)
      BY <2>4, <2>5
    <3> HIDE DEF f
    <3> QED
      BY <3>1, SparedNames
  <2>6. CASE \E j \in DOMAIN ws : ws[j].name = fs[k].name /\ MemberCovers(ws[j], fs[k], G)
    <3>1. PICK j \in DOMAIN ws : ws[j].name = fs[k].name /\ MemberCovers(ws[j], fs[k], G)
      BY <2>6
    <3> DEFINE f == fs[k]
               w == ws[j]
    <3>2. w.name = f.name /\ MemberCovers(w, f, G) /\ Twice(p) \in Common(f, f, at)
      BY <2>4, <3>1
    <3>3. MemberFits(w, f)
      BY <2>1, <3>1 DEF RowFits, fs, ws
    <3> HIDE DEF f, w
    <3>4. Twice(p) \in Common(w, f, at) \/ p[2] \in G
      BY <3>2, <3>3, CoveredNames
    <3>5. Twice(p) \in Common(w, f, at) => InRow(Twice(p), ws, fs, at)
      BY <3>1 DEF InRow, f, w
    <3>6. InRow(Twice(p), ws, fs, at) => InParam(Twice(p), a, b, n)
      BY <2>1 DEF InParam, at, fs, ws
    <3> QED
      BY <3>4, <3>5, <3>6
  <2> QED
    BY <2>1, <2>5, <2>6 DEF RowCovers, fs, ws
<1>2. CASE b.type # "array"
  <2>1. MemberFits(a, b) /\ a.type # "array" /\ MemberCovers(a, b, G)
    BY <1>2, SimpleIsNone DEF Fits, MemberFits, Covers
  <2>2. Twice(p) \in Common(b, b, Top)
    BY <1>2 DEF InParam
  <2>3. Twice(p) \in Common(a, b, Top) \/ p[2] \in G
    BY <2>1, <2>2, CoveredNames
  <2> QED
    BY <2>1, <2>3 DEF InParam
<1> QED
  BY <1>1, <1>2

\* And of a parameter that is.
LEMMA SparedParam ==
  ASSUME NEW b, NEW G, Spared(b, G), NEW n, NEW p, InParam(Twice(p), b, b, n)
  PROVE  p[2] \in G
<1>1. b.type # "array"
  BY SimpleIsNone DEF Spared
<1> QED
  BY <1>1, SparedNames DEF InParam

\* What is lost has a name in G, when what is read covers the rest.
LEMMA LostWithin ==
  ASSUME NEW C, Table(C), NEW g, Gaps(C, g), NEW n \in Nat, NEW P, Readable(P, C),
         NEW G, TableCovers(P, C, g, G)
  PROVE  Lost(Build(C, g, n), ReadAll(Xml(Build(C, g, n)), P)) \subseteq G
<1> DEFINE to == ReadAll(Xml(Build(C, g, n)), P)
<1>1. \A q : q \in TextsOf(to)
        <=> \E j \in DOMAIN P, i \in Given(C, g) : P[j].name = C[i].name /\ InParam(q, P[j], C[i], n)
  BY ReadTable
<1> HIDE DEF to
<1>2. ASSUME NEW nm \in Lost(Build(C, g, n), to) PROVE nm \in G
  <2>1. PICK p : /\ p[2] = nm /\ Twice(p) \notin TextsOf(to)
                 /\ \E i \in Given(C, g) : InParam(Twice(p), C[i], C[i], n)
    BY LostMeans
  <2>2. PICK i \in Given(C, g) : InParam(Twice(p), C[i], C[i], n)
    BY <2>1
  <2> DEFINE b == C[i]
  <2>3. ParamShape(b) /\ i \in DOMAIN C
    BY DEF Given, Table
  <2>4. CASE Spared(b, G)
    <3>1. InParam(Twice(p), b, b, n)
      BY <2>2
    <3> HIDE DEF b
    <3> QED
      BY <2>1, <2>4, <3>1, SparedParam
  <2>5. CASE \E j \in DOMAIN P : P[j].name = C[i].name /\ Covers(P[j], C[i], G)
    <3>1. PICK j \in DOMAIN P : P[j].name = C[i].name /\ Covers(P[j], C[i], G)
      BY <2>5
    <3> DEFINE a == P[j]
    <3>2. a.name = b.name /\ Covers(a, b, G) /\ Fits(a, b) /\ InParam(Twice(p), b, b, n)
      BY <2>2, <2>3, <3>1 DEF Readable
    <3>3. ~InParam(Twice(p), a, b, n)
      BY <1>1, <2>1, <3>1
    <3> HIDE DEF a, b
    <3> QED
      BY <2>1, <2>3, <3>2, <3>3, CoveredParam
  <2> QED
    BY <2>4, <2>5 DEF TableCovers
<1> QED
  BY <1>2 DEF to

\* A parameter is read as it is written.
LEMMA FitsItself ==
  ASSUME NEW s, ParamShape(s)
  PROVE  Fits(s, s) /\ \A G : Covers(s, s, G)
<1>1. \A b : MemberShape(b) => MemberFits(b, b)
  BY DEF MemberShape, MemberFits
<1>2. \A b, G : MemberCovers(b, b, G)
  BY DEF MemberCovers, Reaches
<1>3. CASE s.type = "array" /\ MemberRow(s.fields)
  <2>1. RowFits(s.fields, s.fields)
    BY <1>1, <1>3 DEF RowFits, MemberRow, Distinct
  <2>2. \A G : RowCovers(s.fields, s.fields, G)
    BY <1>2 DEF RowCovers
  <2> QED
    BY <1>3, <2>1, <2>2 DEF Fits, Covers
<1>4. CASE MemberShape(s)
  BY <1>1, <1>2, <1>4, MemberType DEF Fits, Covers
<1> QED
  BY <1>3, <1>4 DEF ParamShape

\* A parser that looks for what is written finds all of it.
LEMMA TableItself ==
  ASSUME NEW C, Table(C)
  PROVE  Readable(C, C) /\ \A g, G : TableCovers(C, C, g, G)
<1>1. \A i \in DOMAIN C : ParamShape(C[i]) /\ Fits(C[i], C[i]) /\ \A G : Covers(C[i], C[i], G)
  BY FitsItself DEF Table
<1>2. \A j, i \in DOMAIN C : C[j].name = C[i].name => i = j
  BY DEF Table, Distinct
<1>3. Readable(C, C)
  BY <1>1, <1>2 DEF Readable
<1>4. \A g, G : TableCovers(C, C, g, G)
  BY <1>1 DEF TableCovers, Given
<1> QED
  BY <1>3, <1>4

-----------------------------------------------------------------------------
(* What a parser gives up, and the types and names of what it does not.    *)

Types(s) == [k \in DOMAIN s |-> s[k].type]

\* What a parser looks for is in the call, or is a struct.
Present(P, C, g) == \A j \in DOMAIN P : There(P, j, C, g) \/ P[j].type = "struct"

\* No value of a list that is not given up is void.
LEMMA GivenUp ==
  ASSUME NEW v
  PROVE  /\ All(v) = Rejected <=> \E i \in DOMAIN v : v[i].type = "void"
         /\ All(v) # Rejected => All(v) = v
<1>1. DOMAIN Rejected = {1} /\ Rejected[1] = Void("rejected")
  BY DEF Rejected
<1>2. Void("rejected").type = "void"
  BY DEF Void, Val
<1>3. v = Rejected => \E i \in DOMAIN v : v[i].type = "void"
  BY <1>1, <1>2
<1> HIDE DEF Rejected
<1> QED
  BY <1>3 DEF All, IsVoid

\* A parser that gives up missed a parameter; if not, the signature is the one
\* of the parameters it looks for.
LEMMA ReadCall ==
  ASSUME NEW C, Table(C), NEW g, Gaps(C, g), NEW n \in Nat, NEW P, Readable(P, C)
  PROVE  LET read == ReadAll(Xml(Build(C, g, n)), P) IN
         /\ All(read) = Rejected <=> ~Present(P, C, g)
         /\ Present(P, C, g) => All(read) = read /\ getSignature(read) = Types(P)
         /\ (\A j \in DOMAIN P : There(P, j, C, g)) => Names(read) = Names(P)
<1> DEFINE read == ReadAll(Xml(Build(C, g, n)), P)
<1>1. /\ DOMAIN read = DOMAIN P
      /\ \A j \in DOMAIN P :
           /\ read[j].type = IF There(P, j, C, g) THEN P[j].type
                             ELSE IF P[j].type = "struct" THEN "struct" ELSE "void"
           /\ There(P, j, C, g) => read[j].name = P[j].name
  BY ReadTable
<1> HIDE DEF read
<1>2. \A j \in DOMAIN P : P[j].type # "void"
  <2>1. \A s : ParamShape(s) => s.type # "void"
    BY MemberType DEF ParamShape
  <2> QED
    BY <2>1 DEF Readable
<1>3. All(read) = Rejected <=> ~Present(P, C, g)
  <2>1. \A j \in DOMAIN P : read[j].type = "void" <=> ~(There(P, j, C, g) \/ P[j].type = "struct")
    BY <1>1, <1>2
  <2>2. (\E j \in DOMAIN P : read[j].type = "void") <=> ~Present(P, C, g)
    BY <2>1 DEF Present
  <2> QED
    BY <1>1, <2>2, GivenUp
<1>4. ASSUME Present(P, C, g) PROVE All(read) = read /\ getSignature(read) = Types(P)
  <2>1. \A j \in DOMAIN P : read[j].type = P[j].type
    BY <1>1, <1>4 DEF Present
  <2>2. getSignature(read) = Types(P)
    BY <1>1, <2>1 DEF getSignature, Types
  <2> QED
    BY <1>3, <1>4, <2>2, GivenUp
<1>5. ASSUME \A j \in DOMAIN P : There(P, j, C, g) PROVE Names(read) = Names(P)
  BY <1>1, <1>5 DEF Names
<1> QED
  BY <1>3, <1>4, <1>5 DEF read

\* A call without gaps: every parameter, in its order.
LEMMA WholeCall ==
  ASSUME NEW C, Table(C), NEW n
  PROVE  /\ Build(C, NoGaps, n) = [i \in DOMAIN C |-> Fill(C[i], n)]
         /\ Names(Build(C, NoGaps, n)) = Names(C)
         /\ Given(C, NoGaps) = DOMAIN C
<1>1. PICK m \in Nat : DOMAIN C = 1..m
  BY DEF Table, Counted
<1>2. DOMAIN C \ NoGaps.missing = 1..m /\ Given(C, NoGaps) = DOMAIN C
  BY <1>1 DEF NoGaps, Given
<1> DEFINE b == Built(C, NoGaps, n)
<1>3. b = [i \in DOMAIN C |-> Fill(C[i], n)]
  BY DEF Built, NoGaps
<1>4. Build(C, NoGaps, n) = [i \in 1..m |-> b[i]]
  BY <1>2, OnlyAll DEF Build
<1>5. Build(C, NoGaps, n) = [i \in DOMAIN C |-> Fill(C[i], n)]
  BY <1>1, <1>3, <1>4
<1>6. \A i \in DOMAIN C : Fill(C[i], n).name = C[i].name
  BY ParamNamed
<1>7. Names(Build(C, NoGaps, n)) = Names(C)
  BY <1>5, <1>6 DEF Names
<1> QED
  BY <1>2, <1>5, <1>7

\* Whether a parameter is there.
LEMMA HasIt ==
  ASSUME NEW C, Table(C), NEW g, Gaps(C, g), NEW n \in Nat, NEW nm,
         \A i \in DOMAIN C : C[i].name = nm => SimpleShape(C[i])
  PROVE  Has(Xml(Build(C, g, n)), nm) <=> \E i \in Given(C, g) : C[i].name = nm
<1> DEFINE P == << Str(nm) >>
           kids == Xml(Build(C, g, n))
<1>1. DOMAIN P = {1} /\ P[1] = Str(nm) /\ P[1].name = nm /\ P[1].type = "string"
  BY DEF Str, Shape
<1> HIDE DEF P, kids
<1>2. SimpleShape(P[1])
  BY <1>1 DEF SimpleShape
<1>3. Readable(P, C)
  BY <1>1, <1>2 DEF Readable, ParamShape, MemberShape, Fits, MemberFits
<1>4. getValue(kids, P[1]).type = IF There(P, 1, C, g) THEN "string" ELSE "void"
  BY <1>1, <1>3, ReadOne DEF kids
<1>5. getValue(kids, P[1]) = getSimpleValue(kids, Str(nm))
  BY <1>1, <1>2, SimpleIsNone, SimpleMember DEF getValue
<1>6. There(P, 1, C, g) <=> \E i \in Given(C, g) : C[i].name = nm
  BY <1>1 DEF There
<1> QED
  BY <1>4, <1>5, <1>6 DEF Has, IsVoid, kids

-----------------------------------------------------------------------------
(* What is lost for certain.                                               *)

\* A place is that of one name only.
LEMMA PlaceParts ==
  ASSUME NEW at, NEW nm, NEW i, NEW at2, NEW nm2, NEW i2
  PROVE  /\ Place(at, nm, i) = Place(at2, nm2, i2) => at = at2 /\ nm = nm2 /\ i = i2
         /\ Place(at, nm, i) # Top
BY DEF Place, Top

\* Where the texts of a parameter lie.
LEMMA CommonPlace ==
  ASSUME NEW a, NEW b, NEW at, NEW p, Twice(p) \in Common(a, b, at)
  PROVE  \/ a.type # "struct" /\ p = Place(at, a.name, 0)
         \/ /\ a.type = "struct"
            /\ \E m \in DOMAIN a.fields : p = Place(Place(at, a.name, 0), a.fields[m].name, 0)
<1>1. CASE a.type = "struct"
  <2>1. PICK m \in DOMAIN a.fields : Twice(p) = Twice(Place(Place(at, a.name, 0), a.fields[m].name, 0))
    BY <1>1 DEF Common, Shared
  <2>2. p = Place(Place(at, a.name, 0), a.fields[m].name, 0)
    BY <2>1, TwiceParts
  <2> QED
    BY <1>1, <2>2
<1>2. CASE a.type # "struct"
  <2>1. Twice(p) = Twice(Place(at, a.name, 0))
    BY <1>2 DEF Common
  <2>2. p = Place(at, a.name, 0)
    BY <2>1, TwiceParts
  <2> QED
    BY <1>2, <2>2
<1> QED
  BY <1>1, <1>2

\* Simple, in a struct, in an item, or in a struct of an item.
LEMMA ParamPlace ==
  ASSUME NEW a, NEW b, NEW n \in Nat, NEW p, InParam(Twice(p), a, b, n)
  PROVE  \/ a.type \notin {"struct", "array"} /\ p = Place(Top, a.name, 0)
         \/ /\ a.type = "struct"
            /\ \E m \in DOMAIN a.fields : p = Place(Place(Top, a.name, 0), a.fields[m].name, 0)
         \/ /\ a.type = "array"
            /\ \E i \in 1..n, m \in DOMAIN a.fields :
                 LET at == Place(Place(Top, a.name, 0), "URL", i) IN
                 \/ p = Place(at, a.fields[m].name, 0)
                 \/ \E x : p = Place(Place(at, a.fields[m].name, 0), x, 0)
<1>1. CASE a.type = "array"
  <2>1. PICK i \in 1..n : InRow(Twice(p), a.fields, b.fields, Place(Place(Top, a.name, 0), "URL", i))
    BY <1>1 DEF InParam
  <2> DEFINE at == Place(Place(Top, a.name, 0), "URL", i)
  <2> HIDE DEF at
  <2>2. PICK m \in DOMAIN a.fields, k \in DOMAIN b.fields :
          Twice(p) \in Common(a.fields[m], b.fields[k], at)
    BY <2>1 DEF InRow, at
  <2>3. p = Place(at, a.fields[m].name, 0) \/ \E x : p = Place(Place(at, a.fields[m].name, 0), x, 0)
    <3> DEFINE w == a.fields[m]
               f == b.fields[k]
    <3>1. Twice(p) \in Common(w, f, at)
      BY <2>2
    <3> HIDE DEF w, f
    <3>2. p = Place(at, w.name, 0) \/ \E x : p = Place(Place(at, w.name, 0), x, 0)
      BY <3>1, CommonPlace
    <3> QED
      BY <3>2 DEF w
  <2> QED
    BY <1>1, <2>3 DEF at
<1>2. CASE a.type # "array"
  <2>1. Twice(p) \in Common(a, b, Top)
    BY <1>2 DEF InParam
  <2> QED
    BY <1>2, <2>1, CommonPlace
<1> QED
  BY <1>1, <1>2

\* Nothing that is read has the place of a text sent: it is lost.
LEMMA LostThere ==
  ASSUME NEW C, Table(C), NEW g, Gaps(C, g), NEW n \in Nat, NEW P, Readable(P, C),
         NEW p, NEW i \in Given(C, g), InParam(Twice(p), C[i], C[i], n),
         \A j \in DOMAIN P, m \in DOMAIN C : ~InParam(Twice(p), P[j], C[m], n)
  PROVE  p[2] \in Lost(Build(C, g, n), ReadAll(Xml(Build(C, g, n)), P))
<1> DEFINE to == ReadAll(Xml(Build(C, g, n)), P)
<1>1. Twice(p) \notin TextsOf(to)
  BY ReadTable DEF Given
<1> HIDE DEF to
<1> QED
  BY <1>1, LostMeans DEF to

\* A field of a list's items that no reader of the list looks for.
LEMMA LostField ==
  ASSUME NEW C, Table(C), NEW g, Gaps(C, g), NEW n \in Nat, n > 0, NEW P, Readable(P, C),
         NEW i \in Given(C, g), C[i].type = "array", NEW k \in DOMAIN C[i].fields,
         SimpleShape(C[i].fields[k]),
         \A j \in DOMAIN P : P[j].name = C[i].name =>
            \A m \in DOMAIN P[j].fields : P[j].fields[m].name # C[i].fields[k].name
  PROVE  C[i].fields[k].name \in Lost(Build(C, g, n), ReadAll(Xml(Build(C, g, n)), P))
<1> DEFINE nm == C[i].fields[k].name
           top == C[i].name
           here == Place(Place(Top, top, 0), "URL", 1)
           p == Place(here, nm, 0)
<1>1. InParam(Twice(p), C[i], C[i], n)
  <2> DEFINE fs == C[i].fields
  <2>1. Twice(p) \in Common(fs[k], fs[k], here)
    BY SimpleIsNone DEF Common
  <2> HIDE DEF fs, p, here
  <2>2. k \in DOMAIN fs
    BY DEF fs
  <2>3. InRow(Twice(p), fs, fs, here)
    BY <2>1, <2>2 DEF InRow
  <2> QED
    BY <2>3 DEF InParam, fs, here
<1>2. ASSUME NEW j \in DOMAIN P, NEW l \in DOMAIN C PROVE ~InParam(Twice(p), P[j], C[l], n)
  <2> DEFINE a == P[j]
             b == C[l]
  <2>0. a.name = top => \A m \in DOMAIN a.fields : a.fields[m].name # nm
    OBVIOUS
  <2> HIDE DEF a, b, nm, top
  <2> SUFFICES ASSUME InParam(Twice(p), a, b, n) PROVE FALSE
    BY DEF a, b
  <2>1. p # Place(Top, a.name, 0)
    BY PlaceParts
  <2>2. \A x : p # Place(Place(Top, a.name, 0), x, 0)
    <3>1. \A x : p = Place(Place(Top, a.name, 0), x, 0) => here = Place(Top, a.name, 0)
      BY PlaceParts
    <3>2. here # Place(Top, a.name, 0)
      BY PlaceParts
    <3> QED
      BY <3>1, <3>2
  <2>3. PICK h \in 1..n, m \in DOMAIN a.fields :
          LET at == Place(Place(Top, a.name, 0), "URL", h) IN
          \/ p = Place(at, a.fields[m].name, 0)
          \/ \E x : p = Place(Place(at, a.fields[m].name, 0), x, 0)
    <3> HIDE DEF p
    <3> QED
      BY <2>1, <2>2, ParamPlace
  <2> DEFINE at == Place(Place(Top, a.name, 0), "URL", h)
  <2>4. CASE p = Place(at, a.fields[m].name, 0)
    <3>1. here = at /\ nm = a.fields[m].name
      BY <2>4, PlaceParts
    <3>2. Place(Top, top, 0) = Place(Top, a.name, 0)
      BY <3>1, PlaceParts
    <3>3. top = a.name
      BY <3>2, PlaceParts
    <3> QED
      BY <2>0, <3>1, <3>3
  <2>5. CASE \E x : p = Place(Place(at, a.fields[m].name, 0), x, 0)
    <3>1. here = Place(at, a.fields[m].name, 0)
      BY <2>5, PlaceParts
    <3>2. 1 = 0
      BY <3>1, PlaceParts
    <3> QED
      BY <3>2
  <2> QED
    BY <2>3, <2>4, <2>5
<1>3. p[2] = nm
  BY TwiceParts
<1> HIDE DEF p
<1>4. p[2] \in Lost(Build(C, g, n), ReadAll(Xml(Build(C, g, n)), P))
  BY <1>1, <1>2, LostThere
<1> QED
  BY <1>3, <1>4

\* A field of a struct that no reader of the struct looks for.
LEMMA LostMember ==
  ASSUME NEW C, Table(C), NEW g, Gaps(C, g), NEW n \in Nat, NEW P, Readable(P, C),
         NEW i \in Given(C, g), C[i].type = "struct", NEW k \in DOMAIN C[i].fields,
         \A j \in DOMAIN P : P[j].name = C[i].name =>
            \A m \in DOMAIN P[j].fields : P[j].fields[m].name # C[i].fields[k].name
  PROVE  C[i].fields[k].name \in Lost(Build(C, g, n), ReadAll(Xml(Build(C, g, n)), P))
<1> DEFINE nm == C[i].fields[k].name
           top == C[i].name
           here == Place(Top, top, 0)
           p == Place(here, nm, 0)
<1>1. InParam(Twice(p), C[i], C[i], n)
  <2>1. k \in Shared(C[i].fields, C[i].fields)
    BY DEF Shared
  <2>2. Twice(p) \in Common(C[i], C[i], Top)
    BY <2>1 DEF Common
  <2> QED
    BY <2>2 DEF InParam
<1>2. ASSUME NEW j \in DOMAIN P, NEW l \in DOMAIN C PROVE ~InParam(Twice(p), P[j], C[l], n)
  <2> DEFINE a == P[j]
             b == C[l]
  <2>0. a.name = top => \A m \in DOMAIN a.fields : a.fields[m].name # nm
    OBVIOUS
  <2> HIDE DEF a, b, nm, top
  <2> SUFFICES ASSUME InParam(Twice(p), a, b, n) PROVE FALSE
    BY DEF a, b
  <2>1. p # Place(Top, a.name, 0)
    BY PlaceParts
  <2>2. \A m \in DOMAIN a.fields : p # Place(Place(Top, a.name, 0), a.fields[m].name, 0)
    <3> SUFFICES ASSUME NEW m \in DOMAIN a.fields, p = Place(Place(Top, a.name, 0), a.fields[m].name, 0)
                 PROVE  FALSE
      OBVIOUS
    <3>1. here = Place(Top, a.name, 0) /\ nm = a.fields[m].name
      BY PlaceParts
    <3>2. top = a.name
      BY <3>1, PlaceParts
    <3> QED
      BY <2>0, <3>1, <3>2
  <2>3. PICK h \in 1..n, m \in DOMAIN a.fields :
          LET at == Place(Place(Top, a.name, 0), "URL", h) IN
          \/ p = Place(at, a.fields[m].name, 0)
          \/ \E x : p = Place(Place(at, a.fields[m].name, 0), x, 0)
    <3> HIDE DEF p
    <3> QED
      BY <2>1, <2>2, ParamPlace
  <2> DEFINE at == Place(Place(Top, a.name, 0), "URL", h)
  <2>4. CASE p = Place(at, a.fields[m].name, 0)
    <3>1. here = at
      BY <2>4, PlaceParts
    <3>2. 0 = h
      BY <3>1, PlaceParts
    <3> QED
      BY <3>2
  <2>5. CASE \E x : p = Place(Place(at, a.fields[m].name, 0), x, 0)
    <3>1. here = Place(at, a.fields[m].name, 0)
      BY <2>5, PlaceParts
    <3>2. Top = at
      BY <3>1, PlaceParts
    <3> QED
      BY <3>2, PlaceParts
  <2> QED
    BY <2>3, <2>4, <2>5
<1>3. p[2] = nm
  BY TwiceParts
<1> HIDE DEF p
<1>4. p[2] \in Lost(Build(C, g, n), ReadAll(Xml(Build(C, g, n)), P))
  BY <1>1, <1>2, LostThere
<1> QED
  BY <1>3, <1>4

\* A parameter that no reader looks for.
LEMMA LostParam ==
  ASSUME NEW C, Table(C), NEW g, Gaps(C, g), NEW n \in Nat, NEW P, Readable(P, C),
         NEW i \in Given(C, g), SimpleShape(C[i]), \A j \in DOMAIN P : P[j].name # C[i].name
  PROVE  C[i].name \in Lost(Build(C, g, n), ReadAll(Xml(Build(C, g, n)), P))
<1> DEFINE nm == C[i].name
           p == Place(Top, nm, 0)
<1>1. InParam(Twice(p), C[i], C[i], n)
  BY SimpleIsNone DEF InParam, Common
<1>2. ASSUME NEW j \in DOMAIN P, NEW l \in DOMAIN C PROVE ~InParam(Twice(p), P[j], C[l], n)
  <2> DEFINE a == P[j]
             b == C[l]
  <2>0. a.name # nm
    OBVIOUS
  <2> HIDE DEF a, b, nm
  <2> SUFFICES ASSUME InParam(Twice(p), a, b, n) PROVE FALSE
    BY DEF a, b
  <2>1. p # Place(Top, a.name, 0)
    BY <2>0, PlaceParts
  <2>2. \A at, x, y, u, v : p # Place(Place(at, x, u), y, v)
    BY PlaceParts
  <2> HIDE DEF p
  <2> QED
    BY <2>1, <2>2, ParamPlace
<1>3. p[2] = nm
  BY TwiceParts
<1> HIDE DEF p
<1>4. p[2] \in Lost(Build(C, g, n), ReadAll(Xml(Build(C, g, n)), P))
  BY <1>1, <1>2, LostThere
<1> QED
  BY <1>3, <1>4

-----------------------------------------------------------------------------
(* The commands' parameters are runs of strings and of numbers, structs    *)
(* and lists: rows, of which each parameter has a name of its own.         *)

IsSeq(s) == \E U : s \in Seq(U)
Kind(s, K) ==
  IF K = "simple" THEN SimpleShape(s) ELSE IF K = "member" THEN MemberShape(s) ELSE ParamShape(s)

NamesIn(T) == {T[k].name : k \in DOMAIN T}

\* A sequence of parameters of a kind, with the names X and the types u.
Row(T, X, K, u) ==
  /\ IsSeq(T) /\ Distinct(T)
  /\ NamesIn(T) = X /\ \A k \in DOMAIN T : Kind(T[k], K)
  /\ Types(T) = u

\* A sequence has its indices.
LEMMA Counting == ASSUME NEW T, IsSeq(T) PROVE Counted(T) /\ DOMAIN T = 1..Len(T) /\ Len(T) \in Nat
BY DEF IsSeq, Counted

\* A sequence is the function of its indices.
LEMMA Indexed ==
  /\ \A s : IsSeq(s) => s = [i \in DOMAIN s |-> s[i]]
  /\ \A s, m : m \in Nat /\ s = [i \in 1..m |-> s[i]] => IsSeq(s) /\ Len(s) = m
<1>1. ASSUME NEW s, IsSeq(s) PROVE s = [i \in DOMAIN s |-> s[i]]
  <2>1. PICK U : s \in Seq(U)
    BY <1>1 DEF IsSeq
  <2>2. s \in [1..Len(s) -> U]
    BY <2>1
  <2> QED
    BY <2>2
<1>2. ASSUME NEW s, NEW m \in Nat, s = [i \in 1..m |-> s[i]] PROVE IsSeq(s) /\ Len(s) = m
  <2> DEFINE U == {s[i] : i \in 1..m}
  <2>1. s \in [1..m -> U]
    BY <1>2
  <2> HIDE DEF U
  <2>2. s \in Seq(U) /\ Len(s) = m
    BY <2>1
  <2> QED
    BY <2>2 DEF IsSeq
<1> QED
  BY <1>1, <1>2

\* The elements of a concatenation.
LEMMA Chained ==
  ASSUME NEW a, NEW b, IsSeq(a), IsSeq(b)
  PROVE  /\ IsSeq(a \o b)
         /\ Len(a) \in Nat /\ Len(b) \in Nat
         /\ DOMAIN a = 1..Len(a) /\ DOMAIN b = 1..Len(b) /\ DOMAIN (a \o b) = 1..(Len(a) + Len(b))
         /\ \A i \in 1..(Len(a) + Len(b)) : (a \o b)[i] = IF i <= Len(a) THEN a[i] ELSE b[i - Len(a)]
<1>1. PICK U, V : a \in Seq(U) /\ b \in Seq(V)
  BY DEF IsSeq
<1>2. a \in Seq(U \cup V) /\ b \in Seq(U \cup V)
  <2>1. a \in [1..Len(a) -> U] /\ Len(a) \in Nat /\ b \in [1..Len(b) -> V] /\ Len(b) \in Nat
    BY <1>1
  <2>2. a \in [1..Len(a) -> U \cup V] /\ b \in [1..Len(b) -> U \cup V]
    BY <2>1
  <2> QED
    BY <2>1, <2>2
<1>3. a \o b \in Seq(U \cup V)
  BY <1>2
<1> QED
  BY <1>2, <1>3 DEF IsSeq

\* Two rows of different names are a row.
LEMMA Joined ==
  ASSUME NEW a, NEW b, NEW X, NEW Y, NEW K, NEW u, NEW v, Row(a, X, K, u), Row(b, Y, K, v),
         X \cap Y = {}
  PROVE  Row(a \o b, X \cup Y, K, u \o v)
<1> DEFINE m == Len(a)
           n == Len(b)
           c == a \o b
<1>1. /\ IsSeq(c) /\ m \in Nat /\ n \in Nat
      /\ DOMAIN a = 1..m /\ DOMAIN b = 1..n /\ DOMAIN c = 1..(m + n)
      /\ \A i \in 1..(m + n) : c[i] = IF i <= m THEN a[i] ELSE b[i - m]
  BY Chained DEF Row
<1>2. /\ \A k \in 1..m : a[k].name \in X /\ Kind(a[k], K)
      /\ \A k \in 1..n : b[k].name \in Y /\ Kind(b[k], K)
      /\ \A i, j \in 1..m : a[i].name = a[j].name => i = j
      /\ \A i, j \in 1..n : b[i].name = b[j].name => i = j
  BY <1>1 DEF Row, Distinct, NamesIn
<1>3. u = [k \in 1..m |-> a[k].type] /\ v = [k \in 1..n |-> b[k].type]
  BY <1>1 DEF Row, Types
<1> HIDE DEF m, n, c
<1>4. \A i \in 1..(m + n) : c[i].name \in X \cup Y /\ Kind(c[i], K)
  <2> SUFFICES ASSUME NEW i \in 1..(m + n) PROVE c[i].name \in X \cup Y /\ Kind(c[i], K)
    OBVIOUS
  <2>1. CASE i <= m
    BY <1>1, <1>2, <2>1
  <2>2. CASE i > m
    BY <1>1, <1>2, <2>2
  <2> QED
    BY <1>1, <2>1, <2>2
<1>5. NamesIn(c) = X \cup Y
  <2>1. \A x \in X : \E i \in 1..m : x = a[i].name
    BY <1>1 DEF Row, NamesIn
  <2>2. \A y \in Y : \E i \in 1..n : y = b[i].name
    BY <1>1 DEF Row, NamesIn
  <2>3. ASSUME NEW x \in X PROVE x \in NamesIn(c)
    <3>1. PICK i \in 1..m : x = a[i].name
      BY <2>1
    <3>2. i \in 1..(m + n) /\ c[i] = a[i]
      BY <1>1
    <3> QED
      BY <1>1, <3>1, <3>2 DEF NamesIn
  <2>4. ASSUME NEW y \in Y PROVE y \in NamesIn(c)
    <3>1. PICK i \in 1..n : y = b[i].name
      BY <2>2
    <3>2. m + i \in 1..(m + n) /\ ~(m + i <= m) /\ (m + i) - m = i
      BY <1>1
    <3>3. c[m + i] = b[i]
      BY <1>1, <3>2
    <3> QED
      BY <1>1, <3>1, <3>2, <3>3 DEF NamesIn
  <2>5. \A x \in NamesIn(c) : x \in X \cup Y
    BY <1>1, <1>4 DEF NamesIn
  <2> QED
    BY <2>3, <2>4, <2>5
<1>6. ASSUME NEW i \in 1..(m + n), NEW j \in 1..(m + n), c[i].name = c[j].name PROVE i = j
  <2>1. CASE i <= m /\ j <= m
    BY <1>1, <1>2, <1>6, <2>1
  <2>2. CASE i > m /\ j > m
    BY <1>1, <1>2, <1>6, <2>2
  <2>3. CASE i <= m /\ j > m
    <3>1. c[i].name \in X /\ c[j].name \in Y
      BY <1>1, <1>2, <2>3
    <3> QED
      BY <1>6, <3>1
  <2>4. CASE i > m /\ j <= m
    <3>1. c[i].name \in Y /\ c[j].name \in X
      BY <1>1, <1>2, <2>4
    <3> QED
      BY <1>6, <3>1
  <2> QED
    BY <1>1, <2>1, <2>2, <2>3, <2>4
<1>7. Types(c) = u \o v
  <2>1. IsSeq(u) /\ IsSeq(v) /\ Len(u) = m /\ Len(v) = n
    <3>1. u = [k \in 1..m |-> u[k]] /\ v = [k \in 1..n |-> v[k]]
      BY <1>3
    <3> QED
      BY <1>1, <3>1, Indexed
  <2>2. /\ IsSeq(u \o v) /\ DOMAIN (u \o v) = 1..(m + n)
        /\ \A i \in 1..(m + n) : (u \o v)[i] = IF i <= m THEN u[i] ELSE v[i - m]
    BY <2>1, Chained
  <2>3. \A i \in 1..(m + n) : Types(c)[i] = (u \o v)[i]
    <3> SUFFICES ASSUME NEW i \in 1..(m + n) PROVE Types(c)[i] = (u \o v)[i]
      OBVIOUS
    <3>0. Types(c)[i] = c[i].type
      BY <1>1 DEF Types
    <3>1. CASE i <= m
      BY <1>1, <1>3, <2>2, <3>0, <3>1
    <3>2. CASE i > m
      BY <1>1, <1>3, <2>2, <3>0, <3>2
    <3>3. i <= m \/ i > m
      BY <1>1
    <3> QED
      BY <3>1, <3>2, <3>3
  <2>4. Types(c) = [i \in 1..(m + n) |-> Types(c)[i]]
    BY <1>1 DEF Types
  <2>6. u \o v = [i \in 1..(m + n) |-> (u \o v)[i]]
    BY <2>2, Indexed
  <2> QED
    BY <2>3, <2>4, <2>6
<1> QED
  BY <1>1, <1>4, <1>6, <1>7, <1>5 DEF Row, Distinct, c

\* A row of simple shapes is one of members, and that is one of parameters.
LEMMA KindMore ==
  ASSUME NEW s
  PROVE  /\ Kind(s, "simple") => \A K : Kind(s, K)
         /\ Kind(s, "member") => Kind(s, "param")
BY DEF Kind, MemberShape, ParamShape

\* Strings, and numbers, of names of their own.
LEMMA StrsRow ==
  ASSUME NEW ns, NEW X, ns \in Seq(X), X = {ns[k] : k \in DOMAIN ns},
         \A i, j \in DOMAIN ns : ns[i] = ns[j] => i = j, NEW K
  PROVE  Row(Strs(ns), X, K, S(Len(ns)))
<1> DEFINE T == Strs(ns)
<1>1. DOMAIN ns = 1..Len(ns) /\ Len(ns) \in Nat
  OBVIOUS
<1>2. /\ DOMAIN T = 1..Len(ns)
      /\ \A k \in 1..Len(ns) : T[k] = Str(ns[k]) /\ T[k].name = ns[k] /\ T[k].type = "string"
  BY <1>1 DEF Strs, Str, Shape
<1>3. T \in Seq({T[k] : k \in 1..Len(ns)})
  BY <1>1 DEF Strs
<1> HIDE DEF T
<1>4. NamesIn(T) = X
  BY <1>1, <1>2 DEF NamesIn
<1>5. Types(T) = S(Len(ns))
  BY <1>2 DEF Types, S
<1>6. \A k \in 1..Len(ns) : Kind(T[k], K)
  BY <1>2, KindMore DEF Kind, SimpleShape
<1>7. IsSeq(T)
  BY <1>3 DEF IsSeq
<1>8. Distinct(T)
  BY <1>1, <1>2 DEF Distinct
<1> QED
  BY <1>2, <1>4, <1>5, <1>6, <1>7, <1>8 DEF Row, T

\* The same of numbers.
LEMMA NumsRow ==
  ASSUME NEW ns, NEW X, ns \in Seq(X), X = {ns[k] : k \in DOMAIN ns},
         \A i, j \in DOMAIN ns : ns[i] = ns[j] => i = j, NEW K
  PROVE  Row(Nums(ns), X, K, N(Len(ns)))
<1> DEFINE T == Nums(ns)
<1>1. DOMAIN ns = 1..Len(ns) /\ Len(ns) \in Nat
  OBVIOUS
<1>2. /\ DOMAIN T = 1..Len(ns)
      /\ \A k \in 1..Len(ns) : T[k] = Num(ns[k]) /\ T[k].name = ns[k] /\ T[k].type = "int"
  BY <1>1 DEF Nums, Num, Shape
<1>3. T \in Seq({T[k] : k \in 1..Len(ns)})
  BY <1>1 DEF Nums
<1> HIDE DEF T
<1>4. NamesIn(T) = X
  BY <1>1, <1>2 DEF NamesIn
<1>5. Types(T) = N(Len(ns))
  BY <1>2 DEF Types, N
<1>6. \A k \in 1..Len(ns) : Kind(T[k], K)
  BY <1>2, KindMore DEF Kind, SimpleShape
<1>7. IsSeq(T)
  BY <1>3 DEF IsSeq
<1>8. Distinct(T)
  BY <1>1, <1>2 DEF Distinct
<1> QED
  BY <1>2, <1>4, <1>5, <1>6, <1>7, <1>8 DEF Row, T

\* One parameter.
LEMMA OneRow ==
  ASSUME NEW s, NEW K, Kind(s, K)
  PROVE  Row(<< s >>, {s.name}, K, << s.type >>)
<1> DEFINE T == << s >>
<1>1. DOMAIN T = {1} /\ T[1] = s /\ T \in Seq({s})
  OBVIOUS
<1>2. Types(T) = << s.type >>
  BY DEF Types
<1> HIDE DEF T
<1> QED
  BY <1>1, <1>2 DEF Row, IsSeq, Distinct, NamesIn, T

\* What a row is a table of.
LEMMA RowIsTable ==
  ASSUME NEW T, NEW X, NEW u
  PROVE  /\ Row(T, X, "simple", u) => SimpleRow(T)
         /\ Row(T, X, "member", u) => MemberRow(T)
         /\ Row(T, X, "param", u) => Table(T) /\ Types(T) = u
BY Counting DEF Row, SimpleRow, MemberRow, Table, Kind

\* A list, or a struct, of a row.
LEMMA ListRow ==
  ASSUME NEW nm, NEW fs, MemberRow(fs)
  PROVE  Row(<< List(nm, fs) >>, {nm}, "param", A)
<1> DEFINE s == List(nm, fs)
<1>1. s.type = "array" /\ s.name = nm /\ s.fields = fs
  BY DEF List, Shape
<1>2. Kind(s, "param")
  BY <1>1 DEF Kind, ParamShape
<1> HIDE DEF s
<1>4. Row(<< s >>, {s.name}, "param", << s.type >>)
  BY <1>2, OneRow
<1> QED
  BY <1>1, <1>4 DEF A, s

\* The list named group.
LEMMA GroupRow ==
  ASSUME NEW fs, MemberRow(fs)
  PROVE  Row(Group(fs), {"group"}, "param", A)
BY ListRow DEF Group

\* A struct among parameters, or among the members of an item.
LEMMA StructRow ==
  ASSUME NEW nm, NEW fs, SimpleRow(fs), NEW K \in {"member", "param"}
  PROVE  Row(<< Struct(nm, fs) >>, {nm}, K, << "struct" >>)
<1> DEFINE s == Struct(nm, fs)
<1>1. s.type = "struct" /\ s.name = nm /\ s.fields = fs
  BY DEF Struct, Shape
<1>2. Kind(s, K)
  BY <1>1 DEF Kind, ParamShape, MemberShape
<1> HIDE DEF s
<1>4. Row(<< s >>, {s.name}, K, << s.type >>)
  BY <1>2, OneRow
<1> QED
  BY <1>1, <1>4 DEF s

\* Runs of strings join.
LEMMA StringRuns ==
  ASSUME NEW m \in Nat, NEW n \in Nat
  PROVE  S(m) \o S(n) = S(m + n)
<1> DEFINE u == S(m)
           v == S(n)
<1>1. u \in Seq({"string"}) /\ v \in Seq({"string"}) /\ Len(u) = m /\ Len(v) = n
  BY DEF S
<1> HIDE DEF u, v
<1>2. u \o v \in Seq({"string"}) /\ Len(u \o v) = m + n
  BY <1>1
<1>3. u \o v \in [1..(m + n) -> {"string"}]
  <2>1. \A s, U : s \in Seq(U) => s \in [1..Len(s) -> U]
    OBVIOUS
  <2> QED
    BY <1>2, <2>1
<1>5. u \o v = [k \in 1..(m + n) |-> "string"]
  BY <1>3
<1> QED
  BY <1>5 DEF S, u, v

\* One string.
LEMMA StrsOne ==
  ASSUME NEW a
  PROVE  LET T == Strs(<<a>>) IN
         /\ SimpleRow(T) /\ MemberRow(T)
         /\ \A K : Row(T, {a}, K, S(1))
<1> DEFINE ns == <<a>>
           X == {a}
<1>1. ns \in Seq(X) /\ Len(ns) = 1
  OBVIOUS
<1>2. \A p, q \in DOMAIN ns : ns[p] = ns[q] => p = q
  OBVIOUS
<1>3. X = {ns[k] : k \in DOMAIN ns}
  OBVIOUS
<1> HIDE DEF ns, X
<1>4. \A K : Row(Strs(ns), X, K, S(1))
  BY <1>1, <1>2, <1>3, StrsRow
<1> QED
  BY <1>4, RowIsTable DEF ns, X

\* Two strings.
LEMMA StrsTwo ==
  ASSUME NEW a, NEW b, a # b
  PROVE  LET T == Strs(<<a, b>>) IN
         /\ SimpleRow(T) /\ MemberRow(T)
         /\ \A K : Row(T, {a, b}, K, S(2))
<1> DEFINE ns == <<a, b>>
           X == {a, b}
<1>1. ns \in Seq(X) /\ Len(ns) = 2
  OBVIOUS
<1>2. \A p, q \in DOMAIN ns : ns[p] = ns[q] => p = q
  OBVIOUS
<1>3. X = {ns[k] : k \in DOMAIN ns}
  OBVIOUS
<1> HIDE DEF ns, X
<1>4. \A K : Row(Strs(ns), X, K, S(2))
  BY <1>1, <1>2, <1>3, StrsRow
<1> QED
  BY <1>4, RowIsTable DEF ns, X

\* Three strings.
LEMMA StrsThree ==
  ASSUME NEW a, NEW b, NEW c, a \notin {b, c}, b # c
  PROVE  LET T == Strs(<<a, b, c>>) IN
         /\ SimpleRow(T) /\ MemberRow(T)
         /\ \A K : Row(T, {a, b, c}, K, S(3))
<1> DEFINE ns == <<a, b, c>>
           X == {a, b, c}
<1>1. ns \in Seq(X) /\ Len(ns) = 3
  OBVIOUS
<1>2. \A p, q \in DOMAIN ns : ns[p] = ns[q] => p = q
  OBVIOUS
<1>3. X = {ns[k] : k \in DOMAIN ns}
  OBVIOUS
<1> HIDE DEF ns, X
<1>4. \A K : Row(Strs(ns), X, K, S(3))
  BY <1>1, <1>2, <1>3, StrsRow
<1> QED
  BY <1>4, RowIsTable DEF ns, X

\* Four strings.
LEMMA StrsFour ==
  ASSUME NEW a, NEW b, NEW c, NEW d, a \notin {b, c, d}, b \notin {c, d}, c # d
  PROVE  LET T == Strs(<<a, b, c, d>>) IN
         /\ SimpleRow(T) /\ MemberRow(T)
         /\ \A K : Row(T, {a, b, c, d}, K, S(4))
<1> DEFINE ns == <<a, b, c, d>>
           X == {a, b, c, d}
<1>1. ns \in Seq(X) /\ Len(ns) = 4
  OBVIOUS
<1>2. \A p, q \in DOMAIN ns : ns[p] = ns[q] => p = q
  OBVIOUS
<1>3. X = {ns[k] : k \in DOMAIN ns}
  OBVIOUS
<1> HIDE DEF ns, X
<1>4. \A K : Row(Strs(ns), X, K, S(4))
  BY <1>1, <1>2, <1>3, StrsRow
<1> QED
  BY <1>4, RowIsTable DEF ns, X

\* Five strings.
LEMMA StrsFive ==
  ASSUME NEW a, NEW b, NEW c, NEW d, NEW e, a \notin {b, c, d, e}, b \notin {c, d, e}, c \notin {d,
         e}, d # e
  PROVE  LET T == Strs(<<a, b, c, d, e>>) IN
         /\ SimpleRow(T) /\ MemberRow(T)
         /\ \A K : Row(T, {a, b, c, d, e}, K, S(5))
<1> DEFINE ns == <<a, b, c, d, e>>
           X == {a, b, c, d, e}
<1>1. ns \in Seq(X) /\ Len(ns) = 5
  OBVIOUS
<1>2. \A p, q \in DOMAIN ns : ns[p] = ns[q] => p = q
  OBVIOUS
<1>3. X = {ns[k] : k \in DOMAIN ns}
  OBVIOUS
<1> HIDE DEF ns, X
<1>4. \A K : Row(Strs(ns), X, K, S(5))
  BY <1>1, <1>2, <1>3, StrsRow
<1> QED
  BY <1>4, RowIsTable DEF ns, X

\* Six strings.
LEMMA StrsSix ==
  ASSUME NEW a, NEW b, NEW c, NEW d, NEW e, NEW f, a \notin {b, c, d, e, f}, b \notin {c, d, e, f},
         c \notin {d, e, f}, d \notin {e, f}, e # f
  PROVE  LET T == Strs(<<a, b, c, d, e, f>>) IN
         /\ SimpleRow(T) /\ MemberRow(T)
         /\ \A K : Row(T, {a, b, c, d, e, f}, K, S(6))
<1> DEFINE ns == <<a, b, c, d, e, f>>
           X == {a, b, c, d, e, f}
<1>1. ns \in Seq(X) /\ Len(ns) = 6
  OBVIOUS
<1>2. \A p, q \in DOMAIN ns : ns[p] = ns[q] => p = q
  OBVIOUS
<1>3. X = {ns[k] : k \in DOMAIN ns}
  OBVIOUS
<1> HIDE DEF ns, X
<1>4. \A K : Row(Strs(ns), X, K, S(6))
  BY <1>1, <1>2, <1>3, StrsRow
<1> QED
  BY <1>4, RowIsTable DEF ns, X

\* Eight strings.
LEMMA StrsEight ==
  ASSUME NEW a, NEW b, NEW c, NEW d, NEW e, NEW f, NEW g, NEW h, a \notin {b, c, d, e, f, g, h},
         b \notin {c, d, e, f, g, h}, c \notin {d, e, f, g, h}, d \notin {e, f, g, h}, e \notin {f,
         g, h}, f \notin {g, h}, g # h
  PROVE  LET T == Strs(<<a, b, c, d, e, f, g, h>>) IN
         /\ SimpleRow(T) /\ MemberRow(T)
         /\ \A K : Row(T, {a, b, c, d, e, f, g, h}, K, S(8))
<1> DEFINE ns == <<a, b, c, d, e, f, g, h>>
           X == {a, b, c, d, e, f, g, h}
<1>1. ns \in Seq(X) /\ Len(ns) = 8
  OBVIOUS
<1>2. \A p, q \in DOMAIN ns : ns[p] = ns[q] => p = q
  OBVIOUS
<1>3. X = {ns[k] : k \in DOMAIN ns}
  OBVIOUS
<1> HIDE DEF ns, X
<1>4. \A K : Row(Strs(ns), X, K, S(8))
  BY <1>1, <1>2, <1>3, StrsRow
<1> QED
  BY <1>4, RowIsTable DEF ns, X

\* Nine strings.
LEMMA StrsNine ==
  ASSUME NEW a, NEW b, NEW c, NEW d, NEW e, NEW f, NEW g, NEW h, NEW i, a \notin {b, c, d, e, f, g,
         h, i}, b \notin {c, d, e, f, g, h, i}, c \notin {d, e, f, g, h, i}, d \notin {e, f, g, h,
         i}, e \notin {f, g, h, i}, f \notin {g, h, i}, g \notin {h, i}, h # i
  PROVE  LET T == Strs(<<a, b, c, d, e, f, g, h, i>>) IN
         /\ SimpleRow(T) /\ MemberRow(T)
         /\ \A K : Row(T, {a, b, c, d, e, f, g, h, i}, K, S(9))
<1> DEFINE ns == <<a, b, c, d, e, f, g, h, i>>
           X == {a, b, c, d, e, f, g, h, i}
<1>1. ns \in Seq(X) /\ Len(ns) = 9
  OBVIOUS
<1>2. \A p, q \in DOMAIN ns : ns[p] = ns[q] => p = q
  OBVIOUS
<1>3. X = {ns[k] : k \in DOMAIN ns}
  OBVIOUS
<1> HIDE DEF ns, X
<1>4. \A K : Row(Strs(ns), X, K, S(9))
  BY <1>1, <1>2, <1>3, StrsRow
<1> QED
  BY <1>4, RowIsTable DEF ns, X

\* One number.
LEMMA NumsOne ==
  ASSUME NEW a
  PROVE  LET T == Nums(<<a>>) IN
         /\ SimpleRow(T) /\ MemberRow(T)
         /\ \A K : Row(T, {a}, K, N(1))
<1> DEFINE ns == <<a>>
           X == {a}
<1>1. ns \in Seq(X) /\ Len(ns) = 1
  OBVIOUS
<1>2. \A p, q \in DOMAIN ns : ns[p] = ns[q] => p = q
  OBVIOUS
<1>3. X = {ns[k] : k \in DOMAIN ns}
  OBVIOUS
<1> HIDE DEF ns, X
<1>4. \A K : Row(Nums(ns), X, K, N(1))
  BY <1>1, <1>2, <1>3, NumsRow
<1> QED
  BY <1>4, RowIsTable DEF ns, X

\* Two numbers.
LEMMA NumsTwo ==
  ASSUME NEW a, NEW b, a # b
  PROVE  LET T == Nums(<<a, b>>) IN
         /\ SimpleRow(T) /\ MemberRow(T)
         /\ \A K : Row(T, {a, b}, K, N(2))
<1> DEFINE ns == <<a, b>>
           X == {a, b}
<1>1. ns \in Seq(X) /\ Len(ns) = 2
  OBVIOUS
<1>2. \A p, q \in DOMAIN ns : ns[p] = ns[q] => p = q
  OBVIOUS
<1>3. X = {ns[k] : k \in DOMAIN ns}
  OBVIOUS
<1> HIDE DEF ns, X
<1>4. \A K : Row(Nums(ns), X, K, N(2))
  BY <1>1, <1>2, <1>3, NumsRow
<1> QED
  BY <1>4, RowIsTable DEF ns, X

\* No parameter.
LEMMA EmptyRow == ASSUME NEW K PROVE Row(<< >>, {}, K, << >>)
<1>1. DOMAIN << >> = {} /\ << >> \in Seq({}) /\ Types(<< >>) = << >>
  BY DEF Types
<1> QED
  BY <1>1 DEF Row, IsSeq, Distinct, NamesIn

\* The runs that have a name.
LEMMA Runs ==
  ASSUME NEW K
  PROVE  /\ Row(User, {"cuId", "cuUserId"}, K, S(2)) /\ Row(Span, {"startTime", "endTime"}, K, S(2))
         /\ Row(Session, {"sessionId"}, K, S(1)) /\ Row(Target, {"targetIpAddr", "targetPort"}, K, S(2))
         /\ Row(Packets, {"totalPkt", "pktNum"}, K, N(2))
         /\ Row(Totals, {"totalNumber", "currentNumber"}, K, N(2))
         /\ Row(Opened, {"cuId", "resId", "sessionId", "tcpIp", "tcpPort"}, K, S(5))
<1>1. Row(User, {"cuId", "cuUserId"}, K, S(2)) /\ Row(Span, {"startTime", "endTime"}, K, S(2))
  BY StrsTwo DEF User, Span
<1>2. Row(Session, {"sessionId"}, K, S(1)) /\ Row(Target, {"targetIpAddr", "targetPort"}, K, S(2))
  BY StrsOne, StrsTwo DEF Session, Target
<1>3. /\ Row(Packets, {"totalPkt", "pktNum"}, K, N(2))
      /\ Row(Totals, {"totalNumber", "currentNumber"}, K, N(2))
  BY NumsTwo DEF Packets, Totals
<1>4. Row(Opened, {"cuId", "resId", "sessionId", "tcpIp", "tcpPort"}, K, S(5))
  BY StrsFive DEF Opened
<1> QED
  BY <1>1, <1>2, <1>3, <1>4

\* The runs that are the fields of a list or a struct.
LEMMA NamedRows == SimpleRow(Span) /\ SimpleRow(Resource) /\ MemberRow(Resource)
BY StrsTwo, StrsFive DEF Span, Resource

\* The struct of an alarm.
LEMMA UrlRow == ASSUME NEW K \in {"member", "param"} PROVE Row(Url, {"url"}, K, << "struct" >>)
BY StrsTwo, StructRow DEF Url

\* The runs of strings that are joined in the tables.
LEMMA StringSums ==
  /\ S(2) \o S(1) = S(3) /\ S(2) \o S(2) = S(4) /\ S(2) \o S(3) = S(5)
  /\ S(3) \o S(1) = S(4) /\ S(3) \o S(2) = S(5) /\ S(4) \o S(1) = S(5)
<1>1. S(2) \o S(1) = S(2 + 1) /\ S(2) \o S(2) = S(2 + 2) /\ S(2) \o S(3) = S(2 + 3)
  BY StringRuns
<1>2. S(3) \o S(1) = S(3 + 1) /\ S(3) \o S(2) = S(3 + 2) /\ S(4) \o S(1) = S(4 + 1)
  BY StringRuns
<1>3. 2 + 1 = 3 /\ 2 + 2 = 4 /\ 2 + 3 = 5 /\ 3 + 1 = 4 /\ 3 + 2 = 5 /\ 4 + 1 = 5
  OBVIOUS
<1> QED
  BY <1>1, <1>2, <1>3

\* What the callers put into a call.
LEMMA CallTables ==
  /\ Table(Call_CuRegister) /\ Types(Call_CuRegister) = S(5)
  /\ Table(Call_CuKeepAlive) /\ Types(Call_CuKeepAlive) = S(1)
  /\ Table(Call_GetDepResList) /\ Types(Call_GetDepResList) = S(2)
  /\ Table(Call_GetVideoResList) /\ Types(Call_GetVideoResList) = S(3)
  /\ Table(Call_GetAlarmResList) /\ Types(Call_GetAlarmResList) = S(2)
  /\ Table(Call_QueryAlarmInfo) /\ Types(Call_QueryAlarmInfo) = S(2) \o N(1) \o A
  /\ Table(Call_AlarmHisQuery) /\ Types(Call_AlarmHisQuery) = S(4) \o N(1) \o <<"struct">>
  /\ Table(Call_PTZCtrl) /\ Types(Call_PTZCtrl) = S(5) \o N(1)
  /\ Table(Call_PlayQuery) /\ Types(Call_PlayQuery) = S(3) \o N(1) \o <<"struct">>
  /\ Table(Call_PlayOpen) /\ Types(Call_PlayOpen) = S(3) \o N(2) \o S(2)
  /\ Table(Call_PlayStart) /\ Types(Call_PlayStart) = S(4)
  /\ Table(Call_HisPlayOpen) /\ Types(Call_HisPlayOpen) = S(5) \o N(1) \o S(2) \o N(1)
  /\ Table(Call_HisPlayStart) /\ Types(Call_HisPlayStart) = S(4)
  /\ Table(Call_HisLoadOpen) /\ Types(Call_HisLoadOpen) = S(5) \o N(1) \o S(2) \o N(1)
  /\ Table(Call_HisLoadStart) /\ Types(Call_HisLoadStart) = S(4)
  /\ Table(Call_PlayClose) /\ Types(Call_PlayClose) = S(3) \o N(1) \o S(1)
  /\ Table(Call_PlayCtrl) /\ Types(Call_PlayCtrl) = S(5) \o N(1)
  /\ Table(Call_ReportAlarmRes_A) /\ Types(Call_ReportAlarmRes_A) = A
  /\ Table(Call_ReportCamResState_A) /\ Types(Call_ReportCamResState_A) = A
  /\ Table(Call_QueryAlarmRes_A) /\ Types(Call_QueryAlarmRes_A) = S(2) \o A
  /\ Table(Call_ReportAlarmRes_B) /\ Types(Call_ReportAlarmRes_B) = S(2) \o A
  /\ Table(Call_ReportCamResState_B) /\ Types(Call_ReportCamResState_B) = S(1) \o A
  /\ Table(Call_QueryAlarmRes_B) /\ Types(Call_QueryAlarmRes_B) = S(2) \o A
  /\ Table(Call_MUKeepAlive) /\ Types(Call_MUKeepAlive) = S(1)
<1>1. Table(Call_CuRegister) /\ Types(Call_CuRegister) = S(5)
  <2>1. Row(Strs(<<"cuPassword", "cuUserId", "cuIp", "cuPort", "version">>), {"cuPassword",
            "cuUserId", "cuIp", "cuPort", "version"}, "param", S(5))
    BY StrsFive
  <2> QED
    BY <2>1, RowIsTable DEF Call_CuRegister
<1>2. Table(Call_CuKeepAlive) /\ Types(Call_CuKeepAlive) = S(1)
  <2>1. Row(Strs(<<"keepAlivePeriod">>), {"keepAlivePeriod"}, "param", S(1))
    BY StrsOne
  <2> QED
    BY <2>1, RowIsTable DEF Call_CuKeepAlive
<1>3. Table(Call_GetDepResList) /\ Types(Call_GetDepResList) = S(2)
  <2>1. Row(User, {"cuId", "cuUserId"}, "param", S(2))
    BY Runs
  <2> QED
    BY <2>1, RowIsTable DEF Call_GetDepResList
<1>4. Table(Call_GetVideoResList) /\ Types(Call_GetVideoResList) = S(3)
  <2>1. Row(User \o Strs(<<"departId">>), {"cuId", "cuUserId"}
            \cup {"departId"}, "param", S(2) \o S(1))
    BY Runs, StrsOne, Joined
  <2> QED
    BY <2>1, RowIsTable, StringSums DEF Call_GetVideoResList
<1>5. Table(Call_GetAlarmResList) /\ Types(Call_GetAlarmResList) = S(2)
  <2>1. Row(User, {"cuId", "cuUserId"}, "param", S(2))
    BY Runs
  <2> QED
    BY <2>1, RowIsTable DEF Call_GetAlarmResList
<1>6. Table(Call_QueryAlarmInfo) /\ Types(Call_QueryAlarmInfo) = S(2) \o N(1) \o A
  <2>1. Row(User \o Nums(<<"queryLocation">>)
            \o Group(Strs(<<"id", "type", "startTime", "endTime">>)), {"cuId", "cuUserId"}
            \cup {"queryLocation"} \cup {"group"}, "param", S(2) \o N(1) \o A)
    BY GroupRow, NumsOne, Runs, StrsFour, Joined
  <2> QED
    BY <2>1, RowIsTable DEF Call_QueryAlarmInfo
<1>7. Table(Call_AlarmHisQuery) /\ Types(Call_AlarmHisQuery) = S(4) \o N(1) \o <<"struct">>
  <2>1. Row(User \o Strs(<<"alarmId", "type">>) \o Nums(<<"queryLocation">>)
            \o << Struct("queryURL", Span) >>, {"cuId", "cuUserId"}
            \cup {"alarmId", "type"} \cup {"queryLocation"}
            \cup {"queryURL"}, "param", S(2) \o S(2) \o N(1) \o <<"struct">>)
    BY NamedRows, NumsOne, Runs, StrsTwo, StructRow, Joined
  <2> QED
    BY <2>1, RowIsTable, StringSums DEF Call_AlarmHisQuery
<1>8. Table(Call_PTZCtrl) /\ Types(Call_PTZCtrl) = S(5) \o N(1)
  <2>1. Row(User \o Strs(<<"resId", "cmd", "param">>)
            \o Nums(<<"speed">>), {"cuId", "cuUserId"} \cup {"resId", "cmd", "param"}
            \cup {"speed"}, "param", S(2) \o S(3) \o N(1))
    BY NumsOne, Runs, StrsThree, Joined
  <2> QED
    BY <2>1, RowIsTable, StringSums DEF Call_PTZCtrl
<1>9. Table(Call_PlayQuery) /\ Types(Call_PlayQuery) = S(3) \o N(1) \o <<"struct">>
  <2>1. Row(User \o Strs(<<"resId">>) \o Nums(<<"queryLocation">>)
            \o << Struct("queryURL", Span) >>, {"cuId", "cuUserId"} \cup {"resId"}
            \cup {"queryLocation"}
            \cup {"queryURL"}, "param", S(2) \o S(1) \o N(1) \o <<"struct">>)
    BY NamedRows, NumsOne, Runs, StrsOne, StructRow, Joined
  <2> QED
    BY <2>1, RowIsTable, StringSums DEF Call_PlayQuery
<1>10. Table(Call_PlayOpen) /\ Types(Call_PlayOpen) = S(3) \o N(2) \o S(2)
  <2>1. Row(User \o Strs(<<"resId">>) \o Nums(<<"mediaType", "linkMode">>)
            \o Target, {"cuId", "cuUserId"} \cup {"resId"} \cup {"mediaType", "linkMode"}
            \cup {"targetIpAddr", "targetPort"}, "param", S(2) \o S(1) \o N(2) \o S(2))
    BY NumsTwo, Runs, StrsOne, Joined
  <2> QED
    BY <2>1, RowIsTable, StringSums DEF Call_PlayOpen
<1>11. Table(Call_PlayStart) /\ Types(Call_PlayStart) = S(4)
  <2>1. Row(User \o Strs(<<"resId">>) \o Session, {"cuId", "cuUserId"} \cup {"resId"}
            \cup {"sessionId"}, "param", S(2) \o S(1) \o S(1))
    BY Runs, StrsOne, Joined
  <2> QED
    BY <2>1, RowIsTable, StringSums DEF Call_PlayStart
<1>12. Table(Call_HisPlayOpen) /\ Types(Call_HisPlayOpen) = S(5) \o N(1) \o S(2) \o N(1)
  <2>1. Row(User \o Strs(<<"resId">>) \o Span, {"cuId", "cuUserId"} \cup {"resId"}
            \cup {"startTime", "endTime"}, "param", S(2) \o S(1) \o S(2))
    BY NumsOne, Runs, StrsOne, Joined
  <2>2. Row(User \o Strs(<<"resId">>) \o Span \o Nums(<<"linkMode">>) \o Target
            \o Nums(<<"locationFlag">>), {"cuId", "cuUserId"} \cup {"resId"}
            \cup {"startTime", "endTime"} \cup {"linkMode"}
            \cup {"targetIpAddr", "targetPort"}
            \cup {"locationFlag"}, "param", S(2) \o S(1) \o S(2) \o N(1) \o S(2) \o N(1))
    BY <2>1, NumsOne, Runs, StrsOne, Joined
  <2> QED
    BY <2>2, RowIsTable, StringSums DEF Call_HisPlayOpen
<1>13. Table(Call_HisPlayStart) /\ Types(Call_HisPlayStart) = S(4)
  <2>1. Row(User \o Strs(<<"resId">>) \o Session, {"cuId", "cuUserId"} \cup {"resId"}
            \cup {"sessionId"}, "param", S(2) \o S(1) \o S(1))
    BY Runs, StrsOne, Joined
  <2> QED
    BY <2>1, RowIsTable, StringSums DEF Call_HisPlayStart
<1>14. Table(Call_HisLoadOpen) /\ Types(Call_HisLoadOpen) = S(5) \o N(1) \o S(2) \o N(1)
  <2>1. Row(User \o Strs(<<"resId">>) \o Span, {"cuId", "cuUserId"} \cup {"resId"}
            \cup {"startTime", "endTime"}, "param", S(2) \o S(1) \o S(2))
    BY NumsOne, Runs, StrsOne, Joined
  <2>2. Row(User \o Strs(<<"resId">>) \o Span \o Nums(<<"linkMode">>) \o Target
            \o Nums(<<"locationFlag">>), {"cuId", "cuUserId"} \cup {"resId"}
            \cup {"startTime", "endTime"} \cup {"linkMode"}
            \cup {"targetIpAddr", "targetPort"}
            \cup {"locationFlag"}, "param", S(2) \o S(1) \o S(2) \o N(1) \o S(2) \o N(1))
    BY <2>1, NumsOne, Runs, StrsOne, Joined
  <2> QED
    BY <2>2, RowIsTable, StringSums DEF Call_HisLoadOpen
<1>15. Table(Call_HisLoadStart) /\ Types(Call_HisLoadStart) = S(4)
  <2>1. Row(User \o Strs(<<"resId">>) \o Session, {"cuId", "cuUserId"} \cup {"resId"}
            \cup {"sessionId"}, "param", S(2) \o S(1) \o S(1))
    BY Runs, StrsOne, Joined
  <2> QED
    BY <2>1, RowIsTable, StringSums DEF Call_HisLoadStart
<1>16. Table(Call_PlayClose) /\ Types(Call_PlayClose) = S(3) \o N(1) \o S(1)
  <2>1. Row(User \o Strs(<<"resId">>) \o Nums(<<"stopFlag">>)
            \o Session, {"cuId", "cuUserId"} \cup {"resId"} \cup {"stopFlag"}
            \cup {"sessionId"}, "param", S(2) \o S(1) \o N(1) \o S(1))
    BY NumsOne, Runs, StrsOne, Joined
  <2> QED
    BY <2>1, RowIsTable, StringSums DEF Call_PlayClose
<1>17. Table(Call_PlayCtrl) /\ Types(Call_PlayCtrl) = S(5) \o N(1)
  <2>1. Row(User \o Strs(<<"resId">>) \o Session, {"cuId", "cuUserId"} \cup {"resId"}
            \cup {"sessionId"}, "param", S(2) \o S(1) \o S(1))
    BY NumsOne, Runs, StrsOne, Joined
  <2>2. Row(User \o Strs(<<"resId">>) \o Session \o Strs(<<"cmd">>)
            \o Nums(<<"param">>), {"cuId", "cuUserId"} \cup {"resId"} \cup {"sessionId"}
            \cup {"cmd"} \cup {"param"}, "param", S(2) \o S(1) \o S(1) \o S(1) \o N(1))
    BY <2>1, NumsOne, Runs, StrsOne, Joined
  <2> QED
    BY <2>2, RowIsTable, StringSums DEF Call_PlayCtrl
<1>18. Table(Call_ReportAlarmRes_A) /\ Types(Call_ReportAlarmRes_A) = A
  <2>1. Row(Strs(<<"id", "type", "startTime", "endTime", "targetInfo">>)
            \o Nums(<<"level", "state">>)
            \o Strs(<<"description">>), {"id", "type", "startTime", "endTime",
            "targetInfo"} \cup {"level", "state"}
            \cup {"description"}, "member", S(5) \o N(2) \o S(1))
    BY Joined, NumsTwo, StrsFive, StrsOne
  <2>2. MemberRow(Strs(<<"id", "type", "startTime", "endTime", "targetInfo">>)
          \o Nums(<<"level", "state">>) \o Strs(<<"description">>))
    BY <2>1, RowIsTable
  <2>3. Row(Group(Strs(<<"id", "type", "startTime", "endTime", "targetInfo">>)
            \o Nums(<<"level", "state">>) \o Strs(<<"description">>)), {"group"}, "param", A)
    BY <2>2, GroupRow
  <2> QED
    BY <2>3, RowIsTable DEF Call_ReportAlarmRes_A
<1>19. Table(Call_ReportCamResState_A) /\ Types(Call_ReportCamResState_A) = A
  <2>1. Row(Group(Strs(<<"resId", "state">>)), {"group"}, "param", A)
    BY GroupRow, StrsTwo
  <2> QED
    BY <2>1, RowIsTable DEF Call_ReportCamResState_A
<1>20. Table(Call_QueryAlarmRes_A) /\ Types(Call_QueryAlarmRes_A) = S(2) \o A
  <2>1. Row(User \o Group(Strs(<<"id", "type", "state">>)), {"cuId", "cuUserId"}
            \cup {"group"}, "param", S(2) \o A)
    BY GroupRow, Runs, StrsThree, Joined
  <2> QED
    BY <2>1, RowIsTable DEF Call_QueryAlarmRes_A
<1>21. Table(Call_ReportAlarmRes_B) /\ Types(Call_ReportAlarmRes_B) = S(2) \o A
  <2>1. Row(Strs(<<"id", "type", "startTime", "endTime", "targetInfo">>)
            \o Nums(<<"level">>) \o Strs(<<"state", "description", "alarmHisRecord">>)
            \o Url, {"id", "type", "startTime", "endTime", "targetInfo"} \cup {"level"}
            \cup {"state", "description", "alarmHisRecord"}
            \cup {"url"}, "member", S(5) \o N(1) \o S(3) \o <<"struct">>)
    BY Joined, NumsOne, StrsFive, StrsThree, UrlRow
  <2>2. MemberRow(Strs(<<"id", "type", "startTime", "endTime", "targetInfo">>)
          \o Nums(<<"level">>) \o Strs(<<"state", "description", "alarmHisRecord">>) \o Url)
    BY <2>1, RowIsTable
  <2>3. Row(Strs(<<"muId", "muName">>)
            \o Group(Strs(<<"id", "type", "startTime", "endTime", "targetInfo">>)
            \o Nums(<<"level">>) \o Strs(<<"state", "description", "alarmHisRecord">>)
            \o Url), {"muId", "muName"} \cup {"group"}, "param", S(2) \o A)
    BY <2>2, GroupRow, StrsTwo, Joined
  <2> QED
    BY <2>3, RowIsTable DEF Call_ReportAlarmRes_B
<1>22. Table(Call_ReportCamResState_B) /\ Types(Call_ReportCamResState_B) = S(1) \o A
  <2>1. Row(Strs(<<"muId">>) \o Group(Strs(<<"resId", "state">>)), {"muId"}
            \cup {"group"}, "param", S(1) \o A)
    BY GroupRow, StrsOne, StrsTwo, Joined
  <2> QED
    BY <2>1, RowIsTable DEF Call_ReportCamResState_B
<1>23. Table(Call_QueryAlarmRes_B) /\ Types(Call_QueryAlarmRes_B) = S(2) \o A
  <2>1. Row(Strs(<<"muId", "muName">>)
            \o Group(Strs(<<"id", "type">>)), {"muId", "muName"}
            \cup {"group"}, "param", S(2) \o A)
    BY GroupRow, StrsTwo, Joined
  <2> QED
    BY <2>1, RowIsTable DEF Call_QueryAlarmRes_B
<1>24. Table(Call_MUKeepAlive) /\ Types(Call_MUKeepAlive) = S(1)
  <2>1. Row(Strs(<<"muKeepAlivePeriod">>), {"muKeepAlivePeriod"}, "param", S(1))
    BY StrsOne
  <2> QED
    BY <2>1, RowIsTable DEF Call_MUKeepAlive
<1> QED
  BY <1>1, <1>2, <1>3, <1>4, <1>5, <1>6, <1>7, <1>8, <1>9, <1>10, <1>11, <1>12, <1>13, <1>14,
     <1>15, <1>16, <1>17, <1>18, <1>19, <1>20, <1>21, <1>22, <1>23, <1>24


\* What the parsers without a handler look for.
LEMMA UnservedTables ==
  /\ Table(Parse_MURegister)
  /\ Table(Parse_ResReport)
  /\ Table(Parse_ResChange)
  /\ Table(Parse_UserResReport)
  /\ Table(Parse_UserResChange)
  /\ Table(Parse_AlarmResListReport)
  /\ Table(Parse_AlarmResListChange)
  /\ Table(Parse_QueryHistoryFiles)
  /\ Table(Parse_StartMediaReq)
  /\ Table(Parse_INFO)
  /\ Table(Parse_StopMediaReq)
  /\ Table(Parse_StartPlayBack)
  /\ Table(Parse_HisInfo)
  /\ Table(Parse_ControlFileBack)
  /\ Table(Parse_StartHisLoad)
  /\ Table(Parse_HisLoadInfo)
  /\ Table(Parse_ReqCamResState)
  /\ Table(Parse_GetUserCurState)
  /\ Table(Parse_SetUserCamManage)
  /\ Table(Parse_AlarmResSubscribe)
  /\ Table(Parse_ReportAlarmInfo)
  /\ Table(Parse_ControlPTZ)
  /\ Table(Parse_ResTransOrder)
  /\ Table(Parse_ResChangeOrder)
<1>1. Table(Parse_MURegister)
  <2>1. Row(Strs(<<"muId", "muIp", "muPort", "muName", "muPassword", "manufacturerld",
            "manufacturerName", "productVersion", "softwareVersion">>), {"muId", "muIp",
            "muPort", "muName", "muPassword", "manufacturerld", "manufacturerName",
            "productVersion", "softwareVersion"}, "param", S(9))
    BY StrsNine
  <2> QED
    BY <2>1, RowIsTable DEF Parse_MURegister
<1>2. Table(Parse_ResReport)
  <2>1. Row(Strs(<<"muId">>) \o Nums(<<"totalPacketNum", "curPacketNum">>)
            \o Group(Resource), {"muId"} \cup {"totalPacketNum", "curPacketNum"}
            \cup {"group"}, "param", S(1) \o N(2) \o A)
    BY GroupRow, NamedRows, NumsTwo, StrsOne, Joined
  <2> QED
    BY <2>1, RowIsTable DEF Parse_ResReport
<1>3. Table(Parse_ResChange)
  <2>1. Row(Strs(<<"muId", "cmd">>) \o Group(Resource), {"muId", "cmd"}
            \cup {"group"}, "param", S(2) \o A)
    BY GroupRow, NamedRows, StrsTwo, Joined
  <2> QED
    BY <2>1, RowIsTable DEF Parse_ResChange
<1>4. Table(Parse_UserResReport)
  <2>1. Row(Strs(<<"muId", "muName">>) \o Packets
            \o Group(Strs(<<"id", "name">>)), {"muId", "muName"}
            \cup {"totalPkt", "pktNum"} \cup {"group"}, "param", S(2) \o N(2) \o A)
    BY GroupRow, Runs, StrsTwo, Joined
  <2> QED
    BY <2>1, RowIsTable DEF Parse_UserResReport
<1>5. Table(Parse_UserResChange)
  <2>1. Row(Strs(<<"muId">>) \o Packets \o Nums(<<"cmd">>)
            \o Group(Strs(<<"id", "name">>)), {"muId"} \cup {"totalPkt", "pktNum"}
            \cup {"cmd"} \cup {"group"}, "param", S(1) \o N(2) \o N(1) \o A)
    BY GroupRow, NumsOne, Runs, StrsOne, StrsTwo, Joined
  <2> QED
    BY <2>1, RowIsTable DEF Parse_UserResChange
<1>6. Table(Parse_AlarmResListReport)
  <2>1. Row(Strs(<<"muId", "muName">>) \o Packets
            \o Group(Strs(<<"id", "name", "description">>)), {"muId", "muName"}
            \cup {"totalPkt", "pktNum"} \cup {"group"}, "param", S(2) \o N(2) \o A)
    BY GroupRow, Runs, StrsThree, StrsTwo, Joined
  <2> QED
    BY <2>1, RowIsTable DEF Parse_AlarmResListReport
<1>7. Table(Parse_AlarmResListChange)
  <2>1. Row(Strs(<<"muId", "muName", "num">>) \o Packets \o Nums(<<"cmd">>)
            \o Group(Strs(<<"id", "name", "type">>)), {"muId", "muName", "num"}
            \cup {"totalPkt", "pktNum"} \cup {"cmd"}
            \cup {"group"}, "param", S(3) \o N(2) \o N(1) \o A)
    BY GroupRow, NumsOne, Runs, StrsThree, Joined
  <2> QED
    BY <2>1, RowIsTable DEF Parse_AlarmResListChange
<1>8. Table(Parse_QueryHistoryFiles)
  <2>1. Row(Nums(<<"cuId">>) \o Strs(<<"fromDate">>) \o Nums(<<"toDate">>), {"cuId"}
            \cup {"fromDate"} \cup {"toDate"}, "param", N(1) \o S(1) \o N(1))
    BY NumsOne, StrsOne, Joined
  <2>2. Row(Request(Nums(<<"cuId">>) \o Strs(<<"fromDate">>)
            \o Nums(<<"toDate">>)), ({"resId", "userId", "userLevel"} \cup ({"cuId"}
            \cup {"fromDate"} \cup {"toDate"})), "param", (S(3) \o (N(1) \o S(1) \o N(1))))
    BY <2>1, NumsOne, StrsOne, StrsThree, Joined DEF Request
  <2> QED
    BY <2>2, RowIsTable DEF Parse_QueryHistoryFiles
<1>9. Table(Parse_StartMediaReq)
  <2>1. Row(Nums(<<"mediaType">>) \o Strs(<<"linkMode">>)
            \o Nums(<<"targetIpAddr">>), {"mediaType"} \cup {"linkMode"}
            \cup {"targetIpAddr"}, "param", N(1) \o S(1) \o N(1))
    BY NumsOne, StrsOne, Joined
  <2>2. Row(Nums(<<"mediaType">>) \o Strs(<<"linkMode">>) \o Nums(<<"targetIpAddr">>)
            \o Strs(<<"targetPort">>) \o Nums(<<"flag">>), {"mediaType"} \cup {"linkMode"}
            \cup {"targetIpAddr"} \cup {"targetPort"}
            \cup {"flag"}, "param", N(1) \o S(1) \o N(1) \o S(1) \o N(1))
    BY <2>1, NumsOne, StrsOne, Joined
  <2>3. Row(Request(Nums(<<"mediaType">>) \o Strs(<<"linkMode">>)
            \o Nums(<<"targetIpAddr">>) \o Strs(<<"targetPort">>)
            \o Nums(<<"flag">>)), ({"resId", "userId", "userLevel"} \cup ({"mediaType"}
            \cup {"linkMode"} \cup {"targetIpAddr"} \cup {"targetPort"}
            \cup {"flag"})), "param", (S(3) \o (N(1) \o S(1) \o N(1) \o S(1) \o N(1))))
    BY <2>2, NumsOne, StrsOne, StrsThree, Joined DEF Request
  <2> QED
    BY <2>3, RowIsTable DEF Parse_StartMediaReq
<1>10. Table(Parse_INFO)
  <2>1. Row(Session \o Request(<< >>), {"sessionId"}
            \cup ({"resId", "userId", "userLevel"} \cup {}), "param", S(1) \o (S(3) \o << >>))
    BY EmptyRow, Runs, StrsThree, Joined DEF Request
  <2> QED
    BY <2>1, RowIsTable DEF Parse_INFO
<1>11. Table(Parse_StopMediaReq)
  <2>1. Row(Session \o Strs(<<"resId">>) \o Nums(<<"stopFlag">>), {"sessionId"}
            \cup {"resId"} \cup {"stopFlag"}, "param", S(1) \o S(1) \o N(1))
    BY NumsOne, Runs, StrsOne, Joined
  <2> QED
    BY <2>1, RowIsTable DEF Parse_StopMediaReq
<1>12. Table(Parse_StartPlayBack)
  <2>1. Row(Request(Span) \o Nums(<<"linkMode">>) \o Target
            \o Nums(<<"flag", "locationFlag">>), ({"resId", "userId", "userLevel"}
            \cup {"startTime", "endTime"}) \cup {"linkMode"}
            \cup {"targetIpAddr", "targetPort"}
            \cup {"flag", "locationFlag"}, "param", (S(3) \o S(2)) \o N(1) \o S(2) \o N(2))
    BY NumsOne, NumsTwo, Runs, StrsThree, Joined DEF Request
  <2> QED
    BY <2>1, RowIsTable DEF Parse_StartPlayBack
<1>13. Table(Parse_HisInfo)
  <2>1. Row(Session \o Request(<< >>), {"sessionId"}
            \cup ({"resId", "userId", "userLevel"} \cup {}), "param", S(1) \o (S(3) \o << >>))
    BY EmptyRow, Runs, StrsThree, Joined DEF Request
  <2> QED
    BY <2>1, RowIsTable DEF Parse_HisInfo
<1>14. Table(Parse_ControlFileBack)
  <2>1. Row(Session \o Strs(<<"resId", "cmd">>) \o Nums(<<"param">>), {"sessionId"}
            \cup {"resId", "cmd"} \cup {"param"}, "param", S(1) \o S(2) \o N(1))
    BY NumsOne, Runs, StrsTwo, Joined
  <2> QED
    BY <2>1, RowIsTable DEF Parse_ControlFileBack
<1>15. Table(Parse_StartHisLoad)
  <2>1. Row(Request(Span) \o Nums(<<"linkMode">>) \o Target
            \o Nums(<<"flag", "locationFlag">>), ({"resId", "userId", "userLevel"}
            \cup {"startTime", "endTime"}) \cup {"linkMode"}
            \cup {"targetIpAddr", "targetPort"}
            \cup {"flag", "locationFlag"}, "param", (S(3) \o S(2)) \o N(1) \o S(2) \o N(2))
    BY NumsOne, NumsTwo, Runs, StrsThree, Joined DEF Request
  <2> QED
    BY <2>1, RowIsTable DEF Parse_StartHisLoad
<1>16. Table(Parse_HisLoadInfo)
  <2>1. Row(Session \o Request(<< >>), {"sessionId"}
            \cup ({"resId", "userId", "userLevel"} \cup {}), "param", S(1) \o (S(3) \o << >>))
    BY EmptyRow, Runs, StrsThree, Joined DEF Request
  <2> QED
    BY <2>1, RowIsTable DEF Parse_HisLoadInfo
<1>17. Table(Parse_ReqCamResState)
  <2>1. Row(Strs(<<"muId">>) \o Group(Strs(<<"resId">>)), {"muId"}
            \cup {"group"}, "param", S(1) \o A)
    BY GroupRow, StrsOne, Joined
  <2> QED
    BY <2>1, RowIsTable DEF Parse_ReqCamResState
<1>18. Table(Parse_GetUserCurState)
  <2>1. Row(Strs(<<"muId", "curUserId">>), {"muId", "curUserId"}, "param", S(2))
    BY StrsTwo
  <2> QED
    BY <2>1, RowIsTable DEF Parse_GetUserCurState
<1>19. Table(Parse_SetUserCamManage)
  <2>1. Row(Strs(<<"cuId", "cuLevel">>) \o Nums(<<"action">>) \o Span, {"cuId", "cuLevel"}
            \cup {"action"} \cup {"startTime", "endTime"}, "param", S(2) \o N(1) \o S(2))
    BY GroupRow, ListRow, NumsOne, Runs, StrsOne, StrsTwo, Joined
  <2>2. Row(Strs(<<"cuId", "cuLevel">>) \o Nums(<<"action">>) \o Span
            \o Strs(<<"schduleCreatTime">>) \o Group(Strs(<<"camId">>))
            \o << List("whiteUser", Strs(<<"id">>)) >>, {"cuId", "cuLevel"}
            \cup {"action"} \cup {"startTime", "endTime"} \cup {"schduleCreatTime"}
            \cup {"group"} \cup {"whiteUser"}, "param", S(2) \o N(1) \o S(2) \o S(1) \o A \o A)
    BY <2>1, GroupRow, ListRow, NumsOne, Runs, StrsOne, StrsTwo, Joined
  <2> QED
    BY <2>2, RowIsTable DEF Parse_SetUserCamManage
<1>20. Table(Parse_AlarmResSubscribe)
  <2>1. Row(Strs(<<"muId", "muName">>) \o Nums(<<"action">>)
            \o Group(Strs(<<"id", "type">>)), {"muId", "muName"} \cup {"action"}
            \cup {"group"}, "param", S(2) \o N(1) \o A)
    BY GroupRow, NumsOne, StrsTwo, Joined
  <2> QED
    BY <2>1, RowIsTable DEF Parse_AlarmResSubscribe
<1>21. Table(Parse_ReportAlarmInfo)
  <2>1. Row(Strs(<<"muId", "muName">>)
            \o Group(Strs(<<"id", "type", "startTime", "endTime">>)), {"muId", "muName"}
            \cup {"group"}, "param", S(2) \o A)
    BY GroupRow, StrsFour, StrsTwo, Joined
  <2> QED
    BY <2>1, RowIsTable DEF Parse_ReportAlarmInfo
<1>22. Table(Parse_ControlPTZ)
  <2>1. Row(Request(Strs(<<"cmd", "param">>))
            \o Nums(<<"speed">>), ({"resId", "userId", "userLevel"} \cup {"cmd", "param"})
            \cup {"speed"}, "param", (S(3) \o S(2)) \o N(1))
    BY NumsOne, StrsThree, StrsTwo, Joined DEF Request
  <2> QED
    BY <2>1, RowIsTable DEF Parse_ControlPTZ
<1>23. Table(Parse_ResTransOrder)
  <2>1. Row(Strs(<<"muId", "totalPacketNum", "curPacketNum">>)
            \o << Struct("resources", Resource) >>, {"muId", "totalPacketNum",
            "curPacketNum"} \cup {"resources"}, "param", S(3) \o <<"struct">>)
    BY NamedRows, StrsThree, StructRow, Joined
  <2> QED
    BY <2>1, RowIsTable DEF Parse_ResTransOrder
<1>24. Table(Parse_ResChangeOrder)
  <2>1. Row(Strs(<<"muId", "cmd">>)
            \o << Struct("resources", Resource) >>, {"muId", "cmd"}
            \cup {"resources"}, "param", S(2) \o <<"struct">>)
    BY NamedRows, StrsTwo, StructRow, Joined
  <2> QED
    BY <2>1, RowIsTable DEF Parse_ResChangeOrder
<1> QED
  BY <1>1, <1>2, <1>3, <1>4, <1>5, <1>6, <1>7, <1>8, <1>9, <1>10, <1>11, <1>12, <1>13, <1>14,
     <1>15, <1>16, <1>17, <1>18, <1>19, <1>20, <1>21, <1>22, <1>23, <1>24


\* What the handlers answer.
LEMMA AnswerTables ==
  /\ Table(Answer_CuRegister.shapes)
  /\ Table(Answer_CuKeepAlive.shapes)
  /\ Table(Answer_GetDepResList.shapes)
  /\ Table(Answer_GetVideoResList.shapes)
  /\ Table(Answer_GetAlarmResList.shapes)
  /\ Table(Answer_QueryAlarmInfo.shapes)
  /\ Table(Answer_AlarmHisQuery.shapes)
  /\ Table(Answer_PTZCtrl.shapes)
  /\ Table(Answer_PlayQuery.shapes)
  /\ Table(Answer_PlayOpen.shapes)
  /\ Table(Answer_PlayStart.shapes)
  /\ Table(Answer_HisPlayOpen.shapes)
  /\ Table(Answer_HisPlayStart.shapes)
  /\ Table(Answer_HisLoadOpen.shapes)
  /\ Table(Answer_HisLoadStart.shapes)
  /\ Table(Answer_PlayClose.shapes)
  /\ Table(Answer_PlayCtrl.shapes)
  /\ Table(Answer_ReportAlarmRes_A.shapes)
  /\ Table(Answer_ReportAlarmRes_B.shapes)
  /\ Table(Answer_ReportCamResState_B.shapes)
  /\ Table(Answer_QueryAlarmRes_B.shapes)
<1>1. Table(Answer_CuRegister.shapes)
  <2>1. Row(Strs(<<"cuId">>) \o Nums(<<"keepAlivePeriod">>)
            \o Strs(<<"currentTime">>), {"cuId"} \cup {"keepAlivePeriod"}
            \cup {"currentTime"}, "param", S(1) \o N(1) \o S(1))
    BY NumsOne, StrsOne, Joined
  <2> QED
    BY <2>1, RowIsTable DEF Answer_CuRegister, Answer
<1>2. Table(Answer_CuKeepAlive.shapes)
  <2>1. Row(Strs(<<"keepAlivePeriod">>), {"keepAlivePeriod"}, "param", S(1))
    BY StrsOne
  <2> QED
    BY <2>1, RowIsTable DEF Answer_CuKeepAlive, Answer
<1>3. Table(Answer_GetDepResList.shapes)
  <2>1. Row(Packets \o Group(Strs(<<"id", "name", "parentId">>)), {"totalPkt", "pktNum"}
            \cup {"group"}, "param", N(2) \o A)
    BY GroupRow, Runs, StrsThree, Joined
  <2> QED
    BY <2>1, RowIsTable DEF Answer_GetDepResList, Answer
<1>4. Table(Answer_GetVideoResList.shapes)
  <2>1. Row(Packets \o Group(Strs(<<"id", "name", "depId", "pos", "target", "remark">>)),
            {"totalPkt", "pktNum"} \cup {"group"}, "param", N(2) \o A)
    BY GroupRow, Runs, StrsSix, Joined
  <2> QED
    BY <2>1, RowIsTable DEF Answer_GetVideoResList, Answer
<1>5. Table(Answer_GetAlarmResList.shapes)
  <2>1. Row(Packets \o Group(Strs(<<"id", "name", "description">>)), {"totalPkt",
            "pktNum"} \cup {"group"}, "param", N(2) \o A)
    BY GroupRow, Runs, StrsThree, Joined
  <2> QED
    BY <2>1, RowIsTable DEF Answer_GetAlarmResList, Answer
<1>6. Table(Answer_QueryAlarmInfo.shapes)
  <2>1. Row(Group(Strs(<<"id", "type", "startTime", "endTime", "description">>)), {"group"},
            "param", A)
    BY GroupRow, StrsFive
  <2> QED
    BY <2>1, RowIsTable DEF Answer_QueryAlarmInfo, Answer
<1>7. Table(Answer_AlarmHisQuery.shapes)
  <2>1. Row(Totals \o Group(Strs(<<"alarmId", "type", "description", "alarmStartTime",
            "alarmEndTime", "resId", "startTime", "endTime", "size">>)), {"totalNumber",
            "currentNumber"} \cup {"group"}, "param", N(2) \o A)
    BY GroupRow, Runs, StrsNine, Joined
  <2> QED
    BY <2>1, RowIsTable DEF Answer_AlarmHisQuery, Answer
<1>8. Table(Answer_PTZCtrl.shapes)
  <2>1. Row(Strs(<<"resId">>), {"resId"}, "param", S(1))
    BY StrsOne
  <2> QED
    BY <2>1, RowIsTable DEF Answer_PTZCtrl, Answer
<1>9. Table(Answer_PlayQuery.shapes)
  <2>1. Row(Strs(<<"resId">>) \o Totals
            \o << Struct("recoderURL", Strs(<<"startTime", "endTime", "size">>)) >>,
            {"resId"} \cup {"totalNumber", "currentNumber"}
            \cup {"recoderURL"}, "param", S(1) \o N(2) \o <<"struct">>)
    BY Runs, StrsOne, StrsThree, StructRow, Joined
  <2> QED
    BY <2>1, RowIsTable DEF Answer_PlayQuery, Answer
<1>10. Table(Answer_PlayOpen.shapes)
  <2>1. Row(Opened, {"cuId", "resId", "sessionId", "tcpIp", "tcpPort"}, "param", S(5))
    BY Runs
  <2> QED
    BY <2>1, RowIsTable DEF Answer_PlayOpen, Answer
<1>11. Table(Answer_PlayStart.shapes)
  <2>1. Row(Session, {"sessionId"}, "param", S(1))
    BY Runs
  <2> QED
    BY <2>1, RowIsTable DEF Answer_PlayStart, Answer
<1>12. Table(Answer_HisPlayOpen.shapes)
  <2>1. Row(Opened, {"cuId", "resId", "sessionId", "tcpIp", "tcpPort"}, "param", S(5))
    BY Runs
  <2> QED
    BY <2>1, RowIsTable DEF Answer_HisPlayOpen, Answer
<1>13. Table(Answer_HisPlayStart.shapes)
  <2>1. Row(Session, {"sessionId"}, "param", S(1))
    BY Runs
  <2> QED
    BY <2>1, RowIsTable DEF Answer_HisPlayStart, Answer
<1>14. Table(Answer_HisLoadOpen.shapes)
  <2>1. Row(Opened, {"cuId", "resId", "sessionId", "tcpIp", "tcpPort"}, "param", S(5))
    BY Runs
  <2> QED
    BY <2>1, RowIsTable DEF Answer_HisLoadOpen, Answer
<1>15. Table(Answer_HisLoadStart.shapes)
  <2>1. Row(Session, {"sessionId"}, "param", S(1))
    BY Runs
  <2> QED
    BY <2>1, RowIsTable DEF Answer_HisLoadStart, Answer
<1>16. Table(Answer_PlayClose.shapes)
  <2>1. Row(Session, {"sessionId"}, "param", S(1))
    BY Runs
  <2> QED
    BY <2>1, RowIsTable DEF Answer_PlayClose, Answer
<1>17. Table(Answer_PlayCtrl.shapes)
  <2>1. Row(Session, {"sessionId"}, "param", S(1))
    BY Runs
  <2> QED
    BY <2>1, RowIsTable DEF Answer_PlayCtrl, Answer
<1>18. Table(Answer_ReportAlarmRes_A.shapes)
  <2>1. Row(<< >>, {}, "param", << >>)
    BY EmptyRow
  <2> QED
    BY <2>1, RowIsTable DEF Answer_ReportAlarmRes_A, Answer
<1>19. Table(Answer_ReportAlarmRes_B.shapes)
  <2>1. Row(Strs(<<"muId">>), {"muId"}, "param", S(1))
    BY StrsOne
  <2> QED
    BY <2>1, RowIsTable DEF Answer_ReportAlarmRes_B, Answer
<1>20. Table(Answer_ReportCamResState_B.shapes)
  <2>1. Row(Group(Strs(<<"resId">>)), {"group"}, "param", A)
    BY GroupRow, StrsOne
  <2> QED
    BY <2>1, RowIsTable DEF Answer_ReportCamResState_B, Answer
<1>21. Table(Answer_QueryAlarmRes_B.shapes)
  <2>1. Row(Strs(<<"id", "type", "time">>) \o Nums(<<"state", "alarmHisRecord">>)
            \o Url, {"id", "type", "time"} \cup {"state", "alarmHisRecord"}
            \cup {"url"}, "member", S(3) \o N(2) \o <<"struct">>)
    BY Joined, NumsTwo, StrsThree, UrlRow
  <2>2. MemberRow(Strs(<<"id", "type", "time">>) \o Nums(<<"state", "alarmHisRecord">>) \o Url)
    BY <2>1, RowIsTable
  <2>3. Row(Group(Strs(<<"id", "type", "time">>) \o Nums(<<"state", "alarmHisRecord">>)
            \o Url), {"group"}, "param", A)
    BY <2>2, GroupRow
  <2> QED
    BY <2>3, RowIsTable DEF Answer_QueryAlarmRes_B, Answer
<1> QED
  BY <1>1, <1>2, <1>3, <1>4, <1>5, <1>6, <1>7, <1>8, <1>9, <1>10, <1>11, <1>12, <1>13, <1>14,
     <1>15, <1>16, <1>17, <1>18, <1>19, <1>20, <1>21

-----------------------------------------------------------------------------
(* The commands of which the server's parser reads something else than the *)
(* caller wrote: it differs in the last parameter, or in those before it.  *)

\* The last of a sequence, and those before it.
LEMMA LastOne ==
  ASSUME NEW B, IsSeq(B), NEW y
  PROVE  /\ Len(B) \in Nat /\ DOMAIN B = 1..Len(B) /\ DOMAIN (B \o <<y>>) = 1..(Len(B) + 1)
         /\ \A i \in DOMAIN B : (B \o <<y>>)[i] = B[i]
         /\ (B \o <<y>>)[Len(B) + 1] = y
<1>1. IsSeq(<<y>>) /\ Len(<<y>>) = 1 /\ <<y>>[1] = y
  <2>1. <<y>> \in Seq({y})
    OBVIOUS
  <2> QED
    BY <2>1 DEF IsSeq
<1>2. /\ Len(B) \in Nat /\ DOMAIN B = 1..Len(B)
      /\ DOMAIN (B \o <<y>>) = 1..(Len(B) + 1)
      /\ \A i \in 1..(Len(B) + 1) : (B \o <<y>>)[i] = IF i <= Len(B) THEN B[i] ELSE <<y>>[i - Len(B)]
  BY <1>1, Chained
<1>3. (B \o <<y>>)[Len(B) + 1] = y
  <2>1. Len(B) + 1 \in 1..(Len(B) + 1) /\ ~(Len(B) + 1 <= Len(B)) /\ (Len(B) + 1) - Len(B) = 1
    BY <1>2
  <2> QED
    BY <1>1, <1>2, <2>1
<1> QED
  BY <1>2, <1>3

\* Only the last parameter is read otherwise than it is written, and of those
\* before it some are not looked for.
LEMMA LastReadable ==
  ASSUME NEW D, IsSeq(D), NEW B, IsSeq(B), NEW x, NEW y, Table(B \o <<y>>), ParamShape(x),
         x.name = y.name, Fits(x, y),
         \A j \in DOMAIN D :
            /\ ParamShape(D[j]) /\ D[j].name # y.name
            /\ \A i \in DOMAIN B : D[j].name = B[i].name => D[j] = B[i]
  PROVE  Readable(D \o <<x>>, B \o <<y>>)
<1> DEFINE P == D \o <<x>>
           C == B \o <<y>>
           m == Len(D)
           n == Len(B)
<1>1. /\ m \in Nat /\ DOMAIN D = 1..m /\ DOMAIN P = 1..(m + 1)
      /\ \A j \in 1..m : P[j] = D[j]
      /\ P[m + 1] = x
  BY LastOne
<1>2. /\ n \in Nat /\ DOMAIN B = 1..n /\ DOMAIN C = 1..(n + 1)
      /\ \A i \in 1..n : C[i] = B[i]
      /\ C[n + 1] = y
  BY LastOne
<1>3. Table(C)
  OBVIOUS
<1> HIDE DEF P, C, m, n
<1>4. \A j \in 1..(m + 1) : j \in 1..m \/ j = m + 1
  BY <1>1
<1>5. \A i \in 1..(n + 1) : i \in 1..n \/ i = n + 1
  BY <1>2
<1>6. \A j \in DOMAIN P : ParamShape(P[j])
  BY <1>1, <1>4
<1>7. ASSUME NEW j \in DOMAIN P, NEW i \in DOMAIN C, P[j].name = C[i].name PROVE Fits(P[j], C[i])
  <2>1. CASE j \in 1..m /\ i \in 1..n
    <3>1. P[j] = C[i] /\ ParamShape(P[j])
      BY <1>1, <1>2, <1>6, <1>7, <2>1
    <3> QED
      BY <3>1, FitsItself
  <2>2. CASE j \in 1..m /\ i = n + 1
    BY <1>1, <1>2, <1>7, <2>2
  <2>3. CASE j = m + 1 /\ i \in 1..n
    <3>1. C[i].name = C[n + 1].name
      BY <1>1, <1>2, <1>7, <2>3
    <3>2. i = n + 1
      <4>1. n + 1 \in DOMAIN C
        BY <1>2
      <4> QED
        BY <1>3, <3>1, <4>1 DEF Table, Distinct
    <3> QED
      BY <1>2, <2>3, <3>2
  <2>4. CASE j = m + 1 /\ i = n + 1
    BY <1>1, <1>2, <2>4
  <2> QED
    BY <1>1, <1>2, <1>4, <1>5, <2>1, <2>2, <2>3, <2>4
<1> QED
  BY <1>6, <1>7 DEF Readable, P, C

\* Then what is lost is lost of the last one, when those not looked for are not
\* there.
LEMMA LastCovers ==
  ASSUME NEW D, IsSeq(D), NEW B, IsSeq(B), NEW x, NEW y, Table(B \o <<y>>),
         x.name = y.name, NEW G, Covers(x, y, G), NEW g,
         \A i \in DOMAIN B : i \in Given(B \o <<y>>, g) => \E j \in DOMAIN D : D[j] = B[i]
  PROVE  TableCovers(D \o <<x>>, B \o <<y>>, g, G)
<1> DEFINE P == D \o <<x>>
           C == B \o <<y>>
           m == Len(D)
           n == Len(B)
<1>1. /\ m \in Nat /\ DOMAIN D = 1..m /\ DOMAIN P = 1..(m + 1)
      /\ \A j \in 1..m : P[j] = D[j]
      /\ P[m + 1] = x
  BY LastOne
<1>2. /\ n \in Nat /\ DOMAIN B = 1..n /\ DOMAIN C = 1..(n + 1)
      /\ \A i \in 1..n : C[i] = B[i]
      /\ C[n + 1] = y
  BY LastOne
<1>3. Table(C)
  OBVIOUS
<1>4. \A i \in 1..n : i \in Given(C, g) => \E j \in 1..m : D[j] = B[i]
  BY <1>1, <1>2
<1> HIDE DEF P, C, m, n
<1>5. ASSUME NEW i \in Given(C, g)
      PROVE  \E j \in DOMAIN P : P[j].name = C[i].name /\ Covers(P[j], C[i], G)
  <2>0. i \in DOMAIN C
    BY DEF Given
  <2>1. CASE i \in 1..n
    <3>1. PICK j \in 1..m : D[j] = B[i]
      BY <1>4, <2>1
    <3>2. j \in DOMAIN P /\ P[j] = C[i]
      BY <1>1, <1>2, <2>1, <3>1
    <3>3. ParamShape(C[i])
      BY <1>3, <2>0 DEF Table
    <3>4. Covers(C[i], C[i], G)
      BY <3>3, FitsItself
    <3> QED
      BY <3>2, <3>4
  <2>2. CASE i = n + 1
    <3>1. m + 1 \in DOMAIN P
      BY <1>1
    <3> QED
      BY <1>1, <1>2, <2>2, <3>1
  <2> QED
    BY <1>2, <2>0, <2>1, <2>2
<1> QED
  BY <1>5 DEF TableCovers, P, C

\* The last parameter is read otherwise, and the others as they are written.
LEMMA SameButLast ==
  ASSUME NEW B, IsSeq(B), NEW x, NEW y, Table(B \o <<y>>), ParamShape(x),
         x.name = y.name, Fits(x, y), NEW G, Covers(x, y, G)
  PROVE  LET P == B \o <<x>>
             C == B \o <<y>>
         IN /\ Readable(P, C) /\ \A g : TableCovers(P, C, g, G)
            /\ Names(P) = Names(C)
<1> DEFINE P == B \o <<x>>
           C == B \o <<y>>
           n == Len(B)
<1>1. /\ n \in Nat /\ DOMAIN B = 1..n /\ DOMAIN P = 1..(n + 1)
      /\ \A j \in 1..n : P[j] = B[j]
      /\ P[n + 1] = x
  BY LastOne
<1>2. /\ DOMAIN C = 1..(n + 1)
      /\ \A i \in 1..n : C[i] = B[i]
      /\ C[n + 1] = y
  BY LastOne
<1>3. Table(C)
  OBVIOUS
<1>4. \A j \in 1..n : j \in DOMAIN C /\ n + 1 \in DOMAIN C /\ j # n + 1
  BY <1>1, <1>2
<1>5. \A j \in DOMAIN B :
         /\ ParamShape(B[j]) /\ B[j].name # y.name
         /\ \A i \in DOMAIN B : B[j].name = B[i].name => B[j] = B[i]
  <2> HIDE DEF C, n
  <2> QED
    BY <1>1, <1>2, <1>3, <1>4 DEF Table, Distinct
<1>6. Readable(P, C)
  BY <1>5, LastReadable
<1>7. \A g : TableCovers(P, C, g, G)
  BY LastCovers
<1>8. Names(P) = Names(C)
  <2> HIDE DEF P, C, n
  <2>1. \A j \in 1..(n + 1) : j \in 1..n \/ j = n + 1
    BY <1>1
  <2>2. \A j \in 1..(n + 1) : P[j].name = C[j].name
    BY <1>1, <1>2, <2>1
  <2> QED
    BY <1>1, <1>2, <2>2 DEF Names
<1> QED
  BY <1>6, <1>7, <1>8

\* All the names looked for are written: nothing is missed in a whole call.
LEMMA AllThere ==
  ASSUME NEW P, NEW C, Table(C), Names(P) = Names(C)
  PROVE  \A j \in DOMAIN P : There(P, j, C, NoGaps)
<1>1. DOMAIN P = DOMAIN C /\ \A j \in DOMAIN P : P[j].name = C[j].name
  <2>1. DOMAIN Names(P) = DOMAIN P /\ DOMAIN Names(C) = DOMAIN C
    BY DEF Names
  <2>2. \A j \in DOMAIN P : Names(P)[j] = P[j].name
    BY DEF Names
  <2>3. \A j \in DOMAIN C : Names(C)[j] = C[j].name
    BY DEF Names
  <2> QED
    BY <2>1, <2>2, <2>3
<1>2. Given(C, NoGaps) = DOMAIN C
  BY WholeCall
<1> QED
  BY <1>1, <1>2 DEF There

-----------------------------------------------------------------------------
(* The forms, and what is written and read for each.                       *)

Served ==
  {"CuRegister", "CuKeepAlive", "GetDepResList", "GetVideoResList", "GetAlarmResList",
   "QueryAlarmInfo", "AlarmHisQuery", "PTZCtrl", "PlayQuery", "PlayOpen", "PlayStart",
   "HisPlayOpen", "HisPlayStart", "HisLoadOpen", "HisLoadStart", "PlayClose", "PlayCtrl",
   "MUKeepAlive"}

Orphans ==
  {"MURegister", "ResReport", "ResChange", "UserResReport", "UserResChange",
   "AlarmResListReport", "AlarmResListChange", "QueryHistoryFiles", "StartMediaReq", "INFO",
   "StopMediaReq", "StartPlayBack", "HisInfo", "ControlFileBack", "StartHisLoad",
   "HisLoadInfo", "ReqCamResState", "GetUserCurState", "SetUserCamManage", "AlarmResSubscribe",
   "ReportAlarmInfo", "ControlPTZ", "ResTransOrder", "ResChangeOrder"}

Twofold == {"ReportAlarmRes_A", "ReportCamResState_A", "QueryAlarmRes_A",
            "ReportAlarmRes_B", "ReportCamResState_B", "QueryAlarmRes_B"}

\* Every form is one of those of a command with a handler of its own, with none,
\* or with two.
LEMMA Forms ==
  /\ DOMAIN Required = Served /\ DOMAIN Unserved = Orphans
  /\ DOMAIN Clients = Served \cup Twofold
  /\ DOMAIN Calls = Served \cup Orphans \cup Twofold \cup {"listMethods"}
<1>1. DOMAIN Required = Served
  BY DEF Required, Served
<1>2. DOMAIN Unserved = Orphans
  BY DEF Unserved, Orphans
<1>3. DOMAIN Clients = Served \cup Twofold
  BY DEF Clients, Served, Twofold
<1>4. DOMAIN Calls = DOMAIN Clients \cup DOMAIN Unserved \cup {"listMethods"}
  BY DEF Calls
<1> QED
  BY <1>1, <1>2, <1>3, <1>4

\* No form has two tables.
LEMMA FormsApart ==
  /\ \A f \in Served \cup Orphans : f \notin Twofold
  /\ \A f \in Orphans : f \notin Served
  /\ \A f \in Served \cup Orphans \cup Twofold : f # "listMethods"
  /\ \A f \in Served \cup Orphans \cup {"listMethods"} :
       f \notin {"ReportAlarmRes", "QueryAlarmRes", "ReportCamResState", "GetCamResState"}
<1>1. \A f \in Served \cup Orphans : f \notin Twofold
  BY DEF Served, Orphans, Twofold
<1>2. \A f \in Orphans : f \notin Served
  BY DEF Served, Orphans
<1>3. \A f \in Served \cup Orphans \cup Twofold : f # "listMethods"
  BY DEF Served, Orphans, Twofold
<1>4. \A f \in Served \cup Orphans \cup {"listMethods"} :
        f \notin {"ReportAlarmRes", "QueryAlarmRes", "ReportCamResState", "GetCamResState"}
  BY DEF Served, Orphans
<1> QED
  BY <1>1, <1>2, <1>3, <1>4

\* Their names are those of their commands.
LEMMA NamedOnce == \A f \in Served \cup Orphans \cup {"listMethods"} : NameOf(f) = f
BY FormsApart DEF NameOf, Twofold

\* Every table is one.
LEMMA ClientTables == \A f \in DOMAIN Clients : Table(Clients[f])
<1>1. \A f \in Served \cup Twofold : Table(Clients[f])
  BY CallTables DEF Clients, Served, Twofold
<1> QED
  BY <1>1, Forms

\* And so is that of every parser without a handler.
LEMMA OrphanTables == \A f \in Orphans : Table(Unserved[f])
BY UnservedTables DEF Unserved, Orphans

\* What the server's parser reads of the served commands but one is what the
\* callers write.
LEMMA SameTables == \A f \in Served \ {"AlarmHisQuery"} : Required[f] = Clients[f]
<1>1. /\ Parse_CuRegister = Call_CuRegister /\ Parse_CuKeepAlive = Call_CuKeepAlive
      /\ Parse_GetDepResList = Call_GetDepResList /\ Parse_GetVideoResList = Call_GetVideoResList
      /\ Parse_GetAlarmResList = Call_GetAlarmResList /\ Parse_QueryAlarmInfo = Call_QueryAlarmInfo
  BY DEF Parse_CuRegister, Call_CuRegister, Parse_CuKeepAlive, Call_CuKeepAlive,
         Parse_GetDepResList, Call_GetDepResList, Parse_GetVideoResList, Call_GetVideoResList,
         Parse_GetAlarmResList, Call_GetAlarmResList, Parse_QueryAlarmInfo, Call_QueryAlarmInfo
<1>2. /\ Parse_PTZCtrl = Call_PTZCtrl /\ Parse_PlayQuery = Call_PlayQuery
      /\ Parse_PlayOpen = Call_PlayOpen /\ Parse_PlayStart = Call_PlayStart
      /\ Parse_HisPlayOpen = Call_HisPlayOpen /\ Parse_HisPlayStart = Call_HisPlayStart
  BY DEF Parse_PTZCtrl, Call_PTZCtrl, Parse_PlayQuery, Call_PlayQuery, Parse_PlayOpen,
         Call_PlayOpen, Parse_PlayStart, Call_PlayStart, Parse_HisPlayOpen, Call_HisPlayOpen,
         Parse_HisPlayStart, Call_HisPlayStart
<1>3. /\ Parse_HisLoadOpen = Call_HisLoadOpen /\ Parse_HisLoadStart = Call_HisLoadStart
      /\ Parse_PlayClose = Call_PlayClose /\ Parse_PlayCtrl = Call_PlayCtrl
      /\ Parse_MUKeepAlive = Call_MUKeepAlive
  BY DEF Parse_HisLoadOpen, Call_HisLoadOpen, Parse_HisLoadStart, Call_HisLoadStart,
         Parse_PlayClose, Call_PlayClose, Parse_PlayCtrl, Call_PlayCtrl, Parse_MUKeepAlive,
         Call_MUKeepAlive
<1> QED
  BY <1>1, <1>2, <1>3 DEF Served, Required, Clients

\* The only method of a name and a signature is found.
LEMMA MethodFound ==
  ASSUME NEW nm, NEW u, NEW h, Method(nm, u, h) \in Methods,
         \A x \in Methods : x.name = nm /\ x.signature = u => x.handler = h
  PROVE  dispatchCallLoc(nm, u) = h
<1> DEFINE m == Method(nm, u, h)
           found == {x \in Methods : x.name = nm /\ x.signature = u}
<1>1. m.name = nm /\ m.signature = u
  BY DEF Method
<1>2. m \in found
  BY <1>1
<1>3. \A x \in found : x.handler = h
  OBVIOUS
<1>4. dispatchCallLoc(nm, u) = IF found = {} THEN "none" ELSE (CHOOSE x \in found : TRUE).handler
  BY DEF dispatchCallLoc
<1> HIDE DEF found, m
<1>5. found # {} /\ (CHOOSE x \in found : TRUE) \in found
  BY <1>2
<1> QED
  BY <1>3, <1>4, <1>5

\* No method of a name.
LEMMA NoMethod ==
  ASSUME NEW nm, \A x \in Methods : x.name # nm, NEW u
  PROVE  dispatchCallLoc(nm, u) = "none"
<1>1. {x \in Methods : x.name = nm /\ x.signature = u} = {}
  OBVIOUS
<1> QED
  BY <1>1 DEF dispatchCallLoc

\* The commands of the methods, and the methods of a command.
LEMMA MethodNames ==
  /\ \A x \in Methods : x.name = x.handler \/ x.handler \in Twofold
  /\ \A x \in Methods : x.name \in Served \cup {"ReportAlarmRes", "ReportCamResState", "QueryAlarmRes"}
<1>1. \A x \in Methods : x.name = x.handler \/ x.handler \in Twofold
  BY DEF Methods, Method, Twofold
<1>2. \A x \in Methods : x.name \in Served \cup {"ReportAlarmRes", "ReportCamResState", "QueryAlarmRes"}
  BY DEF Methods, Method, Served
<1> QED
  BY <1>1, <1>2

\* The methods of the commands of two forms.
LEMMA TwofoldMethods ==
  \A x \in Methods : x.handler \in Twofold =>
     x.name \in {"ReportAlarmRes", "ReportCamResState", "QueryAlarmRes"}
BY DEF Methods, Method, Twofold

\* What is read of an alarm of interface A, and of an alarm that is asked for by it.
AlarmsRead ==
  Group(Strs(<<"id", "type", "startTime", "targetInfo">>)
        \o Nums(<<"level", "state">>) \o Strs(<<"description">>))
AlarmRead == User \o Group(Strs(<<"id", "type">>))

\* They are tables, too.
LEMMA OtherTables ==
  /\ Table(Parse_AlarmHisQuery) /\ Types(Parse_AlarmHisQuery) = S(4) \o N(1) \o <<"struct">>
  /\ Table(AlarmsRead) /\ Types(AlarmsRead) = A
  /\ Table(AlarmRead) /\ Types(AlarmRead) = S(2) \o A
<1>1. Table(Parse_AlarmHisQuery) /\ Types(Parse_AlarmHisQuery) = S(4) \o N(1) \o <<"struct">>
  <2>1. Row(User \o Strs(<<"alarmId", "type">>) \o Nums(<<"queryLocation">>)
            \o << Struct("queryURL", Strs(<<"starTime", "endTime">>)) >>, {"cuId",
            "cuUserId"} \cup {"alarmId", "type"} \cup {"queryLocation"}
            \cup {"queryURL"}, "param", S(2) \o S(2) \o N(1) \o <<"struct">>)
    BY NumsOne, Runs, StrsTwo, StructRow, Joined
  <2> QED
    BY <2>1, RowIsTable, StringSums DEF Parse_AlarmHisQuery
<1>2. Table(AlarmsRead) /\ Types(AlarmsRead) = A
  <2>1. Row(Strs(<<"id", "type", "startTime", "targetInfo">>) \o Nums(<<"level", "state">>)
            \o Strs(<<"description">>), {"id", "type", "startTime", "targetInfo"}
            \cup {"level", "state"} \cup {"description"}, "member", S(4) \o N(2) \o S(1))
    BY Joined, NumsTwo, StrsFour, StrsOne
  <2>2. MemberRow(Strs(<<"id", "type", "startTime", "targetInfo">>)
          \o Nums(<<"level", "state">>) \o Strs(<<"description">>))
    BY <2>1, RowIsTable
  <2>3. Row(Group(Strs(<<"id", "type", "startTime", "targetInfo">>)
            \o Nums(<<"level", "state">>) \o Strs(<<"description">>)), {"group"}, "param", A)
    BY <2>2, GroupRow
  <2> QED
    BY <2>3, RowIsTable DEF AlarmsRead
<1>3. Table(AlarmRead) /\ Types(AlarmRead) = S(2) \o A
  <2>1. Row(User \o Group(Strs(<<"id", "type">>)), {"cuId", "cuUserId"}
            \cup {"group"}, "param", S(2) \o A)
    BY GroupRow, Runs, StrsTwo, Joined
  <2> QED
    BY <2>1, RowIsTable DEF AlarmRead
<1> QED
  BY <1>1, <1>2, <1>3


\* The signature of what is read for a command with one handler is its method's.
LEMMA Registered == \A f \in Served : Method(f, Types(Required[f]), f) \in Methods
<1>1. ASSUME NEW f \in Served \ {"AlarmHisQuery"}
      PROVE  Method(f, Types(Clients[f]), f) \in Methods
  <2>1. /\ Method("CuRegister", S(5), "CuRegister") \in Methods
        /\ Method("CuKeepAlive", S(1), "CuKeepAlive") \in Methods
        /\ Method("GetDepResList", S(2), "GetDepResList") \in Methods
        /\ Method("GetVideoResList", S(3), "GetVideoResList") \in Methods
        /\ Method("GetAlarmResList", S(2), "GetAlarmResList") \in Methods
        /\ Method("QueryAlarmInfo", S(2) \o N(1) \o A, "QueryAlarmInfo") \in Methods
    BY DEF Methods
  <2>2. /\ Types(Clients["CuRegister"]) = S(5)
        /\ Types(Clients["CuKeepAlive"]) = S(1)
        /\ Types(Clients["GetDepResList"]) = S(2)
        /\ Types(Clients["GetVideoResList"]) = S(3)
        /\ Types(Clients["GetAlarmResList"]) = S(2)
        /\ Types(Clients["QueryAlarmInfo"]) = S(2) \o N(1) \o A
    BY CallTables DEF Clients
  <2>3. CASE f \in {"CuRegister", "CuKeepAlive", "GetDepResList", "GetVideoResList",
                "GetAlarmResList", "QueryAlarmInfo"}
    BY <2>1, <2>2, <2>3
  <2>4. /\ Method("PTZCtrl", S(5) \o N(1), "PTZCtrl") \in Methods
        /\ Method("PlayQuery", S(3) \o N(1) \o << "struct" >>, "PlayQuery") \in Methods
        /\ Method("PlayOpen", S(3) \o N(2) \o S(2), "PlayOpen") \in Methods
        /\ Method("PlayStart", S(4), "PlayStart") \in Methods
        /\ Method("HisPlayOpen", S(5) \o N(1) \o S(2) \o N(1), "HisPlayOpen") \in Methods
        /\ Method("HisPlayStart", S(4), "HisPlayStart") \in Methods
    BY DEF Methods
  <2>5. /\ Types(Clients["PTZCtrl"]) = S(5) \o N(1)
        /\ Types(Clients["PlayQuery"]) = S(3) \o N(1) \o << "struct" >>
        /\ Types(Clients["PlayOpen"]) = S(3) \o N(2) \o S(2)
        /\ Types(Clients["PlayStart"]) = S(4)
        /\ Types(Clients["HisPlayOpen"]) = S(5) \o N(1) \o S(2) \o N(1)
        /\ Types(Clients["HisPlayStart"]) = S(4)
    BY CallTables DEF Clients
  <2>6. CASE f \in {"PTZCtrl", "PlayQuery", "PlayOpen", "PlayStart", "HisPlayOpen", "HisPlayStart"}
    BY <2>4, <2>5, <2>6
  <2>7. /\ Method("HisLoadOpen", S(5) \o N(1) \o S(2) \o N(1), "HisLoadOpen") \in Methods
        /\ Method("HisLoadStart", S(4), "HisLoadStart") \in Methods
        /\ Method("PlayClose", S(3) \o N(1) \o S(1), "PlayClose") \in Methods
        /\ Method("PlayCtrl", S(5) \o N(1), "PlayCtrl") \in Methods
        /\ Method("MUKeepAlive", S(1), "MUKeepAlive") \in Methods
    BY DEF Methods
  <2>8. /\ Types(Clients["HisLoadOpen"]) = S(5) \o N(1) \o S(2) \o N(1)
        /\ Types(Clients["HisLoadStart"]) = S(4)
        /\ Types(Clients["PlayClose"]) = S(3) \o N(1) \o S(1)
        /\ Types(Clients["PlayCtrl"]) = S(5) \o N(1)
        /\ Types(Clients["MUKeepAlive"]) = S(1)
    BY CallTables DEF Clients
  <2>9. CASE f \in {"HisLoadOpen", "HisLoadStart", "PlayClose", "PlayCtrl", "MUKeepAlive"}
    BY <2>7, <2>8, <2>9
  <2> QED
    BY <2>3, <2>6, <2>9 DEF Served
<1>2. Method("AlarmHisQuery", Types(Required["AlarmHisQuery"]), "AlarmHisQuery") \in Methods
  BY OtherTables DEF Required, Methods
<1> QED
  BY <1>1, <1>2, SameTables

\* A command's name and what its parser reads find its own method.
LEMMA OwnMethod == \A f \in Served : dispatchCallLoc(f, Types(Required[f])) = f
<1> SUFFICES ASSUME NEW f \in Served PROVE dispatchCallLoc(f, Types(Required[f])) = f
  OBVIOUS
<1>1. Method(f, Types(Required[f]), f) \in Methods
  BY Registered
<1>2. \A x \in Methods : x.name = f => x.handler = f
  BY MethodNames, TwofoldMethods, FormsApart
<1> QED
  BY <1>1, <1>2, MethodFound

\* A command without a handler finds none.
LEMMA NoOwnMethod == \A f \in Orphans : \A u : dispatchCallLoc(f, u) = "none"
BY MethodNames, FormsApart, NoMethod

\* A list alone, or after strings.
LEMMA ListSignatures ==
  /\ IsSeq(A) /\ Len(A) = 1
  /\ \A n \in Nat : IsSeq(S(n)) /\ Len(S(n)) = n /\ Len(S(n) \o A) = n + 1
<1>1. A \in Seq({"array"}) /\ Len(A) = 1
  BY DEF A
<1>2. ASSUME NEW n \in Nat PROVE S(n) \in Seq({"string"}) /\ Len(S(n)) = n
  BY DEF S
<1>3. IsSeq(A) /\ \A n \in Nat : IsSeq(S(n))
  BY <1>1, <1>2 DEF IsSeq
<1>4. ASSUME NEW n \in Nat PROVE Len(S(n) \o A) = n + 1
  <2>1. DOMAIN (S(n) \o A) = 1..(n + 1) /\ IsSeq(S(n) \o A)
    BY <1>1, <1>2, <1>3, Chained
  <2> QED
    BY <2>1, Counting
<1> QED
  BY <1>1, <1>2, <1>3, <1>4

\* The method of each interface has a signature of its own.
LEMMA TwofoldMethod ==
  /\ dispatchCallLoc("ReportAlarmRes", A) = "ReportAlarmRes_A"
  /\ dispatchCallLoc("ReportAlarmRes", S(2) \o A) = "ReportAlarmRes_B"
  /\ dispatchCallLoc("ReportCamResState", A) = "ReportCamResState_A"
  /\ dispatchCallLoc("ReportCamResState", S(1) \o A) = "ReportCamResState_B"
  /\ dispatchCallLoc("QueryAlarmRes", S(2) \o A) = "QueryAlarmRes_B"
<1> DEFINE two == S(2) \o A
           one == S(1) \o A
<1> HIDE DEF two, one
<1>1. A # two /\ A # one
  <2>1. Len(A) = 1 /\ Len(two) = 2 + 1 /\ Len(one) = 1 + 1
    BY ListSignatures DEF two, one
  <2> QED
    BY <2>1
<1>2. /\ \A m \in Methods : m.name = "ReportAlarmRes" =>
           \/ m.signature = A /\ m.handler = "ReportAlarmRes_A"
           \/ m.signature = two /\ m.handler = "ReportAlarmRes_B"
      /\ \A m \in Methods : m.name = "ReportCamResState" =>
           \/ m.signature = A /\ m.handler = "ReportCamResState_A"
           \/ m.signature = one /\ m.handler = "ReportCamResState_B"
      /\ \A m \in Methods : m.name = "QueryAlarmRes" => m.handler = "QueryAlarmRes_B"
  BY DEF Methods, Method, two, one
<1>3. /\ Method("ReportAlarmRes", A, "ReportAlarmRes_A") \in Methods
      /\ Method("ReportAlarmRes", two, "ReportAlarmRes_B") \in Methods
      /\ Method("ReportCamResState", A, "ReportCamResState_A") \in Methods
      /\ Method("ReportCamResState", one, "ReportCamResState_B") \in Methods
      /\ Method("QueryAlarmRes", two, "QueryAlarmRes_B") \in Methods
  BY DEF Methods, two, one
<1>4. dispatchCallLoc("ReportAlarmRes", A) = "ReportAlarmRes_A"
  BY <1>1, <1>2, <1>3, MethodFound
<1>5. dispatchCallLoc("ReportAlarmRes", two) = "ReportAlarmRes_B"
  BY <1>1, <1>2, <1>3, MethodFound
<1>6. dispatchCallLoc("ReportCamResState", A) = "ReportCamResState_A"
  BY <1>1, <1>2, <1>3, MethodFound
<1>7. dispatchCallLoc("ReportCamResState", one) = "ReportCamResState_B"
  BY <1>1, <1>2, <1>3, MethodFound
<1>8. dispatchCallLoc("QueryAlarmRes", two) = "QueryAlarmRes_B"
  BY <1>1, <1>2, <1>3, MethodFound
<1> QED
  BY <1>4, <1>5, <1>6, <1>7, <1>8 DEF one, two

\* A list, or a struct, that is read as another one.
LEMMA SimpleRows ==
  ASSUME NEW ws, NEW fs, SimpleRow(ws), SimpleRow(fs), NEW G, NamesIn(fs) \ G \subseteq NamesIn(ws)
  PROVE  /\ RowFits(ws, fs) /\ RowCovers(ws, fs, G)
         /\ \A k \in DOMAIN fs : Reaches(ws, fs[k].name, G)
<1>1. RowFits(ws, fs)
  BY DEF RowFits, MemberFits, SimpleRow
<1>2. \A k \in DOMAIN fs :
        SimpleShape(fs[k]) /\ (fs[k].name \in G \/ \E j \in DOMAIN ws : ws[j].name = fs[k].name)
  BY DEF SimpleRow, NamesIn
<1>3. \A k \in DOMAIN fs : SimpleShape(fs[k]) => \A a : MemberCovers(a, fs[k], G)
  BY SimpleIsNone DEF MemberCovers
<1>4. RowCovers(ws, fs, G)
  BY <1>2, <1>3 DEF RowCovers, Spared
<1> QED
  BY <1>1, <1>2, <1>4 DEF Reaches

\* A list whose items are read by another row.
LEMMA ListCovers ==
  ASSUME NEW nm, NEW ws, NEW fs, MemberRow(ws), RowFits(ws, fs), NEW G, RowCovers(ws, fs, G)
  PROVE  LET a == List(nm, ws)
             b == List(nm, fs)
         IN  ParamShape(a) /\ a.name = b.name /\ b.name = nm /\ Fits(a, b) /\ Covers(a, b, G)
BY DEF List, Shape, ParamShape, Fits, Covers

\* A struct that is read by another row.
LEMMA StructCovers ==
  ASSUME NEW nm, NEW ws, NEW fs, SimpleRow(ws), SimpleRow(fs), NEW G,
         NamesIn(fs) \ G \subseteq NamesIn(ws)
  PROVE  LET a == Struct(nm, ws)
             b == Struct(nm, fs)
         IN  ParamShape(a) /\ a.name = b.name /\ b.name = nm /\ Fits(a, b) /\ Covers(a, b, G)
<1> DEFINE a == Struct(nm, ws)
           b == Struct(nm, fs)
<1>1. /\ a.type = "struct" /\ a.name = nm /\ a.fields = ws
      /\ b.type = "struct" /\ b.name = nm /\ b.fields = fs
  BY DEF Struct, Shape
<1>2. \A k \in DOMAIN fs : Reaches(ws, fs[k].name, G)
  BY SimpleRows
<1> HIDE DEF a, b
<1>3. ParamShape(a) /\ Fits(a, b) /\ MemberCovers(a, b, G)
  BY <1>1, <1>2 DEF ParamShape, MemberShape, Fits, MemberFits, MemberCovers
<1> QED
  BY <1>1, <1>3 DEF Covers, a, b

\* The struct of AlarmHisQuery, whose first field is misspelt.
LEMMA HisQueryRead ==
  /\ Readable(Parse_AlarmHisQuery, Call_AlarmHisQuery)
  /\ \A g : TableCovers(Parse_AlarmHisQuery, Call_AlarmHisQuery, g, {"startTime"})
  /\ Names(Parse_AlarmHisQuery) = Names(Call_AlarmHisQuery)
<1> DEFINE B == User \o Strs(<<"alarmId", "type">>) \o Nums(<<"queryLocation">>)
           ws == Strs(<<"starTime", "endTime">>)
           a == Struct("queryURL", ws)
           b == Struct("queryURL", Span)
<1>1. Row(B, {"cuId", "cuUserId"} \cup {"alarmId", "type"} \cup {"queryLocation"}, "param",
          S(2) \o S(2) \o N(1))
  BY Runs, StrsTwo, NumsOne, Joined
<1>2. IsSeq(B)
  BY <1>1 DEF Row
<1>3. Row(ws, {"starTime", "endTime"}, "simple", S(2)) /\ Row(Span, {"startTime", "endTime"}, "simple", S(2))
  BY StrsTwo, Runs
<1>4. SimpleRow(ws) /\ SimpleRow(Span) /\ NamesIn(Span) \ {"startTime"} \subseteq NamesIn(ws)
  BY <1>3, RowIsTable DEF Row
<1> HIDE DEF B, ws
<1>5. ParamShape(a) /\ a.name = b.name /\ Fits(a, b) /\ Covers(a, b, {"startTime"})
  BY <1>4, StructCovers
<1> HIDE DEF a, b
<1>6. Call_AlarmHisQuery = B \o <<b>> /\ Parse_AlarmHisQuery = B \o <<a>>
  BY DEF Call_AlarmHisQuery, Parse_AlarmHisQuery, a, b, B, ws
<1>7. Table(B \o <<b>>)
  BY <1>6, CallTables
<1> QED
  BY <1>2, <1>5, <1>6, <1>7, SameButLast

\* Nothing before a list.
LEMMA NothingBefore == ASSUME NEW a PROVE << >> \o << a >> = << a >> /\ IsSeq(<< >>) /\ DOMAIN << >> = {}
<1>1. << a >> \in Seq({a}) /\ << >> \in Seq({a})
  OBVIOUS
<1>2. << >> \o << a >> = << a >>
  BY <1>1, ConcatEmptySeq
<1> QED
  BY <1>1, <1>2 DEF IsSeq

\* An alarm's end, which is not looked for in interface A.
LEMMA AlarmsARead ==
  /\ Readable(AlarmsRead, Call_ReportAlarmRes_A)
  /\ \A g : TableCovers(AlarmsRead, Call_ReportAlarmRes_A, g, {"endTime"})
  /\ Names(AlarmsRead) = Names(Call_ReportAlarmRes_A)
<1> DEFINE ws == Strs(<<"id", "type", "startTime", "targetInfo">>)
                 \o Nums(<<"level", "state">>) \o Strs(<<"description">>)
           fs == Strs(<<"id", "type", "startTime", "endTime", "targetInfo">>)
                 \o Nums(<<"level", "state">>) \o Strs(<<"description">>)
           a == List("group", ws)
           b == List("group", fs)
<1>1. Row(ws, {"id", "type", "startTime", "targetInfo"} \cup {"level", "state"} \cup {"description"},
          "simple", S(4) \o N(2) \o S(1))
  BY StrsOne, StrsFour, NumsTwo, Joined
<1>2. Row(fs, {"id", "type", "startTime", "endTime", "targetInfo"} \cup {"level", "state"}
              \cup {"description"}, "simple", S(5) \o N(2) \o S(1))
  BY StrsOne, StrsFive, NumsTwo, Joined
<1> HIDE DEF ws, fs
<1>3. SimpleRow(ws) /\ SimpleRow(fs) /\ NamesIn(fs) \ {"endTime"} \subseteq NamesIn(ws)
  BY <1>1, <1>2, RowIsTable DEF Row
<1>4. MemberRow(ws) /\ RowFits(ws, fs) /\ RowCovers(ws, fs, {"endTime"})
  BY <1>3, SimpleRows DEF MemberRow, SimpleRow, MemberShape
<1>5. ParamShape(a) /\ a.name = b.name /\ Fits(a, b) /\ Covers(a, b, {"endTime"})
  BY <1>4, ListCovers
<1> HIDE DEF a, b
<1>6. Call_ReportAlarmRes_A = << >> \o <<b>> /\ AlarmsRead = << >> \o <<a>>
  BY NothingBefore DEF Call_ReportAlarmRes_A, AlarmsRead, Group, a, b, ws, fs
<1>7. Table(<< >> \o <<b>>)
  BY <1>6, CallTables
<1> DEFINE B == << >>
<1>8. IsSeq(B) /\ Call_ReportAlarmRes_A = B \o <<b>> /\ AlarmsRead = B \o <<a>> /\ Table(B \o <<b>>)
  BY <1>6, <1>7, NothingBefore
<1> HIDE DEF B
<1> QED
  BY <1>5, <1>8, SameButLast

\* The state of an alarm that is asked for.
LEMMA AlarmARead ==
  /\ Readable(AlarmRead, Call_QueryAlarmRes_A)
  /\ \A g : TableCovers(AlarmRead, Call_QueryAlarmRes_A, g, {"state"})
  /\ Names(AlarmRead) = Names(Call_QueryAlarmRes_A)
<1> DEFINE ws == Strs(<<"id", "type">>)
           fs == Strs(<<"id", "type", "state">>)
           a == List("group", ws)
           b == List("group", fs)
<1>1. Row(ws, {"id", "type"}, "simple", S(2)) /\ Row(fs, {"id", "type", "state"}, "simple", S(3))
  BY StrsTwo, StrsThree
<1> HIDE DEF ws, fs
<1>3. SimpleRow(ws) /\ SimpleRow(fs) /\ NamesIn(fs) \ {"state"} \subseteq NamesIn(ws)
  BY <1>1, RowIsTable DEF Row
<1>4. MemberRow(ws) /\ RowFits(ws, fs) /\ RowCovers(ws, fs, {"state"})
  BY <1>3, SimpleRows DEF MemberRow, SimpleRow, MemberShape
<1>5. ParamShape(a) /\ a.name = b.name /\ Fits(a, b) /\ Covers(a, b, {"state"})
  BY <1>4, ListCovers
<1> HIDE DEF a, b
<1>6. Call_QueryAlarmRes_A = User \o <<b>> /\ AlarmRead = User \o <<a>>
  BY DEF Call_QueryAlarmRes_A, AlarmRead, Group, a, b, ws, fs
<1>7. Table(User \o <<b>>) /\ IsSeq(User)
  BY <1>6, CallTables, Runs DEF Row
<1> QED
  BY <1>5, <1>6, <1>7, SameButLast

\* A call of interface B without muId and muName, read as one of interface A.
LEMMA AlarmsTaken ==
  /\ Readable(AlarmsRead, Call_ReportAlarmRes_B)
  /\ \A g : 1 \notin Given(Call_ReportAlarmRes_B, g) /\ 2 \notin Given(Call_ReportAlarmRes_B, g)
        => TableCovers(AlarmsRead, Call_ReportAlarmRes_B, g,
                       {"endTime", "alarmHisRecord", "resId", "time"})
<1> DEFINE G == {"endTime", "alarmHisRecord", "resId", "time"}
           ws == Strs(<<"id", "type", "startTime", "targetInfo">>)
                 \o Nums(<<"level", "state">>) \o Strs(<<"description">>)
           ss == Strs(<<"id", "type", "startTime", "endTime", "targetInfo">>)
                 \o Nums(<<"level">>) \o Strs(<<"state", "description", "alarmHisRecord">>)
           us == Strs(<<"resId", "time">>)
           url == Struct("url", us)
           fs == ss \o <<url>>
           a == List("group", ws)
           b == List("group", fs)
           B == Strs(<<"muId", "muName">>)
<1>1. Row(ws, {"id", "type", "startTime", "targetInfo"} \cup {"level", "state"} \cup {"description"},
          "simple", S(4) \o N(2) \o S(1))
  BY StrsOne, StrsFour, NumsTwo, Joined
<1>2. Row(ss, {"id", "type", "startTime", "endTime", "targetInfo"} \cup {"level"}
              \cup {"state", "description", "alarmHisRecord"}, "simple", S(5) \o N(1) \o S(3))
  BY StrsThree, StrsFive, NumsOne, Joined
<1>3. Row(us, {"resId", "time"}, "simple", S(2))
  BY StrsTwo
<1>4. Row(B, {"muId", "muName"}, "param", S(2))
  BY StrsTwo
<1> HIDE DEF ws, ss, us
<1>5. SimpleRow(ws) /\ SimpleRow(ss) /\ SimpleRow(us) /\ NamesIn(ss) \ G \subseteq NamesIn(ws)
  BY <1>1, <1>2, <1>3, RowIsTable DEF Row
<1>6. /\ url.type = "struct" /\ url.name = "url" /\ url.fields = us
      /\ \A k \in DOMAIN us : us[k].name \in G
      /\ \A j \in DOMAIN ws : ws[j].name # "url"
  BY <1>1, <1>3 DEF Struct, Shape, Row, NamesIn
<1> HIDE DEF url
<1>7. /\ Len(ss) \in Nat /\ DOMAIN ss = 1..Len(ss) /\ DOMAIN fs = 1..(Len(ss) + 1)
      /\ \A i \in DOMAIN ss : fs[i] = ss[i]
      /\ fs[Len(ss) + 1] = url
  BY <1>2, LastOne DEF Row
<1> HIDE DEF fs
<1>8. RowFits(ws, ss) /\ RowCovers(ws, ss, G)
  BY <1>5, SimpleRows
<1>9. RowFits(ws, fs)
  <2> SUFFICES ASSUME NEW j \in DOMAIN ws, NEW k \in DOMAIN fs, ws[j].name = fs[k].name
               PROVE  MemberFits(ws[j], fs[k])
    BY DEF RowFits
  <2>1. k \in DOMAIN ss
    BY <1>6, <1>7
  <2> QED
    BY <2>1, <1>7, <1>8 DEF RowFits
<1>10. RowCovers(ws, fs, G)
  <2> SUFFICES ASSUME NEW k \in DOMAIN fs
               PROVE  \/ Spared(fs[k], G)
                      \/ \E j \in DOMAIN ws : ws[j].name = fs[k].name /\ MemberCovers(ws[j], fs[k], G)
    BY DEF RowCovers
  <2>1. CASE k \in DOMAIN ss
    BY <2>1, <1>7, <1>8 DEF RowCovers
  <2>2. CASE k = Len(ss) + 1
    BY <2>2, <1>6, <1>7 DEF Spared
  <2> QED
    BY <2>1, <2>2, <1>7
<1>11. MemberRow(ws)
  BY <1>5 DEF SimpleRow, MemberRow, MemberShape
<1> HIDE DEF G
<1>12. ParamShape(a) /\ a.name = b.name /\ b.name = "group" /\ Fits(a, b) /\ Covers(a, b, G)
  BY <1>9, <1>10, <1>11, ListCovers
<1> HIDE DEF a, b
<1>13. Call_ReportAlarmRes_B = B \o <<b>> /\ AlarmsRead = << >> \o <<a>>
  BY NothingBefore DEF Call_ReportAlarmRes_B, AlarmsRead, Group, Url, a, b, ws, fs, ss, us, url
<1>14. Table(B \o <<b>>)
  BY <1>13, CallTables
<1>15. IsSeq(B) /\ DOMAIN B = 1..2
  <2>1. IsSeq(B)
    BY <1>4 DEF Row
  <2>2. DOMAIN B = {1, 2}
    BY DEF Strs
  <2> QED
    BY <2>1, <2>2
<1> HIDE DEF B
<1> DEFINE D == << >>
<1>16. IsSeq(D) /\ DOMAIN D = {} /\ AlarmsRead = D \o <<a>>
  BY <1>13, NothingBefore
<1> HIDE DEF D
<1>17. Readable(AlarmsRead, Call_ReportAlarmRes_B)
  BY <1>12, <1>13, <1>14, <1>15, <1>16, LastReadable
<1>18. ASSUME NEW g, 1 \notin Given(B \o <<b>>, g), 2 \notin Given(B \o <<b>>, g)
       PROVE  TableCovers(D \o <<a>>, B \o <<b>>, g, G)
  <2>1. \A i \in DOMAIN B : i \notin Given(B \o <<b>>, g)
    BY <1>15, <1>18
  <2> QED
    BY <2>1, <1>12, <1>14, <1>15, <1>16, LastCovers
<1> QED
  BY <1>13, <1>16, <1>17, <1>18 DEF G

\* And of cameras, without their muId.
LEMMA CamsTaken ==
  /\ Readable(Call_ReportCamResState_A, Call_ReportCamResState_B)
  /\ \A g : 1 \notin Given(Call_ReportCamResState_B, g)
        => TableCovers(Call_ReportCamResState_A, Call_ReportCamResState_B, g, {})
<1> DEFINE fs == Strs(<<"resId", "state">>)
           a == List("group", fs)
           B == Strs(<<"muId">>)
<1>1. MemberRow(fs) /\ Row(B, {"muId"}, "param", S(1))
  BY StrsOne, StrsTwo
<1> HIDE DEF fs
<1>2. ParamShape(a) /\ a.name = "group"
  BY <1>1 DEF ParamShape, List, Shape
<1> HIDE DEF a
<1>3. Fits(a, a) /\ Covers(a, a, {})
  BY <1>2, FitsItself
<1>4. Call_ReportCamResState_B = B \o <<a>> /\ Call_ReportCamResState_A = << >> \o <<a>>
  BY NothingBefore DEF Call_ReportCamResState_A, Call_ReportCamResState_B, Group, a, fs
<1>5. Table(B \o <<a>>)
  BY <1>4, CallTables
<1>6. IsSeq(B)
  BY <1>1 DEF Row
<1>7. DOMAIN B = {1}
  BY DEF Strs
<1> HIDE DEF B
<1> DEFINE D == << >>
<1>8. IsSeq(D) /\ DOMAIN D = {} /\ Call_ReportCamResState_A = D \o <<a>>
  BY <1>4, NothingBefore
<1> HIDE DEF D
<1>9. Readable(Call_ReportCamResState_A, Call_ReportCamResState_B)
  BY <1>2, <1>3, <1>4, <1>5, <1>6, <1>8, LastReadable
<1>10. ASSUME NEW g, 1 \notin Given(B \o <<a>>, g)
       PROVE  TableCovers(D \o <<a>>, B \o <<a>>, g, {})
  <2>1. \A i \in DOMAIN B : i \notin Given(B \o <<a>>, g)
    BY <1>7, <1>10
  <2> QED
    BY <2>1, <1>2, <1>3, <1>5, <1>6, <1>8, LastCovers
<1> QED
  BY <1>4, <1>8, <1>9, <1>10

\* A question of interface B is never taken for one of interface A: it has no cuId.
LEMMA AlarmBMissed ==
  /\ Readable(AlarmRead, Call_QueryAlarmRes_B)
  /\ \A g : ~Present(AlarmRead, Call_QueryAlarmRes_B, g)
<1> DEFINE fs == Strs(<<"id", "type">>)
           a == List("group", fs)
           B == Strs(<<"muId", "muName">>)
<1>1. /\ MemberRow(fs) /\ Row(B, {"muId", "muName"}, "param", S(2))
      /\ Row(User, {"cuId", "cuUserId"}, "param", S(2))
  BY StrsTwo, Runs
<1> HIDE DEF fs
<1>2. ParamShape(a) /\ a.name = "group" /\ a.type = "array"
  BY <1>1 DEF ParamShape, List, Shape
<1> HIDE DEF a
<1>3. Fits(a, a)
  BY <1>2, FitsItself
<1>4. Call_QueryAlarmRes_B = B \o <<a>> /\ AlarmRead = User \o <<a>>
  BY DEF Call_QueryAlarmRes_B, AlarmRead, Group, a, fs
<1>5. Table(B \o <<a>>)
  BY <1>4, CallTables
<1> HIDE DEF B
<1>6. /\ IsSeq(B) /\ IsSeq(User)
      /\ \A i \in DOMAIN B : B[i].name \in {"muId", "muName"}
      /\ \A j \in DOMAIN User : User[j].name \in {"cuId", "cuUserId"} /\ ParamShape(User[j])
  BY <1>1 DEF Row, NamesIn, Kind
<1>7. Readable(AlarmRead, Call_QueryAlarmRes_B)
  BY <1>2, <1>3, <1>4, <1>5, <1>6, LastReadable
<1>8. User[1].name = "cuId" /\ User[1].type = "string" /\ 1 \in DOMAIN User
  BY DEF User, Strs, Str, Shape
<1>9. AlarmRead[1] = User[1] /\ 1 \in DOMAIN AlarmRead
  BY <1>4, <1>6, <1>8, LastOne
<1>10. \A i \in DOMAIN (B \o <<a>>) : (B \o <<a>>)[i].name \in {"muId", "muName", "group"}
  BY <1>2, <1>6, LastOne
<1> QED
  BY <1>4, <1>7, <1>8, <1>9, <1>10 DEF Present, There, Given

-----------------------------------------------------------------------------
(* Calls of the three commands of which there are two forms.               *)

\* Strings before a list.
LEMMA BeforeList ==
  ASSUME NEW fs
  PROVE  /\ LET T == Strs(<<"muId", "muName">>) \o Group(fs) IN
              /\ DOMAIN T = 1..3 /\ T[1] = Str("muId") /\ T[2] = Str("muName")
              /\ T[3] = List("group", fs)
         /\ LET T == Strs(<<"muId">>) \o Group(fs) IN
              DOMAIN T = 1..2 /\ T[1] = Str("muId") /\ T[2] = List("group", fs)
         /\ LET T == User \o Group(fs) IN
              /\ DOMAIN T = 1..3 /\ T[1] = Str("cuId") /\ T[2] = Str("cuUserId")
              /\ T[3] = List("group", fs)
<1> DEFINE y == List("group", fs)
           B1 == Strs(<<"muId">>)
           B2 == Strs(<<"muId", "muName">>)
<1>1. Row(B1, {"muId"}, "param", S(1)) /\ Row(B2, {"muId", "muName"}, "param", S(2))
  BY StrsOne, StrsTwo
<1>2. Row(User, {"cuId", "cuUserId"}, "param", S(2))
  BY Runs
<1>3. /\ DOMAIN B1 = {1} /\ B1[1] = Str("muId")
      /\ DOMAIN B2 = {1, 2} /\ B2[1] = Str("muId") /\ B2[2] = Str("muName")
      /\ DOMAIN User = {1, 2} /\ User[1] = Str("cuId") /\ User[2] = Str("cuUserId")
  BY DEF Strs, User
<1> HIDE DEF B1, B2, y
<1>4. IsSeq(B1) /\ IsSeq(B2) /\ IsSeq(User)
  BY <1>1, <1>2 DEF Row
<1>5. Len(B1) = 1 /\ Len(B2) = 2 /\ Len(User) = 2
  <2>1. 1..Len(B1) = {1} /\ Len(B1) \in Nat
    BY <1>3, <1>4, LastOne
  <2>2. 1..Len(B2) = {1, 2} /\ Len(B2) \in Nat
    BY <1>3, <1>4, LastOne
  <2>3. 1..Len(User) = {1, 2} /\ Len(User) \in Nat
    BY <1>3, <1>4, LastOne
  <2>4. \A m \in Nat : (1..m = {1} => m = 1) /\ (1..m = {1, 2} => m = 2)
    OBVIOUS
  <2> QED
    BY <2>1, <2>2, <2>3, <2>4
<1>6. ASSUME NEW B, IsSeq(B), Len(B) = 2
      PROVE  /\ DOMAIN (B \o <<y>>) = 1..3
             /\ (B \o <<y>>)[1] = B[1] /\ (B \o <<y>>)[2] = B[2] /\ (B \o <<y>>)[3] = y
  <2>1. DOMAIN B = 1..2 /\ DOMAIN (B \o <<y>>) = 1..(2 + 1)
    BY <1>6, LastOne
  <2>2. (B \o <<y>>)[Len(B) + 1] = y
    BY <1>6, LastOne
  <2>3. (B \o <<y>>)[1] = B[1] /\ (B \o <<y>>)[2] = B[2]
    BY <1>6, <2>1, LastOne
  <2>4. Len(B) + 1 = 3
    BY <1>6
  <2> QED
    BY <2>1, <2>2, <2>3, <2>4
<1>7. DOMAIN (B1 \o <<y>>) = 1..2 /\ (B1 \o <<y>>)[1] = Str("muId") /\ (B1 \o <<y>>)[2] = y
  BY <1>3, <1>4, <1>5, LastOne
<1> QED
  BY <1>3, <1>4, <1>5, <1>6, <1>7 DEF B1, B2, y, Group

\* Whether a parameter of their names is there.
LEMMA Asked ==
  ASSUME NEW C, Table(C), NEW g, Gaps(C, g), NEW n \in Nat
  PROVE  LET kids == Xml(Build(C, g, n)) IN
         /\ (\A i \in DOMAIN C : C[i].name # "muId") => ~Has(kids, "muId")
         /\ (\A i \in DOMAIN C : C[i].name # "muName") => ~Has(kids, "muName")
         /\ 1 \in DOMAIN C /\ C[1] = Str("muId") => (Has(kids, "muId") <=> 1 \in Given(C, g))
         /\ 2 \in DOMAIN C /\ C[2] = Str("muName") => (Has(kids, "muName") <=> 2 \in Given(C, g))
<1> DEFINE kids == Xml(Build(C, g, n))
<1>1. ASSUME NEW nm, \A i \in DOMAIN C : C[i].name # nm
      PROVE  ~Has(kids, nm)
  BY <1>1, HasIt DEF Given
<1>2. ASSUME NEW nm, NEW r \in DOMAIN C, C[r] = Str(nm)
      PROVE  Has(kids, nm) <=> r \in Given(C, g)
  <2>1. C[r].name = nm /\ SimpleShape(C[r])
    BY <1>2 DEF Str, Shape, SimpleShape
  <2>2. \A i \in DOMAIN C : C[i].name = nm => i = r
    BY <2>1 DEF Table, Distinct
  <2>3. Has(kids, nm) <=> \E i \in Given(C, g) : C[i].name = nm
    BY <2>1, <2>2, HasIt
  <2> QED
    BY <2>1, <2>2, <2>3 DEF Given
<1> HIDE DEF kids
<1> QED
  BY <1>1, <1>2 DEF kids

\* TakenForA, Unread and OwnHandler, as functions of a form and its gaps.
Taken(f, g) ==
  \/ /\ f = "ReportAlarmRes_B"
     /\ 1 \in g.missing \cup g.empty /\ 2 \in g.missing \cup g.empty
  \/ f = "ReportCamResState_B" /\ 1 \in g.missing \cup g.empty

UnreadOf(f, g) ==
  CASE f = "AlarmHisQuery"    -> {"startTime"}
    [] f = "ReportAlarmRes_A" -> {"endTime"}
    [] f = "QueryAlarmRes_A"  -> {"state"}
    [] f = "ReportAlarmRes_B" /\ Taken(f, g) -> {"endTime", "alarmHisRecord", "resId", "time"}
    [] OTHER -> {}

HandlerOf(f, g) ==
  CASE f = "QueryAlarmRes_A" -> "QueryAlarmRes_B"
    [] Taken(f, g)           -> (IF f = "ReportAlarmRes_B"
                                 THEN "ReportAlarmRes_A" ELSE "ReportCamResState_A")
    [] OTHER -> (IF f \in DOMAIN Handlers THEN f ELSE "none")

\* The forms that have a handler.
LEMMA HandlerForms == DOMAIN Handlers = Served \cup (Twofold \ {"QueryAlarmRes_A"})
<1>1. DOMAIN Handlers =
        {"CuRegister", "CuKeepAlive", "GetDepResList", "GetVideoResList", "GetAlarmResList",
         "QueryAlarmInfo", "AlarmHisQuery", "PTZCtrl", "PlayQuery", "PlayOpen", "PlayStart",
         "HisPlayOpen", "HisPlayStart", "HisLoadOpen", "HisLoadStart", "PlayClose", "PlayCtrl",
         "ReportAlarmRes_A", "ReportCamResState_A", "ReportAlarmRes_B", "ReportCamResState_B",
         "QueryAlarmRes_B", "MUKeepAlive"}
  BY DEF Handlers
<1>2. Twofold \ {"QueryAlarmRes_A"} = {"ReportAlarmRes_A", "ReportCamResState_A",
         "ReportAlarmRes_B", "ReportCamResState_B", "QueryAlarmRes_B"}
  BY DEF Twofold
<1> QED
  BY <1>1, <1>2 DEF Served

\* What is special of the forms of one table.
LEMMA PlainForms ==
  ASSUME NEW f \in Served \cup Orphans, NEW g
  PROVE  /\ ~Taken(f, g)
         /\ UnreadOf(f, g) = IF f = "AlarmHisQuery" THEN {"startTime"} ELSE {}
         /\ HandlerOf(f, g) = IF f \in Served THEN f ELSE "none"
<1>1. f \notin Twofold
  BY FormsApart
<1>2. f \notin {"ReportAlarmRes_A", "QueryAlarmRes_A", "ReportAlarmRes_B", "ReportCamResState_B"}
  BY <1>1 DEF Twofold
<1>3. ~Taken(f, g)
  BY <1>2 DEF Taken
<1>4. UnreadOf(f, g) = IF f = "AlarmHisQuery" THEN {"startTime"} ELSE {}
  BY <1>2 DEF UnreadOf
<1>5. f \in DOMAIN Handlers <=> f \in Served
  BY <1>1, HandlerForms
<1>6. HandlerOf(f, g) = IF f \in Served THEN f ELSE "none"
  BY <1>2, <1>3, <1>5 DEF HandlerOf
<1> QED
  BY <1>3, <1>4, <1>6

\* What the parser P reads of a call of the form f, with the parameters C.
Received(f, g, C, P) ==
  /\ Table(C) /\ Readable(P, C)
  /\ Present(P, C, g) => /\ TableCovers(P, C, g, UnreadOf(f, g))
                         /\ dispatchCallLoc(NameOf(f), Types(P)) = HandlerOf(f, g)
  /\ g = NoGaps => Names(P) = Names(C)

\* What is read of a form of one table: what its caller writes, but for the struct
\* of AlarmHisQuery.
LEMMA PlainReceived ==
  ASSUME NEW f \in Served \cup Orphans, NEW g, NEW kids
  PROVE  Received(f, g, Calls[f], Wanted(NameOf(f), kids))
<1>1. /\ NameOf(f) = f
      /\ f \notin {"ReportAlarmRes", "QueryAlarmRes", "ReportCamResState", "GetCamResState"}
  BY NamedOnce, FormsApart
<1>2. f \in Served => Wanted(NameOf(f), kids) = Required[f]
  BY <1>1, Forms, FormsApart DEF Wanted
<1>3. f \in Orphans => Wanted(NameOf(f), kids) = Unserved[f]
  BY <1>1, Forms, FormsApart DEF Wanted
<1>4. f \in Served => f \in DOMAIN Clients /\ Calls[f] = Clients[f]
  BY Forms DEF Calls
<1>5. f \in Orphans => Calls[f] = Unserved[f]
  <2>1. f \in Orphans => f \notin DOMAIN Clients
    BY Forms, FormsApart
  <2> QED
    BY <2>1, Forms DEF Calls
<1>6. CASE f \in Served \ {"AlarmHisQuery"}
  <2> DEFINE C == Calls[f]
  <2>1. Table(C) /\ C = Clients[f] /\ Wanted(NameOf(f), kids) = C
    BY <1>2, <1>4, <1>6, ClientTables, SameTables
  <2>2. dispatchCallLoc(f, Types(C)) = f
    BY <2>1, <1>6, SameTables, OwnMethod
  <2>3. HandlerOf(f, g) = f
    BY <1>6, PlainForms
  <2> HIDE DEF C
  <2>4. Readable(C, C) /\ \A G : TableCovers(C, C, g, G)
    BY <2>1, TableItself
  <2> QED
    BY <1>1, <2>1, <2>2, <2>3, <2>4 DEF Received, C
<1>7. CASE f = "AlarmHisQuery"
  <2>1. f \in Served
    BY <1>7 DEF Served
  <2>2. Calls[f] = Call_AlarmHisQuery
    BY <1>4, <1>7, <2>1 DEF Clients
  <2>3. Required[f] = Parse_AlarmHisQuery
    BY <1>7 DEF Required
  <2>4. Wanted(NameOf(f), kids) = Parse_AlarmHisQuery
    BY <1>2, <2>1, <2>3
  <2>5. Table(Call_AlarmHisQuery)
    BY CallTables
  <2>6. dispatchCallLoc(f, Types(Parse_AlarmHisQuery)) = f
    BY <2>1, <2>3, OwnMethod
  <2>7. UnreadOf(f, g) = {"startTime"} /\ HandlerOf(f, g) = f
    BY <1>7, <2>1, PlainForms
  <2> QED
    BY <1>1, <2>2, <2>4, <2>5, <2>6, <2>7, HisQueryRead DEF Received
<1>8. CASE f \in Orphans
  <2> DEFINE C == Calls[f]
  <2>1. Table(C) /\ Wanted(NameOf(f), kids) = C
    BY <1>3, <1>5, <1>8, OrphanTables
  <2>2. dispatchCallLoc(f, Types(C)) = "none"
    BY <1>8, NoOwnMethod
  <2>3. HandlerOf(f, g) = "none"
    BY <1>8, FormsApart, PlainForms
  <2> HIDE DEF C
  <2>4. Readable(C, C) /\ \A G : TableCovers(C, C, g, G)
    BY <2>1, TableItself
  <2> QED
    BY <1>1, <2>1, <2>2, <2>3, <2>4 DEF Received, C
<1> QED
  BY <1>6, <1>7, <1>8

\* What is looked for of a command of two forms.
LEMMA TwofoldWanted ==
  /\ \A kids : Wanted("ReportAlarmRes", kids) =
       IF ~Has(kids, "muId") /\ ~Has(kids, "muName") THEN AlarmsRead ELSE Call_ReportAlarmRes_B
  /\ \A kids : Wanted("QueryAlarmRes", kids) =
       IF Has(kids, "muId") /\ Has(kids, "muName") THEN Call_QueryAlarmRes_B ELSE AlarmRead
  /\ \A kids : Wanted("ReportCamResState", kids) =
       IF Has(kids, "muId") THEN Call_ReportCamResState_B ELSE Call_ReportCamResState_A
<1>1. \A f \in DOMAIN Required \cup DOMAIN Unserved :
        f \notin {"ReportAlarmRes", "QueryAlarmRes", "ReportCamResState"}
  BY Forms, FormsApart
<1>2. \A kids : Parse_ReportAlarmRes(kids) =
        IF ~Has(kids, "muId") /\ ~Has(kids, "muName") THEN AlarmsRead ELSE Call_ReportAlarmRes_B
  BY DEF Parse_ReportAlarmRes, AlarmsRead, Call_ReportAlarmRes_B
<1>3. \A kids : Parse_QueryAlarmRes(kids) =
        IF Has(kids, "muId") /\ Has(kids, "muName") THEN Call_QueryAlarmRes_B ELSE AlarmRead
  BY DEF Parse_QueryAlarmRes, AlarmRead, Call_QueryAlarmRes_B
<1>4. << >> \o Group(Strs(<<"resId", "state">>)) = Group(Strs(<<"resId", "state">>))
  BY NothingBefore DEF Group
<1>5. \A kids : Parse_ReportCamResState(kids) =
        IF Has(kids, "muId") THEN Call_ReportCamResState_B ELSE Call_ReportCamResState_A
  BY <1>4 DEF Parse_ReportCamResState, Call_ReportCamResState_A, Call_ReportCamResState_B
<1>6. \A kids : Wanted("ReportAlarmRes", kids) = Parse_ReportAlarmRes(kids)
  BY <1>1 DEF Wanted
<1>7. \A kids : Wanted("QueryAlarmRes", kids) = Parse_QueryAlarmRes(kids)
  BY <1>1 DEF Wanted
<1>8. \A kids : Wanted("ReportCamResState", kids) = Parse_ReportCamResState(kids)
  BY <1>1 DEF Wanted
<1> QED
  BY <1>2, <1>3, <1>5, <1>6, <1>7, <1>8

\* The two forms' names and parameters.
LEMMA TwofoldForms ==
  /\ NameOf("ReportAlarmRes_A") = "ReportAlarmRes" /\ NameOf("ReportAlarmRes_B") = "ReportAlarmRes"
  /\ NameOf("ReportCamResState_A") = "ReportCamResState"
  /\ NameOf("ReportCamResState_B") = "ReportCamResState"
  /\ NameOf("QueryAlarmRes_A") = "QueryAlarmRes" /\ NameOf("QueryAlarmRes_B") = "QueryAlarmRes"
  /\ Calls["ReportAlarmRes_A"] = Call_ReportAlarmRes_A
  /\ Calls["ReportAlarmRes_B"] = Call_ReportAlarmRes_B
  /\ Calls["ReportCamResState_A"] = Call_ReportCamResState_A
  /\ Calls["ReportCamResState_B"] = Call_ReportCamResState_B
  /\ Calls["QueryAlarmRes_A"] = Call_QueryAlarmRes_A
  /\ Calls["QueryAlarmRes_B"] = Call_QueryAlarmRes_B
<1>1. /\ Clients["ReportAlarmRes_A"] = Call_ReportAlarmRes_A
      /\ Clients["ReportAlarmRes_B"] = Call_ReportAlarmRes_B
      /\ Clients["ReportCamResState_A"] = Call_ReportCamResState_A
      /\ Clients["ReportCamResState_B"] = Call_ReportCamResState_B
      /\ Clients["QueryAlarmRes_A"] = Call_QueryAlarmRes_A
      /\ Clients["QueryAlarmRes_B"] = Call_QueryAlarmRes_B
  BY DEF Clients
<1>2. \A f \in Twofold : Calls[f] = Clients[f]
  BY Forms DEF Calls
<1> QED
  BY <1>1, <1>2 DEF Twofold, NameOf

\* The parameters of the forms that differ in them.
LEMMA TwofoldParams ==
  /\ \A i \in DOMAIN Call_ReportAlarmRes_A : Call_ReportAlarmRes_A[i].name = "group"
  /\ \A i \in DOMAIN Call_ReportCamResState_A : Call_ReportCamResState_A[i].name = "group"
  /\ \A i \in DOMAIN Call_QueryAlarmRes_A : Call_QueryAlarmRes_A[i].name \in {"cuId", "cuUserId", "group"}
  /\ \A C \in {Call_ReportAlarmRes_B, Call_QueryAlarmRes_B} :
       1 \in DOMAIN C /\ C[1] = Str("muId") /\ 2 \in DOMAIN C /\ C[2] = Str("muName")
  /\ LET C == Call_ReportCamResState_B IN
       /\ 1 \in DOMAIN C /\ C[1] = Str("muId")
       /\ \A i \in DOMAIN C : C[i].name # "muName"
<1>1. \A fs : List("group", fs).name = "group" /\ \A nm : Str(nm).name = nm
  BY DEF List, Str, Shape
<1>2. (\A i \in DOMAIN Call_ReportAlarmRes_A : Call_ReportAlarmRes_A[i].name = "group")
      /\ \A i \in DOMAIN Call_ReportCamResState_A : Call_ReportCamResState_A[i].name = "group"
  BY <1>1 DEF Call_ReportAlarmRes_A, Call_ReportCamResState_A, Group
<1> DEFINE f1 == Strs(<<"id", "type", "state">>)
<1>3. Call_QueryAlarmRes_A = User \o Group(f1)
  BY DEF Call_QueryAlarmRes_A
<1> HIDE DEF f1
<1>4. \A i \in DOMAIN Call_QueryAlarmRes_A : Call_QueryAlarmRes_A[i].name \in {"cuId", "cuUserId", "group"}
  BY <1>1, <1>3, BeforeList
<1>5. \E fs : Call_ReportAlarmRes_B = Strs(<<"muId", "muName">>) \o Group(fs)
  BY DEF Call_ReportAlarmRes_B
<1>6. \E fs : Call_QueryAlarmRes_B = Strs(<<"muId", "muName">>) \o Group(fs)
  BY DEF Call_QueryAlarmRes_B
<1>7. \A fs : LET C == Strs(<<"muId", "muName">>) \o Group(fs)
              IN 1 \in DOMAIN C /\ C[1] = Str("muId") /\ 2 \in DOMAIN C /\ C[2] = Str("muName")
  BY BeforeList
<1> DEFINE f2 == Strs(<<"resId", "state">>)
<1>8. Call_ReportCamResState_B = Strs(<<"muId">>) \o Group(f2)
  BY DEF Call_ReportCamResState_B
<1> HIDE DEF f2
<1>9. LET C == Call_ReportCamResState_B IN
      /\ 1 \in DOMAIN C /\ C[1] = Str("muId")
      /\ \A i \in DOMAIN C : C[i].name # "muName"
  <2> DEFINE C == Call_ReportCamResState_B
  <2>1. DOMAIN C = 1..2 /\ C[1] = Str("muId") /\ C[2] = List("group", f2)
    BY <1>8, BeforeList
  <2> HIDE DEF C
  <2>2. \A i \in DOMAIN C : i = 1 \/ i = 2
    BY <2>1
  <2>3. C[1].name = "muId" /\ C[2].name = "group"
    BY <1>1, <2>1
  <2> QED
    BY <2>1, <2>2, <2>3 DEF C
<1> QED
  BY <1>2, <1>4, <1>5, <1>6, <1>7, <1>9

\* A form that is not taken for another has its own handler.
LEMMA TwofoldHandlers ==
  ASSUME NEW f \in Twofold, f # "QueryAlarmRes_A", NEW g, ~Taken(f, g)
  PROVE  HandlerOf(f, g) = f
BY HandlerForms DEF HandlerOf

\* What is read of them: by the parameters that are there.
LEMMA TwofoldReceived ==
  ASSUME NEW f \in Twofold, NEW g, Gaps(Calls[f], g), NEW n \in Nat
  PROVE  Received(f, g, Calls[f], Wanted(NameOf(f), Xml(Build(Calls[f], g, n))))
<1> DEFINE kids == Xml(Build(Calls[f], g, n))
<1> USE DEF Received
<1>1. CASE f = "ReportAlarmRes_A"
  <2> DEFINE C == Call_ReportAlarmRes_A
  <2>1. Calls[f] = C /\ NameOf(f) = "ReportAlarmRes"
    BY <1>1, TwofoldForms
  <2>2. Table(C)
    BY CallTables
  <2>3. ~Has(kids, "muId") /\ ~Has(kids, "muName")
    <3>1. (\A i \in DOMAIN C : C[i].name # "muId") /\ \A i \in DOMAIN C : C[i].name # "muName"
      BY TwofoldParams
    <3> HIDE DEF C
    <3> QED
      BY <2>1, <2>2, <3>1, Asked
  <2> HIDE DEF kids
  <2>4. Wanted(NameOf(f), kids) = AlarmsRead
    BY <2>1, <2>3, TwofoldWanted
  <2>5. ~Taken(f, g) /\ UnreadOf(f, g) = {"endTime"}
    BY <1>1 DEF Taken, UnreadOf
  <2>6. HandlerOf(f, g) = "ReportAlarmRes_A"
    BY <1>1, <2>5, TwofoldHandlers
  <2>7. dispatchCallLoc(NameOf(f), Types(AlarmsRead)) = HandlerOf(f, g)
    BY <2>1, <2>6, OtherTables, TwofoldMethod
  <2> QED
    BY <2>1, <2>2, <2>4, <2>5, <2>7, AlarmsARead DEF kids
<1>2. CASE f = "ReportAlarmRes_B"
  <2> DEFINE C == Call_ReportAlarmRes_B
  <2>1. Calls[f] = C /\ NameOf(f) = "ReportAlarmRes"
    BY <1>2, TwofoldForms
  <2>2. Table(C) /\ Types(C) = S(2) \o A
    BY CallTables
  <2>3. 1 \in DOMAIN C /\ 2 \in DOMAIN C
    BY TwofoldParams
  <2>4. (Has(kids, "muId") <=> 1 \in Given(C, g)) /\ (Has(kids, "muName") <=> 2 \in Given(C, g))
    <3>1. C[1] = Str("muId") /\ C[2] = Str("muName")
      BY TwofoldParams
    <3> HIDE DEF C
    <3> QED
      BY <2>1, <2>2, <2>3, <3>1, Asked
  <2> HIDE DEF kids
  <2>5. Taken(f, g) <=> 1 \notin Given(C, g) /\ 2 \notin Given(C, g)
    BY <1>2, <2>3 DEF Taken, Given
  <2>6. Wanted(NameOf(f), kids) = IF Taken(f, g) THEN AlarmsRead ELSE C
    BY <2>1, <2>4, <2>5, TwofoldWanted
  <2>7. CASE Taken(f, g)
    <3>1. UnreadOf(f, g) = {"endTime", "alarmHisRecord", "resId", "time"}
      BY <1>2, <2>7 DEF UnreadOf
    <3>2. HandlerOf(f, g) = "ReportAlarmRes_A"
      BY <1>2, <2>7 DEF HandlerOf
    <3>3. dispatchCallLoc(NameOf(f), Types(AlarmsRead)) = HandlerOf(f, g)
      BY <2>1, <3>2, OtherTables, TwofoldMethod
    <3>4. g # NoGaps
      BY <2>7 DEF NoGaps, Taken
    <3>5. Readable(AlarmsRead, C) /\ TableCovers(AlarmsRead, C, g, UnreadOf(f, g))
      BY <2>5, <2>7, <3>1, AlarmsTaken
    <3> QED
      BY <2>1, <2>2, <2>6, <2>7, <3>3, <3>4, <3>5 DEF kids
  <2>8. CASE ~Taken(f, g)
    <3>1. UnreadOf(f, g) = {}
      BY <1>2, <2>8 DEF UnreadOf
    <3>2. HandlerOf(f, g) = "ReportAlarmRes_B"
      BY <1>2, <2>8, TwofoldHandlers
    <3>3. dispatchCallLoc(NameOf(f), Types(C)) = HandlerOf(f, g)
      BY <2>1, <2>2, <3>2, TwofoldMethod
    <3>4. Readable(C, C) /\ TableCovers(C, C, g, UnreadOf(f, g))
      BY <2>2, TableItself
    <3> QED
      BY <2>1, <2>2, <2>6, <2>8, <3>3, <3>4 DEF kids
  <2> QED
    BY <2>7, <2>8
<1>3. CASE f = "ReportCamResState_A"
  <2> DEFINE C == Call_ReportCamResState_A
  <2>1. Calls[f] = C /\ NameOf(f) = "ReportCamResState"
    BY <1>3, TwofoldForms
  <2>2. Table(C) /\ Types(C) = A
    BY CallTables
  <2>3. ~Has(kids, "muId")
    <3>1. \A i \in DOMAIN C : C[i].name # "muId"
      BY TwofoldParams
    <3> HIDE DEF C
    <3> QED
      BY <2>1, <2>2, <3>1, Asked
  <2> HIDE DEF kids
  <2>4. Wanted(NameOf(f), kids) = C
    BY <2>1, <2>3, TwofoldWanted
  <2>5. ~Taken(f, g) /\ UnreadOf(f, g) = {}
    BY <1>3 DEF Taken, UnreadOf
  <2>6. HandlerOf(f, g) = "ReportCamResState_A"
    BY <1>3, <2>5, TwofoldHandlers
  <2>7. dispatchCallLoc(NameOf(f), Types(C)) = HandlerOf(f, g)
    BY <2>1, <2>2, <2>6, TwofoldMethod
  <2>8. Readable(C, C) /\ TableCovers(C, C, g, UnreadOf(f, g))
    BY <2>2, TableItself
  <2> QED
    BY <2>1, <2>2, <2>4, <2>7, <2>8 DEF kids
<1>4. CASE f = "ReportCamResState_B"
  <2> DEFINE C == Call_ReportCamResState_B
             D == Call_ReportCamResState_A
  <2>1. Calls[f] = C /\ NameOf(f) = "ReportCamResState"
    BY <1>4, TwofoldForms
  <2>2. Table(C) /\ Types(C) = S(1) \o A /\ Types(D) = A
    BY CallTables
  <2>3. 1 \in DOMAIN C
    BY TwofoldParams
  <2>4. Has(kids, "muId") <=> 1 \in Given(C, g)
    <3>1. C[1] = Str("muId")
      BY TwofoldParams
    <3> HIDE DEF C
    <3> QED
      BY <2>1, <2>2, <2>3, <3>1, Asked
  <2> HIDE DEF kids
  <2>5. Taken(f, g) <=> 1 \notin Given(C, g)
    BY <1>4, <2>3 DEF Taken, Given
  <2>6. Wanted(NameOf(f), kids) = IF Taken(f, g) THEN D ELSE C
    BY <2>1, <2>4, <2>5, TwofoldWanted
  <2>7. UnreadOf(f, g) = {}
    BY <1>4 DEF UnreadOf
  <2>8. CASE Taken(f, g)
    <3>1. HandlerOf(f, g) = "ReportCamResState_A"
      BY <1>4, <2>8 DEF HandlerOf
    <3>2. dispatchCallLoc(NameOf(f), Types(D)) = HandlerOf(f, g)
      BY <2>1, <2>2, <3>1, TwofoldMethod
    <3>3. g # NoGaps
      BY <2>8 DEF NoGaps, Taken
    <3>4. Readable(D, C) /\ TableCovers(D, C, g, UnreadOf(f, g))
      BY <2>5, <2>7, <2>8, CamsTaken
    <3> QED
      BY <2>1, <2>2, <2>6, <2>8, <3>2, <3>3, <3>4 DEF kids
  <2>9. CASE ~Taken(f, g)
    <3>1. HandlerOf(f, g) = "ReportCamResState_B"
      BY <1>4, <2>9, TwofoldHandlers
    <3>2. dispatchCallLoc(NameOf(f), Types(C)) = HandlerOf(f, g)
      BY <2>1, <2>2, <3>1, TwofoldMethod
    <3>3. Readable(C, C) /\ TableCovers(C, C, g, UnreadOf(f, g))
      BY <2>2, TableItself
    <3> QED
      BY <2>1, <2>2, <2>6, <2>9, <3>2, <3>3 DEF kids
  <2> QED
    BY <2>8, <2>9
<1>5. CASE f = "QueryAlarmRes_A"
  <2> DEFINE C == Call_QueryAlarmRes_A
  <2>1. Calls[f] = C /\ NameOf(f) = "QueryAlarmRes"
    BY <1>5, TwofoldForms
  <2>2. Table(C)
    BY CallTables
  <2>3. ~Has(kids, "muId")
    <3>1. \A i \in DOMAIN C : C[i].name # "muId"
      BY TwofoldParams
    <3> HIDE DEF C
    <3> QED
      BY <2>1, <2>2, <3>1, Asked
  <2> HIDE DEF kids
  <2>4. Wanted(NameOf(f), kids) = AlarmRead
    BY <2>1, <2>3, TwofoldWanted
  <2>5. UnreadOf(f, g) = {"state"}
    BY <1>5 DEF UnreadOf
  <2>6. HandlerOf(f, g) = "QueryAlarmRes_B"
    BY <1>5 DEF HandlerOf, Taken
  <2>7. dispatchCallLoc(NameOf(f), Types(AlarmRead)) = HandlerOf(f, g)
    BY <2>1, <2>6, OtherTables, TwofoldMethod
  <2> QED
    BY <2>1, <2>2, <2>4, <2>5, <2>7, AlarmARead DEF kids
<1>6. CASE f = "QueryAlarmRes_B"
  <2> DEFINE C == Call_QueryAlarmRes_B
  <2>1. Calls[f] = C /\ NameOf(f) = "QueryAlarmRes"
    BY <1>6, TwofoldForms
  <2>2. Table(C) /\ Types(C) = S(2) \o A
    BY CallTables
  <2>3. 1 \in DOMAIN C /\ 2 \in DOMAIN C
    BY TwofoldParams
  <2>4. (Has(kids, "muId") <=> 1 \in Given(C, g)) /\ (Has(kids, "muName") <=> 2 \in Given(C, g))
    <3>1. C[1] = Str("muId") /\ C[2] = Str("muName")
      BY TwofoldParams
    <3> HIDE DEF C
    <3> QED
      BY <2>1, <2>2, <2>3, <3>1, Asked
  <2> HIDE DEF kids
  <2>5. ~Taken(f, g) /\ UnreadOf(f, g) = {}
    BY <1>6 DEF Taken, UnreadOf
  <2>6. HandlerOf(f, g) = "QueryAlarmRes_B"
    BY <1>6, <2>5, TwofoldHandlers
  <2>7. CASE 1 \in Given(C, g) /\ 2 \in Given(C, g)
    <3>1. Wanted(NameOf(f), kids) = C
      BY <2>1, <2>4, <2>7, TwofoldWanted
    <3>2. dispatchCallLoc(NameOf(f), Types(C)) = HandlerOf(f, g)
      BY <2>1, <2>2, <2>6, TwofoldMethod
    <3>3. Readable(C, C) /\ TableCovers(C, C, g, UnreadOf(f, g))
      BY <2>2, TableItself
    <3> QED
      BY <2>1, <2>2, <3>1, <3>2, <3>3 DEF kids
  <2>8. CASE ~(1 \in Given(C, g) /\ 2 \in Given(C, g))
    <3>1. Wanted(NameOf(f), kids) = AlarmRead
      BY <2>1, <2>4, <2>8, TwofoldWanted
    <3>2. g # NoGaps
      BY <2>3, <2>8 DEF NoGaps, Given
    <3> QED
      BY <2>1, <2>2, <3>1, <3>2, AlarmBMissed DEF kids
  <2> QED
    BY <2>7, <2>8
<1> QED
  BY <1>1, <1>2, <1>3, <1>4, <1>5, <1>6 DEF Twofold

\* A call of a command that the parser does not know.
LEMMA Unlisted ==
  ASSUME NEW g, Gaps(Calls["listMethods"], g), NEW n \in Nat
  PROVE  Parse(NameOf("listMethods"), Xml(Build(Calls["listMethods"], g, n))) = Rejected
<1> DEFINE C == Calls["listMethods"]
           P == Parse_CuRegister
           kids == Xml(Build(C, g, n))
<1>1. C = << >>
  <2>1. "listMethods" \in DOMAIN Calls /\ "listMethods" \notin DOMAIN Clients \cup DOMAIN Unserved
    BY Forms, FormsApart
  <2> QED
    BY <2>1, Forms DEF Calls
<1>2. Table(C)
  <2>1. Row(<< >>, {}, "param", << >>)
    BY EmptyRow
  <2> QED
    BY <1>1, <2>1, RowIsTable
<1>3. P = Call_CuRegister
  BY DEF Parse_CuRegister, Call_CuRegister
<1>4. Table(P)
  BY <1>3, CallTables
<1>5. 1 \in DOMAIN P /\ P[1].type = "string"
  BY DEF Parse_CuRegister, Strs, Str, Shape
<1>6. Wanted(NameOf("listMethods"), kids) = P
  <2>1. NameOf("listMethods") = "listMethods" /\ "listMethods" \notin DOMAIN Required \cup DOMAIN Unserved
    BY NamedOnce, Forms, FormsApart
  <2> QED
    BY <2>1 DEF Wanted
<1>7. DOMAIN C = {} /\ Gaps(C, g)
  BY <1>1
<1> HIDE DEF C, P
<1>8. Readable(P, C)
  BY <1>4, <1>7 DEF Readable, Table
<1>9. ~Present(P, C, g)
  BY <1>5, <1>7 DEF Present, There, Given
<1>10. All(ReadAll(kids, P)) = Rejected
  BY <1>2, <1>7, <1>8, <1>9, ReadCall
<1> QED
  BY <1>6, <1>10 DEF C, Parse

\* What is made of any other call.
LEMMA Parsing ==
  ASSUME NEW f \in DOMAIN Calls, f # "listMethods", NEW g, Gaps(Calls[f], g), NEW n \in Nat
  PROVE  LET values == Build(Calls[f], g, n)
             read == Parse(NameOf(f), Xml(values))
         IN /\ read # Rejected =>
                 /\ \A i \in DOMAIN read : read[i].type \in {"string", "int", "array", "struct"}
                 /\ Astray(read) = {} /\ Lost(values, read) \subseteq UnreadOf(f, g)
                 /\ dispatchCallLoc(NameOf(f), getSignature(read)) = HandlerOf(f, g)
            /\ g = NoGaps => /\ read # Rejected /\ Names(read) = Names(values)
                             /\ read = ReadAll(Xml(values), Wanted(NameOf(f), Xml(values)))
<1> DEFINE C == Calls[f]
           values == Build(C, g, n)
           kids == Xml(values)
           P == Wanted(NameOf(f), kids)
           read == ReadAll(kids, P)
<1>1. Received(f, g, C, P)
  BY Forms, PlainReceived, TwofoldReceived
<1>2. Parse(NameOf(f), kids) = All(read)
  BY DEF Parse
<1> HIDE DEF P
<1>3. Table(C) /\ Readable(P, C)
  BY <1>1 DEF Received
<1>4. /\ All(read) = Rejected <=> ~Present(P, C, g)
      /\ Present(P, C, g) => All(read) = read /\ getSignature(read) = Types(P)
      /\ (\A j \in DOMAIN P : There(P, j, C, g)) => Names(read) = Names(P)
  BY <1>3, ReadCall
<1>5. ASSUME Present(P, C, g)
      PROVE  /\ \A i \in DOMAIN read : read[i].type \in {"string", "int", "array", "struct"}
             /\ Astray(read) = {} /\ Lost(values, read) \subseteq UnreadOf(f, g)
             /\ dispatchCallLoc(NameOf(f), getSignature(read)) = HandlerOf(f, g)
  <2>1. TableCovers(P, C, g, UnreadOf(f, g)) /\ dispatchCallLoc(NameOf(f), Types(P)) = HandlerOf(f, g)
    BY <1>1, <1>5 DEF Received
  <2>2. Astray(read) = {}
    BY <1>3, NoneAstray
  <2>3. Lost(values, read) \subseteq UnreadOf(f, g)
    BY <1>3, <2>1, LostWithin
  <2>4. DOMAIN read = DOMAIN P /\ \A j \in DOMAIN read : read[j].type = P[j].type
    BY <1>3, <1>5, ReadTable DEF Present
  <2>5. \A j \in DOMAIN P : P[j].type \in {"string", "int", "array", "struct"}
    BY <1>3 DEF Readable, ParamShape, MemberShape, SimpleShape
  <2>6. dispatchCallLoc(NameOf(f), getSignature(read)) = HandlerOf(f, g)
    BY <1>4, <1>5, <2>1
  <2> HIDE DEF read, values
  <2> QED
    BY <2>2, <2>3, <2>4, <2>5, <2>6
<1>6. ASSUME g = NoGaps
      PROVE  Present(P, C, g) /\ Names(read) = Names(values)
  <2>1. Names(P) = Names(C)
    BY <1>1, <1>6 DEF Received
  <2>2. \A j \in DOMAIN P : There(P, j, C, g)
    BY <1>3, <1>6, <2>1, AllThere
  <2>3. Names(values) = Names(C)
    BY <1>3, <1>6, WholeCall
  <2> HIDE DEF read, values
  <2> QED
    BY <1>4, <2>1, <2>2, <2>3 DEF Present
<1> HIDE DEF read
<1>7. All(read) # Rejected => Present(P, C, g) /\ All(read) = read
  BY <1>4
<1> QED
  BY <1>2, <1>4, <1>5, <1>6, <1>7 DEF P, read

\* A field of the last parameter that its reader does not look for.
LEMMA LastLost ==
  ASSUME NEW B, IsSeq(B), NEW D, IsSeq(D), NEW x, NEW y, x.name = y.name,
         Table(B \o <<y>>), Distinct(D \o <<x>>), Readable(D \o <<x>>, B \o <<y>>),
         NEW nm \in NamesIn(y.fields), nm \notin NamesIn(x.fields), NEW n \in Nat,
         y.type = "struct" \/ (y.type = "array" /\ SimpleRow(y.fields) /\ n > 0)
  PROVE  LET C == B \o <<y>>
             P == D \o <<x>>
         IN  nm \in Lost(Build(C, NoGaps, n), ReadAll(Xml(Build(C, NoGaps, n)), P))
<1> DEFINE C == B \o <<y>>
           P == D \o <<x>>
           r == Len(B) + 1
           l == Len(D) + 1
<1>1. r \in DOMAIN C /\ C[r] = y
  BY LastOne
<1>2. l \in DOMAIN P /\ P[l] = x
  BY LastOne
<1> HIDE DEF C, P, r, l
<1>3. Table(C) /\ Distinct(P) /\ Readable(P, C)
  BY DEF C, P
<1>4. r \in Given(C, NoGaps) /\ Gaps(C, NoGaps)
  BY <1>1, <1>3, WholeCall, NoGapsAllowed
<1>5. PICK k \in DOMAIN y.fields : y.fields[k].name = nm
  BY DEF NamesIn
<1>6. \A j \in DOMAIN P : P[j].name = C[r].name =>
        \A m \in DOMAIN P[j].fields : P[j].fields[m].name # C[r].fields[k].name
  <2>1. \A j \in DOMAIN P : P[j].name = C[r].name => P[j] = x
    BY <1>1, <1>2, <1>3 DEF Distinct
  <2>2. \A m \in DOMAIN x.fields : x.fields[m].name # nm
    BY DEF NamesIn
  <2> QED
    BY <1>1, <1>5, <2>1, <2>2
<1> DEFINE lost == Lost(Build(C, NoGaps, n), ReadAll(Xml(Build(C, NoGaps, n)), P))
<1>7. CASE y.type = "struct"
  <2>1. C[r].type = "struct" /\ k \in DOMAIN C[r].fields
    BY <1>1, <1>7
  <2>2. C[r].fields[k].name \in lost
    BY <1>3, <1>4, <1>6, <2>1, LostMember
  <2> QED
    BY <1>1, <1>5, <2>2 DEF C, P
<1>8. CASE y.type = "array" /\ SimpleRow(y.fields) /\ n > 0
  <2>1. C[r].type = "array" /\ k \in DOMAIN C[r].fields /\ SimpleShape(C[r].fields[k])
    BY <1>1, <1>8 DEF SimpleRow
  <2>2. C[r].fields[k].name \in lost
    BY <1>3, <1>4, <1>6, <1>8, <2>1, LostField
  <2> QED
    BY <1>1, <1>5, <2>2 DEF C, P
<1> QED
  BY <1>7, <1>8

\* A list that is not empty.
LEMMA LastItems ==
  ASSUME NEW B, IsSeq(B), NEW y, Table(B \o <<y>>), y.type = "array", NEW n \in Nat,
         LET values == Build(B \o <<y>>, NoGaps, n)
         IN  \A i \in DOMAIN values : values[i].type = "array" => values[i].kids # << >>
  PROVE  n > 0
<1> SUFFICES ASSUME n = 0
             PROVE  FALSE
  OBVIOUS
<1> DEFINE C == B \o <<y>>
           r == Len(B) + 1
<1>1. r \in DOMAIN C /\ C[r] = y
  BY LastOne
<1>2. Table(C)
  OBVIOUS
<1> HIDE DEF C, r
<1>3. Build(C, NoGaps, n) = [i \in DOMAIN C |-> Fill(C[i], n)]
  BY <1>2, WholeCall
<1>4. Fill(y, n).type = "array" /\ Fill(y, n).kids = << >>
  <2>1. /\ Fill(y, n).type = "array"
        /\ Fill(y, n).kids = [i \in 1..n |-> FillItem(y.fields, Place(Top, y.name, 0), i)]
    BY DEF Fill, Val
  <2> DEFINE item(i) == FillItem(y.fields, Place(Top, y.name, 0), i)
  <2> HIDE DEF item
  <2>2. [i \in 1..0 |-> item(i)] = << >>
    OBVIOUS
  <2> QED
    BY <2>1, <2>2 DEF item
<1> QED
  BY <1>1, <1>3, <1>4 DEF C

\* What a parser does not look for is lost.
LEMMA HisQueryLost ==
  ASSUME NEW n \in Nat
  PROVE  LET C == Call_AlarmHisQuery
         IN "startTime" \in Lost(Build(C, NoGaps, n), ReadAll(Xml(Build(C, NoGaps, n)), Parse_AlarmHisQuery))
<1> DEFINE B == User \o Strs(<<"alarmId", "type">>) \o Nums(<<"queryLocation">>)
           ws == Strs(<<"starTime", "endTime">>)
           x == Struct("queryURL", ws)
           y == Struct("queryURL", Span)
<1>1. Row(B, {"cuId", "cuUserId"} \cup {"alarmId", "type"} \cup {"queryLocation"}, "param",
          S(2) \o S(2) \o N(1))
  BY Runs, StrsTwo, NumsOne, Joined
<1>2. IsSeq(B)
  BY <1>1 DEF Row
<1>3. NamesIn(ws) = {"starTime", "endTime"} /\ NamesIn(Span) = {"startTime", "endTime"}
  BY StrsTwo, Runs DEF Row
<1> HIDE DEF B, ws
<1>4. x.name = y.name /\ y.type = "struct" /\ x.fields = ws /\ y.fields = Span
  BY DEF Struct, Shape
<1> HIDE DEF x, y
<1>5. Call_AlarmHisQuery = B \o <<y>> /\ Parse_AlarmHisQuery = B \o <<x>>
  BY DEF Call_AlarmHisQuery, Parse_AlarmHisQuery, B, ws, x, y
<1>6. /\ Table(B \o <<y>>) /\ Distinct(B \o <<x>>) /\ Readable(B \o <<x>>, B \o <<y>>)
  BY <1>5, CallTables, OtherTables, HisQueryRead DEF Table
<1> DEFINE nm == "startTime"
<1>7. nm \in NamesIn(y.fields) /\ nm \notin NamesIn(x.fields)
  BY <1>3, <1>4
<1> HIDE DEF nm
<1>8. nm \in Lost(Build(B \o <<y>>, NoGaps, n), ReadAll(Xml(Build(B \o <<y>>, NoGaps, n)), B \o <<x>>))
  BY <1>2, <1>4, <1>6, <1>7, LastLost
<1> QED
  BY <1>5, <1>8 DEF nm

\* The end of an alarm, with at least one alarm in the list.
LEMMA AlarmsALost ==
  ASSUME NEW n \in Nat,
         LET values == Build(Call_ReportAlarmRes_A, NoGaps, n)
         IN  \A i \in DOMAIN values : values[i].type = "array" => values[i].kids # << >>
  PROVE  LET C == Call_ReportAlarmRes_A
         IN "endTime" \in Lost(Build(C, NoGaps, n), ReadAll(Xml(Build(C, NoGaps, n)), AlarmsRead))
<1> DEFINE ws == Strs(<<"id", "type", "startTime", "targetInfo">>)
                 \o Nums(<<"level", "state">>) \o Strs(<<"description">>)
           fs == Strs(<<"id", "type", "startTime", "endTime", "targetInfo">>)
                 \o Nums(<<"level", "state">>) \o Strs(<<"description">>)
           x == List("group", ws)
           y == List("group", fs)
           B == << >>
<1>1. Row(ws, {"id", "type", "startTime", "targetInfo"} \cup {"level", "state"} \cup {"description"},
          "simple", S(4) \o N(2) \o S(1))
  BY StrsOne, StrsFour, NumsTwo, Joined
<1>2. Row(fs, {"id", "type", "startTime", "endTime", "targetInfo"} \cup {"level", "state"}
              \cup {"description"}, "simple", S(5) \o N(2) \o S(1))
  BY StrsOne, StrsFive, NumsTwo, Joined
<1> HIDE DEF ws, fs
<1>3. SimpleRow(fs) /\ "endTime" \in NamesIn(fs) /\ "endTime" \notin NamesIn(ws)
  BY <1>1, <1>2, RowIsTable DEF Row
<1>4. x.name = y.name /\ y.type = "array" /\ x.fields = ws /\ y.fields = fs
  BY DEF List, Shape
<1> HIDE DEF x, y
<1>5. IsSeq(B) /\ Call_ReportAlarmRes_A = B \o <<y>> /\ AlarmsRead = B \o <<x>>
  BY NothingBefore DEF Call_ReportAlarmRes_A, AlarmsRead, Group, x, y, ws, fs
<1> HIDE DEF B
<1>6. /\ Table(B \o <<y>>) /\ Distinct(B \o <<x>>) /\ Readable(B \o <<x>>, B \o <<y>>)
  BY <1>5, CallTables, OtherTables, AlarmsARead DEF Table
<1>7. n > 0
  BY <1>4, <1>5, <1>6, LastItems
<1> DEFINE nm == "endTime"
<1>8. nm \in NamesIn(y.fields) /\ nm \notin NamesIn(x.fields)
  BY <1>3, <1>4
<1> HIDE DEF nm
<1>9. nm \in Lost(Build(B \o <<y>>, NoGaps, n), ReadAll(Xml(Build(B \o <<y>>, NoGaps, n)), B \o <<x>>))
  BY <1>3, <1>4, <1>5, <1>6, <1>7, <1>8, LastLost
<1> QED
  BY <1>5, <1>9 DEF nm

\* The state of an alarm, likewise.
LEMMA AlarmALost ==
  ASSUME NEW n \in Nat,
         LET values == Build(Call_QueryAlarmRes_A, NoGaps, n)
         IN  \A i \in DOMAIN values : values[i].type = "array" => values[i].kids # << >>
  PROVE  LET C == Call_QueryAlarmRes_A
         IN "state" \in Lost(Build(C, NoGaps, n), ReadAll(Xml(Build(C, NoGaps, n)), AlarmRead))
<1> DEFINE ws == Strs(<<"id", "type">>)
           fs == Strs(<<"id", "type", "state">>)
           x == List("group", ws)
           y == List("group", fs)
           B == User
<1>1. Row(ws, {"id", "type"}, "simple", S(2)) /\ Row(fs, {"id", "type", "state"}, "simple", S(3))
  BY StrsTwo, StrsThree
<1> HIDE DEF ws, fs
<1>3. SimpleRow(fs) /\ "state" \in NamesIn(fs) /\ "state" \notin NamesIn(ws)
  BY <1>1, RowIsTable DEF Row
<1>4. x.name = y.name /\ y.type = "array" /\ x.fields = ws /\ y.fields = fs
  BY DEF List, Shape
<1> HIDE DEF x, y
<1>5. IsSeq(B) /\ Call_QueryAlarmRes_A = B \o <<y>> /\ AlarmRead = B \o <<x>>
  BY Runs DEF Call_QueryAlarmRes_A, AlarmRead, Group, Row, x, y, ws, fs
<1> HIDE DEF B
<1>6. /\ Table(B \o <<y>>) /\ Distinct(B \o <<x>>) /\ Readable(B \o <<x>>, B \o <<y>>)
  BY <1>5, CallTables, OtherTables, AlarmARead DEF Table
<1>7. n > 0
  BY <1>4, <1>5, <1>6, LastItems
<1> DEFINE nm == "state"
<1>8. nm \in NamesIn(y.fields) /\ nm \notin NamesIn(x.fields)
  BY <1>3, <1>4
<1> HIDE DEF nm
<1>9. nm \in Lost(Build(B \o <<y>>, NoGaps, n),
                  ReadAll(Xml(Build(B \o <<y>>, NoGaps, n)), B \o <<x>>))
  BY <1>3, <1>4, <1>5, <1>6, <1>7, <1>8, LastLost
<1> QED
  BY <1>5, <1>9 DEF nm

\* What is looked for of the three forms that lose a field of a whole call.
LEMMA LossyForms ==
  ASSUME NEW n \in Nat
  PROVE  /\ Calls["AlarmHisQuery"] = Call_AlarmHisQuery
         /\ \A kids : Wanted(NameOf("AlarmHisQuery"), kids) = Parse_AlarmHisQuery
         /\ Wanted(NameOf("ReportAlarmRes_A"), Xml(Build(Call_ReportAlarmRes_A, NoGaps, n))) = AlarmsRead
         /\ Wanted(NameOf("QueryAlarmRes_A"), Xml(Build(Call_QueryAlarmRes_A, NoGaps, n))) = AlarmRead
<1>1. Calls["AlarmHisQuery"] = Call_AlarmHisQuery
  <2>1. "AlarmHisQuery" \in DOMAIN Clients
    BY Forms DEF Served
  <2>2. Clients["AlarmHisQuery"] = Call_AlarmHisQuery
    BY DEF Clients
  <2> QED
    BY <2>1, <2>2, Forms DEF Calls
<1>2. ASSUME NEW kids PROVE Wanted(NameOf("AlarmHisQuery"), kids) = Parse_AlarmHisQuery
  <2> DEFINE f == "AlarmHisQuery"
  <2>1. f \in Served /\ Required[f] = Parse_AlarmHisQuery
    BY DEF Served, Required
  <2> HIDE DEF f
  <2>2. NameOf(f) = f /\ f \notin {"ReportAlarmRes", "QueryAlarmRes", "ReportCamResState", "GetCamResState"}
    BY <2>1, NamedOnce, FormsApart
  <2>3. Wanted(NameOf(f), kids) = Required[f]
    BY <2>1, <2>2, Forms, FormsApart DEF Wanted
  <2> QED
    BY <2>1, <2>3 DEF f
<1>3. ASSUME NEW C \in {Call_ReportAlarmRes_A, Call_QueryAlarmRes_A}
      PROVE  ~Has(Xml(Build(C, NoGaps, n)), "muId") /\ ~Has(Xml(Build(C, NoGaps, n)), "muName")
  <2>1. Table(C)
    BY CallTables
  <2>2. (\A i \in DOMAIN C : C[i].name # "muId") /\ \A i \in DOMAIN C : C[i].name # "muName"
    BY TwofoldParams
  <2> QED
    BY <2>1, <2>2, NoGapsAllowed, Asked
<1> QED
  BY <1>1, <1>2, <1>3, TwofoldForms, TwofoldWanted

\* Of a whole call it is lost for certain, but from a list without items.
LEMMA LosingAll ==
  ASSUME NEW f \in DOMAIN Calls, f # "listMethods", NEW n \in Nat,
         LET values == Build(Calls[f], NoGaps, n)
         IN  \A i \in DOMAIN values : values[i].type = "array" => values[i].kids # << >>
  PROVE  LET values == Build(Calls[f], NoGaps, n)
         IN  Lost(values, Parse(NameOf(f), Xml(values))) = UnreadOf(f, NoGaps)
<1> DEFINE values == Build(Calls[f], NoGaps, n)
           read == Parse(NameOf(f), Xml(values))
           u == UnreadOf(f, NoGaps)
<1>1. read = ReadAll(Xml(values), Wanted(NameOf(f), Xml(values))) /\ Lost(values, read) \subseteq u
  BY NoGapsAllowed, Parsing
<1>2. CASE f = "AlarmHisQuery"
  <2>1. u = {"startTime"}
    BY <1>2 DEF UnreadOf
  <2>2. Calls[f] = Call_AlarmHisQuery /\ Wanted(NameOf(f), Xml(values)) = Parse_AlarmHisQuery
    BY <1>2, LossyForms
  <2>3. "startTime" \in Lost(values, read)
    BY <1>1, <2>2, HisQueryLost
  <2> QED
    BY <1>1, <2>1, <2>3
<1>3. CASE f = "ReportAlarmRes_A"
  <2>1. u = {"endTime"}
    BY <1>3 DEF UnreadOf
  <2>2. Calls[f] = Call_ReportAlarmRes_A
    BY <1>3, TwofoldForms
  <2>3. Wanted(NameOf(f), Xml(values)) = AlarmsRead
    BY <1>3, <2>2, LossyForms
  <2>4. "endTime" \in Lost(values, read)
    BY <1>1, <2>2, <2>3, AlarmsALost
  <2> QED
    BY <1>1, <2>1, <2>4
<1>4. CASE f = "QueryAlarmRes_A"
  <2>1. u = {"state"}
    BY <1>4 DEF UnreadOf
  <2>2. Calls[f] = Call_QueryAlarmRes_A
    BY <1>4, TwofoldForms
  <2>3. Wanted(NameOf(f), Xml(values)) = AlarmRead
    BY <1>4, <2>2, LossyForms
  <2>4. "state" \in Lost(values, read)
    BY <1>1, <2>2, <2>3, AlarmALost
  <2> QED
    BY <1>1, <2>1, <2>4
<1>5. CASE f \notin {"AlarmHisQuery", "ReportAlarmRes_A", "QueryAlarmRes_A"}
  <2>1. ~Taken(f, NoGaps)
    BY DEF Taken, NoGaps
  <2>2. u = {}
    BY <1>5, <2>1 DEF UnreadOf
  <2> QED
    BY <1>1, <2>2
<1> QED
  BY <1>2, <1>3, <1>4, <1>5

-----------------------------------------------------------------------------
(* Answers.                                                                *)

Answered(a) == [i \in DOMAIN a.shapes |-> Fill(a.shapes[i], a.items)]
Taking(kids, R) == IF kids = << >> THEN << >> ELSE ReadAll(kids, R)

\* Of an answer a that is read as R, the texts named in G and no others are
\* lost, and none has gone astray.
Delivers(a, R, G) ==
  LET values == Answered(a)
      read   == Taking(Xml(values), R)
  IN  Astray(read) = {} /\ Lost(values, read) = G

\* A reader of everything delivers everything.
LEMMA Delivery ==
  ASSUME NEW a, a.items \in Nat, Table(a.shapes), NEW R, Readable(R, a.shapes),
         NEW G, TableCovers(R, a.shapes, NoGaps, G),
         G # {} => LET values == Build(a.shapes, NoGaps, a.items)
                   IN  DOMAIN a.shapes # {} /\ G \subseteq Lost(values, ReadAll(Xml(values), R))
  PROVE  Delivers(a, R, G)
<1> DEFINE T == a.shapes
           n == a.items
           values == Build(T, NoGaps, n)
           read == ReadAll(Xml(values), R)
<1> HIDE DEF T, n
<1>1. Table(T) /\ Readable(R, T) /\ TableCovers(R, T, NoGaps, G) /\ n \in Nat /\ Gaps(T, NoGaps)
  BY NoGapsAllowed DEF T, n
<1>2. Astray(read) = {}
  BY <1>1, NoneAstray
<1>3. Lost(values, read) \subseteq G
  BY <1>1, LostWithin
<1>4. values = [i \in DOMAIN T |-> Fill(T[i], n)]
  BY <1>1, WholeCall
<1>5. G # {} => DOMAIN T # {} /\ G \subseteq Lost(values, read)
  BY DEF T, n
<1>6. Answered(a) = values
  BY <1>4 DEF Answered, T, n
<1> HIDE DEF values
<1>7. DOMAIN Xml(values) = DOMAIN T
  BY <1>4 DEF Xml
<1>8. CASE Xml(values) = << >>
  <2>1. DOMAIN T = {} /\ DOMAIN values = {}
    BY <1>4, <1>7, <1>8
  <2>2. Taking(Xml(values), R) = << >>
    BY <1>8 DEF Taking
  <2>3. TextsOf(values) = {} /\ TextsOf(<< >>) = {}
    BY <2>1 DEF TextsOf
  <2>4. Lost(values, << >>) = {} /\ Astray(<< >>) = {}
    BY <2>3 DEF Lost, Filled, Astray
  <2> QED
    BY <1>5, <1>6, <2>1, <2>2, <2>4 DEF Delivers
<1>9. CASE Xml(values) # << >>
  <2>1. Taking(Xml(values), R) = read
    BY <1>9 DEF Taking
  <2> QED
    BY <1>2, <1>3, <1>5, <1>6, <2>1 DEF Delivers
<1> QED
  BY <1>8, <1>9

\* The commands whose answers are read as they are written.
Echoed ==
  {"CuRegister", "CuKeepAlive", "GetDepResList", "GetVideoResList", "GetAlarmResList",
   "QueryAlarmInfo", "PTZCtrl", "PlayOpen", "PlayStart", "HisPlayOpen", "HisLoadOpen",
   "HisLoadStart", "PlayClose", "PlayCtrl"}

\* What is read as it is written is delivered.
LEMMA Itself ==
  ASSUME NEW a, a.items \in Nat, Table(a.shapes)
  PROVE  Delivers(a, a.shapes, {})
<1> DEFINE T == a.shapes
<1>1. Table(T)
  OBVIOUS
<1> HIDE DEF T
<1>2. Readable(T, T) /\ TableCovers(T, T, NoGaps, {})
  BY <1>1, TableItself
<1> QED
  BY <1>2, Delivery DEF T

\* A handler's lists have a number of items.
LEMMA Items ==
  \A h \in DOMAIN Handlers : Handlers[h].items \in Nat
<1>1. Fault.items \in Nat /\ \A shapes, n : Answer(shapes, n).items = n
  BY DEF Fault, Answer
<1>2. /\ Answer_CuRegister.items \in Nat
      /\ Answer_CuKeepAlive.items \in Nat
      /\ Answer_GetDepResList.items \in Nat
      /\ Answer_GetVideoResList.items \in Nat
      /\ Answer_GetAlarmResList.items \in Nat
      /\ Answer_QueryAlarmInfo.items \in Nat
      /\ Answer_AlarmHisQuery.items \in Nat
      /\ Answer_PTZCtrl.items \in Nat
      /\ Answer_PlayQuery.items \in Nat
      /\ Answer_PlayOpen.items \in Nat
      /\ Answer_PlayStart.items \in Nat
      /\ Answer_HisPlayOpen.items \in Nat
      /\ Answer_HisPlayStart.items \in Nat
      /\ Answer_HisLoadOpen.items \in Nat
      /\ Answer_HisLoadStart.items \in Nat
      /\ Answer_PlayClose.items \in Nat
      /\ Answer_PlayCtrl.items \in Nat
      /\ Answer_ReportAlarmRes_A.items \in Nat
      /\ Answer_ReportCamResState_A.items \in Nat
      /\ Answer_ReportAlarmRes_B.items \in Nat
      /\ Answer_ReportCamResState_B.items \in Nat
      /\ Answer_QueryAlarmRes_B.items \in Nat
      /\ Answer_MUKeepAlive.items \in Nat
  BY <1>1 DEF Answer_CuRegister, Answer_CuKeepAlive, Answer_GetDepResList,
     Answer_GetVideoResList, Answer_GetAlarmResList, Answer_QueryAlarmInfo, Answer_AlarmHisQuery,
     Answer_PTZCtrl, Answer_PlayQuery, Answer_PlayOpen, Answer_PlayStart, Answer_HisPlayOpen,
     Answer_HisPlayStart, Answer_HisLoadOpen, Answer_HisLoadStart, Answer_PlayClose,
     Answer_PlayCtrl, Answer_ReportAlarmRes_A, Answer_ReportCamResState_A, Answer_ReportAlarmRes_B,
     Answer_ReportCamResState_B, Answer_QueryAlarmRes_B, Answer_MUKeepAlive
<1>3. /\ Handlers["CuRegister"] = Answer_CuRegister
      /\ Handlers["CuKeepAlive"] = Answer_CuKeepAlive
      /\ Handlers["GetDepResList"] = Answer_GetDepResList
      /\ Handlers["GetVideoResList"] = Answer_GetVideoResList
      /\ Handlers["GetAlarmResList"] = Answer_GetAlarmResList
      /\ Handlers["QueryAlarmInfo"] = Answer_QueryAlarmInfo
      /\ Handlers["AlarmHisQuery"] = Answer_AlarmHisQuery
      /\ Handlers["PTZCtrl"] = Answer_PTZCtrl
      /\ Handlers["PlayQuery"] = Answer_PlayQuery
      /\ Handlers["PlayOpen"] = Answer_PlayOpen
      /\ Handlers["PlayStart"] = Answer_PlayStart
      /\ Handlers["HisPlayOpen"] = Answer_HisPlayOpen
      /\ Handlers["HisPlayStart"] = Answer_HisPlayStart
      /\ Handlers["HisLoadOpen"] = Answer_HisLoadOpen
      /\ Handlers["HisLoadStart"] = Answer_HisLoadStart
      /\ Handlers["PlayClose"] = Answer_PlayClose
      /\ Handlers["PlayCtrl"] = Answer_PlayCtrl
      /\ Handlers["ReportAlarmRes_A"] = Answer_ReportAlarmRes_A
      /\ Handlers["ReportCamResState_A"] = Answer_ReportCamResState_A
      /\ Handlers["ReportAlarmRes_B"] = Answer_ReportAlarmRes_B
      /\ Handlers["ReportCamResState_B"] = Answer_ReportCamResState_B
      /\ Handlers["QueryAlarmRes_B"] = Answer_QueryAlarmRes_B
      /\ Handlers["MUKeepAlive"] = Answer_MUKeepAlive
  BY DEF Handlers
<1> QED
  BY <1>2, <1>3, HandlerForms DEF Served, Twofold

\* Their answers' and results' tables are the same.
LEMMA EchoedAnswers ==
  \A f \in Echoed :
     /\ Table(Handlers[f].shapes) /\ Results[f].shapes = Handlers[f].shapes
     /\ Results[f].name = IF f \in DOMAIN Misnamed THEN Misnamed[f] ELSE f
<1>1. \A shapes, n, nm : Answer(shapes, n).shapes = shapes /\ Response(nm, shapes).shapes = shapes
                         /\ Response(nm, shapes).name = nm
  BY DEF Answer, Response
<1>2. /\ Result_CuRegister.shapes = Answer_CuRegister.shapes
      /\ Result_CuKeepAlive.shapes = Answer_CuKeepAlive.shapes
      /\ Result_GetDepResList.shapes = Answer_GetDepResList.shapes
      /\ Result_GetVideoResList.shapes = Answer_GetVideoResList.shapes
      /\ Result_GetAlarmResList.shapes = Answer_GetAlarmResList.shapes
      /\ Result_QueryAlarmInfo.shapes = Answer_QueryAlarmInfo.shapes
      /\ Result_PTZCtrl.shapes = Answer_PTZCtrl.shapes
      /\ Result_PlayOpen.shapes = Answer_PlayOpen.shapes
      /\ Result_PlayStart.shapes = Answer_PlayStart.shapes
      /\ Result_HisPlayOpen.shapes = Answer_HisPlayOpen.shapes
      /\ Result_HisLoadOpen.shapes = Answer_HisLoadOpen.shapes
      /\ Result_HisLoadStart.shapes = Answer_HisLoadStart.shapes
      /\ Result_PlayClose.shapes = Answer_PlayClose.shapes
      /\ Result_PlayClose.shapes = Answer_PlayCtrl.shapes
  BY <1>1 DEF Answer_CuKeepAlive, Answer_CuRegister, Answer_GetAlarmResList,
     Answer_GetDepResList, Answer_GetVideoResList, Answer_HisLoadOpen, Answer_HisLoadStart,
     Answer_HisPlayOpen, Answer_PTZCtrl, Answer_PlayClose, Answer_PlayCtrl, Answer_PlayOpen,
     Answer_PlayStart, Answer_QueryAlarmInfo, Result_CuKeepAlive, Result_CuRegister,
     Result_GetAlarmResList, Result_GetDepResList, Result_GetVideoResList, Result_HisLoadOpen,
     Result_HisLoadStart, Result_HisPlayOpen, Result_PTZCtrl, Result_PlayClose, Result_PlayOpen,
     Result_PlayStart, Result_QueryAlarmInfo
<1>3. /\ Result_CuKeepAlive.name = "keepAlivePeriod"
      /\ Result_CuRegister.name = "CuRegister"
      /\ Result_GetAlarmResList.name = "GetAlarmResList"
      /\ Result_GetDepResList.name = "GetDepResList"
      /\ Result_GetVideoResList.name = "GetVideoResList"
      /\ Result_HisLoadOpen.name = "HisLoadOpen"
      /\ Result_HisLoadStart.name = "HisLoadStart"
      /\ Result_HisPlayOpen.name = "HisPlayOpen"
      /\ Result_PTZCtrl.name = "PTZCtrl"
      /\ Result_PlayClose.name = "PlayClose"
      /\ Result_PlayOpen.name = "PlayOpen"
      /\ Result_PlayStart.name = "PlayStart"
      /\ Result_QueryAlarmInfo.name = "QueryAlarmInfo"
  BY <1>1 DEF Result_CuKeepAlive, Result_CuRegister, Result_GetAlarmResList,
     Result_GetDepResList, Result_GetVideoResList, Result_HisLoadOpen, Result_HisLoadStart,
     Result_HisPlayOpen, Result_PTZCtrl, Result_PlayClose, Result_PlayOpen, Result_PlayStart,
     Result_QueryAlarmInfo
<1>4. /\ Handlers["CuRegister"] = Answer_CuRegister /\ Results["CuRegister"] = Result_CuRegister
      /\ Handlers["CuKeepAlive"] = Answer_CuKeepAlive /\ Results["CuKeepAlive"] = Result_CuKeepAlive
      /\ Handlers["GetDepResList"] = Answer_GetDepResList
      /\ Results["GetDepResList"] = Result_GetDepResList
      /\ Handlers["GetVideoResList"] = Answer_GetVideoResList
      /\ Results["GetVideoResList"] = Result_GetVideoResList
      /\ Handlers["GetAlarmResList"] = Answer_GetAlarmResList
      /\ Results["GetAlarmResList"] = Result_GetAlarmResList
      /\ Handlers["QueryAlarmInfo"] = Answer_QueryAlarmInfo
      /\ Results["QueryAlarmInfo"] = Result_QueryAlarmInfo
      /\ Handlers["PTZCtrl"] = Answer_PTZCtrl /\ Results["PTZCtrl"] = Result_PTZCtrl
      /\ Handlers["PlayOpen"] = Answer_PlayOpen /\ Results["PlayOpen"] = Result_PlayOpen
      /\ Handlers["PlayStart"] = Answer_PlayStart /\ Results["PlayStart"] = Result_PlayStart
      /\ Handlers["HisPlayOpen"] = Answer_HisPlayOpen /\ Results["HisPlayOpen"] = Result_HisPlayOpen
      /\ Handlers["HisLoadOpen"] = Answer_HisLoadOpen /\ Results["HisLoadOpen"] = Result_HisLoadOpen
      /\ Handlers["HisLoadStart"] = Answer_HisLoadStart
      /\ Results["HisLoadStart"] = Result_HisLoadStart
      /\ Handlers["PlayClose"] = Answer_PlayClose /\ Results["PlayClose"] = Result_PlayClose
      /\ Handlers["PlayCtrl"] = Answer_PlayCtrl /\ Results["PlayCtrl"] = Result_PlayClose
  BY DEF Handlers, Results
<1>5. /\ DOMAIN Misnamed = {"HisPlayStart", "PlayCtrl", "CuKeepAlive"}
      /\ Misnamed["PlayCtrl"] = "PlayClose" /\ Misnamed["CuKeepAlive"] = "keepAlivePeriod"
  BY DEF Misnamed
<1>6. \A f \in Echoed : Results[f].shapes = Handlers[f].shapes
  BY <1>2, <1>4 DEF Echoed
<1>7. \A f \in Echoed : Table(Handlers[f].shapes)
  BY <1>4, AnswerTables DEF Echoed
<1>8. \A f \in Echoed : Results[f].name = IF f \in DOMAIN Misnamed THEN Misnamed[f] ELSE f
  BY <1>3, <1>4, <1>5 DEF Echoed
<1> QED
  BY <1>6, <1>7, <1>8

\* The sessionId that HisPlayStart answers is read as one of five strings.
LEMMA SessionDelivered == Delivers(Answer_HisPlayStart, Result_HisPlayOpen.shapes, {})
<1> DEFINE a == Answer_HisPlayStart
<1>1. a.items \in Nat /\ a.shapes = Session /\ Result_HisPlayOpen.shapes = Opened
  BY DEF Answer_HisPlayStart, Answer, Result_HisPlayOpen, Response
<1>2. Row(Session, {"sessionId"}, "simple", S(1))
  BY Runs
<1>3. Row(Opened, {"cuId", "resId", "sessionId", "tcpIp", "tcpPort"}, "simple", S(5))
  BY Runs
<1>4. SimpleRow(Session) /\ SimpleRow(Opened) /\ NamesIn(Session) \subseteq NamesIn(Opened)
  BY <1>2, <1>3, RowIsTable DEF Row
<1>5. Table(Session) /\ \A j \in DOMAIN Opened : ParamShape(Opened[j])
  BY <1>4 DEF SimpleRow, Table, ParamShape, MemberShape
<1>6. Readable(Opened, Session)
  BY <1>4, <1>5 DEF Readable, Fits, MemberFits, SimpleRow
<1>7. TableCovers(Opened, Session, NoGaps, {})
  <2> SUFFICES ASSUME NEW i \in Given(Session, NoGaps)
               PROVE  \E j \in DOMAIN Opened :
                         Opened[j].name = Session[i].name /\ Covers(Opened[j], Session[i], {})
    BY DEF TableCovers
  <2>1. i \in DOMAIN Session
    BY DEF Given
  <2>2. PICK j \in DOMAIN Opened : Opened[j].name = Session[i].name
    BY <1>4, <2>1 DEF NamesIn
  <2>3. Session[i].type # "array" /\ Session[i].type # "struct"
    BY <1>4, <2>1 DEF SimpleRow, SimpleShape
  <2> QED
    BY <2>2, <2>3 DEF Covers, MemberCovers
<1> HIDE DEF a
<1> QED
  BY <1>1, <1>5, <1>6, <1>7, Delivery DEF a

\* The alarms of AlarmHisQuery, without their description.
LEMMA HistoryDelivered == Delivers(Answer_AlarmHisQuery, Result_AlarmHisQuery.shapes, {"description"})
<1> DEFINE a == Answer_AlarmHisQuery
           fs == Strs(<<"alarmId", "type", "description", "alarmStartTime",
                        "alarmEndTime", "resId", "startTime", "endTime", "size">>)
           ws == Strs(<<"alarmId", "type", "alarmStartTime", "alarmEndTime",
                        "resId", "startTime", "endTime", "size">>)
           x == List("group", ws)
           y == List("group", fs)
           B == Totals
           G == {"description"}
<1>1. Row(fs, {"alarmId", "type", "description", "alarmStartTime", "alarmEndTime", "resId",
               "startTime", "endTime", "size"}, "simple", S(9))
  BY StrsNine
<1>2. Row(ws, {"alarmId", "type", "alarmStartTime", "alarmEndTime", "resId", "startTime",
               "endTime", "size"}, "simple", S(8))
  BY StrsEight
<1> HIDE DEF fs, ws
<1>3. SimpleRow(ws) /\ SimpleRow(fs) /\ NamesIn(fs) \ G \subseteq NamesIn(ws)
  BY <1>1, <1>2, RowIsTable DEF Row
<1>4. "description" \in NamesIn(fs) /\ "description" \notin NamesIn(ws)
  BY <1>1, <1>2 DEF Row
<1>5. MemberRow(ws) /\ RowFits(ws, fs) /\ RowCovers(ws, fs, G)
  BY <1>3, SimpleRows DEF MemberRow, SimpleRow, MemberShape
<1> HIDE DEF G
<1>6. ParamShape(x) /\ x.name = y.name /\ Fits(x, y) /\ Covers(x, y, G)
  BY <1>5, ListCovers
<1>7. y.type = "array" /\ x.fields = ws /\ y.fields = fs /\ x.name = "group" /\ y.name = "group"
  BY DEF List, Shape
<1> HIDE DEF x, y
<1>8. IsSeq(B)
  BY Runs DEF Row
<1>9. a.items = 1 /\ a.shapes = B \o <<y>> /\ Result_AlarmHisQuery.shapes = B \o <<x>>
  BY DEF Answer_AlarmHisQuery, Result_AlarmHisQuery, Answer, Response, Group, x, y, fs, ws
<1>10. Table(a.shapes)
  BY AnswerTables
<1> HIDE DEF B, a
<1>11. Table(B \o <<y>>)
  BY <1>9, <1>10
<1>12. Readable(B \o <<x>>, B \o <<y>>) /\ TableCovers(B \o <<x>>, B \o <<y>>, NoGaps, G)
  BY <1>6, <1>8, <1>11, SameButLast
<1>13. Distinct(B \o <<x>>)
  <2>1. \A j \in DOMAIN (B \o <<x>>) : (B \o <<x>>)[j].name = (B \o <<y>>)[j].name
    BY <1>7, <1>8, LastOne
  <2>2. DOMAIN (B \o <<x>>) = DOMAIN (B \o <<y>>)
    BY <1>8, LastOne
  <2> QED
    BY <1>11, <2>1, <2>2 DEF Table, Distinct
<1> DEFINE nm == "description"
           values == Build(B \o <<y>>, NoGaps, 1)
<1>14. nm \in NamesIn(y.fields) /\ nm \notin NamesIn(x.fields)
  BY <1>4, <1>7
<1> HIDE DEF nm
<1>15. nm \in Lost(values, ReadAll(Xml(values), B \o <<x>>))
  BY <1>3, <1>6, <1>7, <1>8, <1>11, <1>12, <1>13, <1>14, LastLost
<1>16. DOMAIN (B \o <<y>>) # {}
  BY <1>8, LastOne
<1>17. G \subseteq Lost(values, ReadAll(Xml(values), B \o <<x>>))
  BY <1>15 DEF G, nm
<1>18. Delivers(a, B \o <<x>>, G)
  <2> DEFINE T == B \o <<y>>
             R == B \o <<x>>
             read == ReadAll(Xml(Build(T, NoGaps, 1)), R)
  <2>1. /\ a.items = 1 /\ a.shapes = T /\ Table(T) /\ Readable(R, T) /\ TableCovers(R, T, NoGaps, G)
        /\ DOMAIN T # {} /\ G \subseteq Lost(Build(T, NoGaps, 1), read)
    BY <1>9, <1>11, <1>12, <1>16, <1>17
  <2> HIDE DEF T, R
  <2>2. /\ a.items \in Nat
        /\ G \subseteq Lost(Build(a.shapes, NoGaps, a.items),
                          ReadAll(Xml(Build(a.shapes, NoGaps, a.items)), R))
    BY <2>1
  <2>3. Table(a.shapes) /\ Readable(R, a.shapes) /\ TableCovers(R, a.shapes, NoGaps, G) /\ DOMAIN a.shapes # {}
    BY <2>1
  <2>4. Delivers(a, R, G)
    BY <2>2, <2>3, Delivery
  <2> QED
    BY <2>4 DEF R
<1> QED
  BY <1>9, <1>18 DEF G, a

\* Parameters that are read as they are written, and others that are not read.
LEMMA SomeRead ==
  ASSUME NEW T, Table(T), NEW R, \A j \in DOMAIN R : \E i \in DOMAIN T : R[j] = T[i],
         NEW G, \A i \in DOMAIN T : Spared(T[i], G) \/ \E j \in DOMAIN R : R[j] = T[i]
  PROVE  Readable(R, T) /\ \A g : TableCovers(R, T, g, G)
<1>1. \A i \in DOMAIN T : ParamShape(T[i])
  BY DEF Table
<1>2. \A i \in DOMAIN T : Fits(T[i], T[i]) /\ Covers(T[i], T[i], G)
  BY <1>1, FitsItself
<1>3. \A j \in DOMAIN R : ParamShape(R[j])
  BY <1>1
<1>4. ASSUME NEW j \in DOMAIN R, NEW i \in DOMAIN T, R[j].name = T[i].name
      PROVE  R[j] = T[i]
  BY <1>4 DEF Table, Distinct
<1> QED
  BY <1>2, <1>3, <1>4 DEF Readable, TableCovers, Given

\* The records of PlayQuery, without the resId before them.
LEMMA RecordsDelivered == Delivers(Answer_PlayQuery, Result_PlayQuery.shapes, {"resId"})
<1> DEFINE a == Answer_PlayQuery
           y == Struct("recoderURL", Strs(<<"startTime", "endTime", "size">>))
           F == Strs(<<"resId">>)
           B == F \o Totals
           T == B \o <<y>>
           R == Totals \o <<y>>
           G == {"resId"}
<1>1. Row(F, {"resId"}, "simple", S(1)) /\ Row(Totals, {"totalNumber", "currentNumber"}, "simple", N(2))
  BY StrsOne, Runs
<1>2. y.name = "recoderURL"
  BY DEF Struct, Shape
<1>3. a.items = 0 /\ a.shapes = T /\ Result_PlayQuery.shapes = R
  BY DEF Answer_PlayQuery, Result_PlayQuery, Answer, Response
<1>4. Table(a.shapes)
  BY AnswerTables
<1> HIDE DEF a, y
<1>5. DOMAIN F = {1} /\ F[1].name = "resId" /\ SimpleShape(F[1])
  BY DEF Strs, Str, Shape, SimpleShape
<1>6. IsSeq(F) /\ IsSeq(Totals) /\ \A j \in DOMAIN Totals : Totals[j].name \in {"totalNumber", "currentNumber"}
  BY <1>1 DEF Row, NamesIn
<1> HIDE DEF F
<1>7. Len(F) = 1
  <2>1. 1..Len(F) = {1} /\ Len(F) \in Nat
    BY <1>5, <1>6, Counting
  <2>2. \A m \in Nat : 1..m = {1} => m = 1
    OBVIOUS
  <2> QED
    BY <2>1, <2>2
<1>8. /\ IsSeq(B) /\ Len(Totals) \in Nat /\ DOMAIN Totals = 1..Len(Totals)
      /\ DOMAIN B = 1..(1 + Len(Totals)) /\ B[1] = F[1]
      /\ \A i \in DOMAIN Totals : B[i + 1] = Totals[i]
  <2> DEFINE l == Len(Totals)
  <2>1. /\ IsSeq(B) /\ l \in Nat /\ DOMAIN Totals = 1..l /\ DOMAIN B = 1..(1 + l)
        /\ \A i \in 1..(1 + l) : B[i] = IF i <= 1 THEN F[i] ELSE Totals[i - 1]
    BY <1>6, <1>7, Chained
  <2> HIDE DEF B, l
  <2>2. B[1] = F[1]
    BY <2>1
  <2>3. \A i \in 1..l : B[i + 1] = Totals[i]
    BY <2>1
  <2> QED
    BY <2>1, <2>2, <2>3 DEF l
<1> HIDE DEF B
<1>9. /\ DOMAIN T = 1..(Len(B) + 1) /\ DOMAIN B = 1..Len(B) /\ Len(B) \in Nat
      /\ T[Len(B) + 1] = y /\ \A i \in DOMAIN B : T[i] = B[i]
  BY <1>8, LastOne
<1>10. /\ DOMAIN R = 1..(Len(Totals) + 1) /\ R[Len(Totals) + 1] = y
       /\ \A i \in DOMAIN Totals : R[i] = Totals[i]
  BY <1>6, LastOne
<1> HIDE DEF T, R
<1>11. \A j \in DOMAIN R : \E i \in DOMAIN T : R[j] = T[i]
  <2> SUFFICES ASSUME NEW j \in DOMAIN R
               PROVE  \E i \in DOMAIN T : R[j] = T[i]
    OBVIOUS
  <2>1. CASE j \in DOMAIN Totals
    <3>1. j + 1 \in DOMAIN B /\ B[j + 1] = R[j]
      BY <1>8, <1>10, <2>1
    <3>2. j + 1 \in DOMAIN T /\ T[j + 1] = R[j]
      BY <1>9, <3>1
    <3> QED
      BY <3>2
  <2>2. CASE j = Len(Totals) + 1
    <3>1. Len(B) + 1 \in DOMAIN T
      BY <1>9
    <3> QED
      BY <1>9, <1>10, <2>2, <3>1
  <2> QED
    BY <1>8, <1>10, <2>1, <2>2
<1>12. \A i \in DOMAIN T : Spared(T[i], G) \/ \E j \in DOMAIN R : R[j] = T[i]
  <2> SUFFICES ASSUME NEW i \in DOMAIN T
               PROVE  Spared(T[i], G) \/ \E j \in DOMAIN R : R[j] = T[i]
    OBVIOUS
  <2>1. CASE i = 1
    <3>1. T[i] = F[1]
      BY <1>8, <1>9, <2>1
    <3> QED
      BY <1>5, <3>1 DEF Spared
  <2>2. CASE i \in DOMAIN B /\ i # 1
    <3>1. i - 1 \in DOMAIN Totals /\ i = (i - 1) + 1
      BY <1>8, <2>2
    <3>2. B[i] = Totals[i - 1]
      BY <1>8, <3>1
    <3>3. i - 1 \in DOMAIN R /\ R[i - 1] = T[i]
      BY <1>8, <1>9, <1>10, <2>2, <3>1, <3>2
    <3> QED
      BY <3>3
  <2>3. CASE i = Len(B) + 1
    <3>1. Len(Totals) + 1 \in DOMAIN R
      BY <1>8, <1>10
    <3> QED
      BY <1>9, <1>10, <2>3, <3>1
  <2> QED
    BY <1>9, <2>1, <2>2, <2>3
<1>13. 1 \in DOMAIN T /\ T[1] = F[1]
  BY <1>8, <1>9
<1>14. \A j \in DOMAIN R : R[j].name # "resId"
  BY <1>2, <1>6, <1>8, <1>10
<1> HIDE DEF G
<1>15. Table(T) /\ Gaps(T, NoGaps) /\ Readable(R, T) /\ TableCovers(R, T, NoGaps, G)
  BY <1>3, <1>4, <1>11, <1>12, SomeRead, NoGapsAllowed
<1> DEFINE values == Build(T, NoGaps, 0)
<1>16. "resId" \in Lost(values, ReadAll(Xml(values), R))
  <2>1. 1 \in Given(T, NoGaps)
    BY <1>13, <1>15, WholeCall
  <2>2. T[1].name = "resId" /\ SimpleShape(T[1])
    BY <1>5, <1>13
  <2>3. \A j \in DOMAIN R : R[j].name # T[1].name
    BY <1>14, <2>2
  <2>4. T[1].name \in Lost(values, ReadAll(Xml(values), R))
    BY <1>15, <2>1, <2>2, <2>3, LostParam
  <2> QED
    BY <2>2, <2>4
<1>17. G \subseteq Lost(values, ReadAll(Xml(values), R)) /\ DOMAIN T # {}
  BY <1>13, <1>16 DEF G
<1>18. Delivers(a, R, G)
  BY <1>3, <1>15, <1>17, Delivery
<1> QED
  BY <1>3, <1>18 DEF G, a

\* Two rows that end in the same struct.
LEMMA RowsWith ==
  ASSUME NEW ws, IsSeq(ws), NEW fs, IsSeq(fs), RowFits(ws, fs), RowCovers(ws, fs, {}), NEW y,
         y.type = "struct", SimpleRow(y.fields), y.name \notin NamesIn(ws), y.name \notin NamesIn(fs)
  PROVE  RowFits(ws \o <<y>>, fs \o <<y>>) /\ RowCovers(ws \o <<y>>, fs \o <<y>>, {})
<1> DEFINE V == ws \o <<y>>
           F == fs \o <<y>>
<1>1. /\ Len(ws) \in Nat /\ DOMAIN ws = 1..Len(ws) /\ DOMAIN V = 1..(Len(ws) + 1)
      /\ V[Len(ws) + 1] = y /\ \A i \in DOMAIN ws : V[i] = ws[i]
  BY LastOne
<1>2. /\ Len(fs) \in Nat /\ DOMAIN fs = 1..Len(fs) /\ DOMAIN F = 1..(Len(fs) + 1)
      /\ F[Len(fs) + 1] = y /\ \A i \in DOMAIN fs : F[i] = fs[i]
  BY LastOne
<1>3. \A i \in DOMAIN ws : ws[i].name # y.name
  BY DEF NamesIn
<1>4. \A i \in DOMAIN fs : fs[i].name # y.name
  BY DEF NamesIn
<1>5. MemberFits(y, y) /\ MemberCovers(y, y, {})
  BY DEF MemberFits, MemberCovers, Reaches
<1> HIDE DEF V, F
<1>6. RowFits(V, F)
  <2> SUFFICES ASSUME NEW j \in DOMAIN V, NEW k \in DOMAIN F, V[j].name = F[k].name
               PROVE  MemberFits(V[j], F[k])
    BY DEF RowFits
  <2>1. CASE j \in DOMAIN ws /\ k \in DOMAIN fs
    BY <1>1, <1>2, <2>1 DEF RowFits
  <2>2. CASE j = Len(ws) + 1 /\ k = Len(fs) + 1
    BY <1>1, <1>2, <1>5, <2>2
  <2>3. CASE j \in DOMAIN ws /\ k = Len(fs) + 1
    BY <1>1, <1>2, <1>3, <2>3
  <2>4. CASE j = Len(ws) + 1 /\ k \in DOMAIN fs
    BY <1>1, <1>2, <1>4, <2>4
  <2> QED
    BY <1>1, <1>2, <2>1, <2>2, <2>3, <2>4
<1>7. RowCovers(V, F, {})
  <2> SUFFICES ASSUME NEW k \in DOMAIN F
               PROVE  \/ Spared(F[k], {})
                      \/ \E j \in DOMAIN V : V[j].name = F[k].name /\ MemberCovers(V[j], F[k], {})
    BY DEF RowCovers
  <2>1. CASE k \in DOMAIN fs
    <3>1. \/ Spared(fs[k], {})
          \/ \E j \in DOMAIN ws : ws[j].name = fs[k].name /\ MemberCovers(ws[j], fs[k], {})
      BY <2>1 DEF RowCovers
    <3> QED
      BY <1>1, <1>2, <2>1, <3>1
  <2>2. CASE k = Len(fs) + 1
    <3>1. Len(ws) + 1 \in DOMAIN V
      BY <1>1
    <3> QED
      BY <1>1, <1>2, <1>5, <2>2, <3>1
  <2> QED
    BY <1>2, <2>1, <2>2
<1> QED
  BY <1>6, <1>7 DEF V, F

\* The first item of a list that is written.
LEMMA FirstItem ==
  ASSUME NEW nm, NEW F, NEW m \in Nat, DOMAIN F = 1..m, NEW n \in Nat, n > 0
  PROVE  LET s    == List(nm, F)
             T    == << s >>
             kids == Xml([i \in DOMAIN T |-> Fill(T[i], n)])
         IN  Len(ChildrenNamed(kids, nm)[1].kids[1].kids) = m
<1> DEFINE s == List(nm, F)
           T == << s >>
           kids == Xml([i \in DOMAIN T |-> Fill(T[i], n)])
           item(i) == FillItem(F, Place(Top, nm, 0), i)
<1>1. s.type = "array" /\ s.name = nm /\ s.fields = F
  BY DEF List, Shape
<1>2. getXml(Fill(s, n)).tag = nm
  BY <1>1, ParamNamed
<1>3. getXml(Fill(s, n)).kids = [i \in 1..n |-> ItemXml(item(i))]
  BY <1>1 DEF Fill, Val, getXml, Element
<1>4. DOMAIN kids = 1..1 /\ kids[1] = getXml(Fill(s, n))
  <2>1. DOMAIN T = {1} /\ T[1] = s /\ 1..1 = {1}
    OBVIOUS
  <2> HIDE DEF T, s
  <2> QED
    BY <2>1 DEF Xml
<1>5. DOMAIN item(1).kids = 1..m
  BY DEF FillItem, Val
<1> DEFINE kk == ItemXml(item(1)).kids
<1>6. kk = [k \in 1..m |-> MemberXml(item(1).kids[k])]
  BY <1>5 DEF ItemXml, Element
<1> HIDE DEF kids, item, s
<1>7. ChildrenNamed(kids, nm) = << kids[1] >>
  <2>1. \A k \in 1..1 : kids[k].tag = nm <=> k = 1
    BY <1>2, <1>4
  <2>2. 1 \in Nat /\ 1 \in 1..1
    OBVIOUS
  <2> QED
    BY <1>4, <2>1, <2>2, OneChild
<1>8. ChildrenNamed(kids, nm)[1].kids[1].kids = kk
  BY <1>3, <1>4, <1>7
<1> DEFINE mx(k) == MemberXml(item(1).kids[k])
<1> HIDE DEF mx, kk
<1>9. kk = [k \in 1..m |-> mx(k)]
  BY <1>6 DEF mx
<1>10. Len(kk) = m
  BY <1>9
<1> QED
  BY <1>8, <1>10 DEF kids, s

\* The alarms found for QueryAlarmRes: six members each, read in another order.
LEMMA FoundDelivered ==
  LET a  == Answer_QueryAlarmRes_B
      to == ResultOf("QueryAlarmRes", Xml(Answered(a)))
  IN  to.name = "QueryAlarmRes" /\ Delivers(a, to.shapes, {})
<1> DEFINE a == Answer_QueryAlarmRes_B
           s3 == Strs(<<"id", "type", "time">>)
           n2 == Nums(<<"state", "alarmHisRecord">>)
           us == Strs(<<"resId", "time">>)
           y == Struct("url", us)
           fs == s3 \o n2
           ws == Strs(<<"alarmHisRecord", "state", "time", "id", "type">>)
           F == fs \o <<y>>
           V == ws \o <<y>>
           b == List("group", F)
           v == List("group", V)
           kids == Xml(Answered(a))
           to == ResultOf("QueryAlarmRes", kids)
<1>1. a.items = 2 /\ a.shapes = << b >> /\ Url = << y >>
  BY DEF Answer_QueryAlarmRes_B, Answer, Group, Url
<1>2. Table(a.shapes)
  BY AnswerTables
<1>3. /\ Row(s3, {"id", "type", "time"}, "simple", S(3)) /\ Row(n2, {"state", "alarmHisRecord"}, "simple", N(2))
      /\ Row(us, {"resId", "time"}, "simple", S(2))
      /\ Row(ws, {"alarmHisRecord", "state", "time", "id", "type"}, "simple", S(5))
  BY StrsThree, NumsTwo, StrsTwo, StrsFive
<1>4. Row(fs, {"id", "type", "time"} \cup {"state", "alarmHisRecord"}, "simple", S(3) \o N(2))
  BY <1>3, Joined
<1>5. s3 = [i \in 1..3 |-> s3[i]] /\ n2 = [i \in 1..2 |-> n2[i]]
  BY DEF Strs, Nums
<1>6. Len(s3) = 3 /\ Len(n2) = 2
  BY <1>5, Indexed
<1>7. y.type = "struct" /\ y.name = "url" /\ y.fields = us
  BY DEF Struct, Shape
<1> DEFINE W == Strs(<<"id", "type", "state">>)
<1>8. to = Response("QueryAlarmRes",
                    Group(IF Len(ChildrenNamed(kids, "group")[1].kids[1].kids) = 3
                          THEN W ELSE ws \o Url))
  BY DEF ResultOf, Result_QueryAlarmRes
<1> HIDE DEF W, s3, n2, us, ws, y
<1>9. DOMAIN fs = 1..5
  <2>1. IsSeq(s3) /\ IsSeq(n2)
    BY <1>3 DEF Row
  <2>2. DOMAIN fs = 1..(Len(s3) + Len(n2))
    BY <2>1, Chained
  <2> QED
    BY <1>6, <2>2
<1>10. SimpleRow(fs) /\ SimpleRow(ws) /\ SimpleRow(us) /\ NamesIn(fs) \ {} \subseteq NamesIn(ws)
  BY <1>3, <1>4, RowIsTable DEF Row
<1>11. IsSeq(fs) /\ IsSeq(ws) /\ y.name \notin NamesIn(fs) /\ y.name \notin NamesIn(ws)
  BY <1>3, <1>4, <1>7 DEF Row
<1> HIDE DEF fs
<1>12. RowFits(ws, fs) /\ RowCovers(ws, fs, {})
  BY <1>10, SimpleRows
<1>13. RowFits(V, F) /\ RowCovers(V, F, {})
  BY <1>7, <1>10, <1>11, <1>12, RowsWith
<1>14. DOMAIN F = 1..6
  <2>1. DOMAIN fs = 1..Len(fs) /\ Len(fs) \in Nat /\ DOMAIN F = 1..(Len(fs) + 1)
    BY <1>11, LastOne
  <2>2. \A m \in Nat : 1..m = 1..5 => m = 5
    OBVIOUS
  <2> QED
    BY <1>9, <2>1, <2>2
<1>15. MemberRow(V)
  <2>1. Row(ws, {"alarmHisRecord", "state", "time", "id", "type"}, "member", S(5))
    BY <1>3, KindMore DEF Row
  <2>2. Row(Url, {"url"}, "member", <<"struct">>)
    BY UrlRow
  <2>3. Row(ws \o Url, {"alarmHisRecord", "state", "time", "id", "type"} \cup {"url"}, "member",
            S(5) \o <<"struct">>)
    BY <2>1, <2>2, Joined
  <2> QED
    BY <1>1, <2>3, RowIsTable
<1> HIDE DEF F, V
<1>16. ParamShape(v) /\ v.name = b.name /\ Fits(v, b) /\ Covers(v, b, {})
  BY <1>13, <1>15, ListCovers
<1>17. Len(ChildrenNamed(kids, "group")[1].kids[1].kids) = 6
  <2>1. Answered(a) = [i \in DOMAIN << b >> |-> Fill(<< b >>[i], 2)]
    BY <1>1 DEF Answered
  <2>2. 6 \in Nat /\ 2 \in Nat /\ 2 > 0
    OBVIOUS
  <2> DEFINE one == Xml([i \in DOMAIN << b >> |-> Fill(<< b >>[i], 2)])
             nm  == "group"
  <2> HIDE DEF nm
  <2>3. ASSUME NEW m \in Nat, DOMAIN F = 1..m, NEW n \in Nat, n > 0
        PROVE  LET s    == List(nm, F)
                   T    == << s >>
                   k == Xml([i \in DOMAIN T |-> Fill(T[i], n)])
               IN  Len(ChildrenNamed(k, nm)[1].kids[1].kids) = m
    BY <2>3, FirstItem
  <2>4. Len(ChildrenNamed(one, "group")[1].kids[1].kids) = 6
    BY <1>14, <2>2, <2>3 DEF nm
  <2> QED
    BY <2>1, <2>4
<1> HIDE DEF kids, a
<1>18. to = Response("QueryAlarmRes", << v >>)
  <2>1. Group(ws \o Url) = << v >>
    BY <1>1 DEF Group, V, v
  <2> QED
    BY <1>8, <1>17, <2>1
<1>19. to.name = "QueryAlarmRes" /\ to.shapes = << v >>
  BY <1>18 DEF Response
<1> HIDE DEF b, v, to
<1> DEFINE B == << >>
<1>20. IsSeq(B) /\ << b >> = B \o << b >> /\ << v >> = B \o << v >>
  BY NothingBefore
<1> HIDE DEF B
<1>21. Table(B \o << b >>)
  BY <1>1, <1>2, <1>20
<1>22. Readable(B \o << v >>, B \o << b >>) /\ TableCovers(B \o << v >>, B \o << b >>, NoGaps, {})
  BY <1>16, <1>20, <1>21, SameButLast
<1>23. Readable(to.shapes, a.shapes) /\ TableCovers(to.shapes, a.shapes, NoGaps, {}) /\ a.items \in Nat
  <2>1. to.shapes = B \o << v >>
    BY <1>19, <1>20
  <2>2. a.shapes = B \o << b >>
    BY <1>1, <1>20
  <2>3. a.items \in Nat
    BY <1>1
  <2> DEFINE T == B \o << b >>
             R == B \o << v >>
  <2>4. Readable(R, T) /\ TableCovers(R, T, NoGaps, {}) /\ to.shapes = R /\ a.shapes = T
    BY <1>22, <2>1, <2>2
  <2> HIDE DEF T, R
  <2> QED
    BY <2>3, <2>4
<1>24. Delivers(a, to.shapes, {})
  BY <1>2, <1>23, Delivery DEF a
<1> QED
  BY <1>19, <1>24 DEF to, a, kids

UnaskedOf(f) ==
  CASE f = "AlarmHisQuery" -> {"description"}
    [] f = "PlayQuery"     -> {"resId"}
    [] OTHER -> {}

\* ReportAlarmRes's answer in interface A: nothing.
LEMMA NothingDelivered == Delivers(Answer_ReportAlarmRes_A, Result_ReportAlarmRes.shapes, {})
<1> DEFINE a == Answer_ReportAlarmRes_A
           R == Result_ReportAlarmRes.shapes
<1>1. a.items \in Nat /\ a.shapes = << >> /\ R = Strs(<<"muId">>)
  BY DEF Answer_ReportAlarmRes_A, Answer, Result_ReportAlarmRes, Response
<1>2. Table(a.shapes)
  BY AnswerTables
<1>3. Row(Strs(<<"muId">>), {"muId"}, "param", S(1))
  BY StrsOne
<1> HIDE DEF a, R
<1>4. \A j \in DOMAIN R : ParamShape(R[j])
  BY <1>1, <1>3 DEF Row, Kind
<1>5. DOMAIN a.shapes = {}
  BY <1>1
<1>6. Readable(R, a.shapes) /\ TableCovers(R, a.shapes, NoGaps, {})
  BY <1>4, <1>5 DEF Readable, TableCovers, Given
<1>7. Delivers(a, R, {})
  BY <1>1, <1>2, <1>6, Delivery
<1> QED
  BY <1>7 DEF a, R

\* What the handlers answer the commands of two forms.
LEMMA TwofoldAnswers ==
  /\ Handlers["ReportAlarmRes_A"] = Answer_ReportAlarmRes_A
  /\ Handlers["ReportAlarmRes_B"] = Answer_ReportAlarmRes_B
  /\ Handlers["ReportCamResState_A"].fault
  /\ Handlers["ReportCamResState_B"] = Answer_ReportCamResState_B
  /\ Handlers["QueryAlarmRes_B"] = Answer_QueryAlarmRes_B
  /\ Handlers["MUKeepAlive"].fault
  /\ \A kids : /\ ResultOf("ReportAlarmRes", kids) = Result_ReportAlarmRes
               /\ ResultOf("ReportCamResState", kids) = Result_ReportCamResState
  /\ Result_ReportAlarmRes.name = "ReportAlarmRes" /\ Result_ReportCamResState.name = "ReportCamResState"
  /\ Delivers(Answer_ReportAlarmRes_B, Result_ReportAlarmRes.shapes, {})
  /\ Delivers(Answer_ReportCamResState_B, Result_ReportCamResState.shapes, {})
<1>1. /\ Handlers["ReportAlarmRes_A"] = Answer_ReportAlarmRes_A
      /\ Handlers["ReportAlarmRes_B"] = Answer_ReportAlarmRes_B
      /\ Handlers["ReportCamResState_A"] = Answer_ReportCamResState_A
      /\ Handlers["ReportCamResState_B"] = Answer_ReportCamResState_B
      /\ Handlers["QueryAlarmRes_B"] = Answer_QueryAlarmRes_B
      /\ Handlers["MUKeepAlive"] = Answer_MUKeepAlive
  BY DEF Handlers
<1>2. Answer_ReportCamResState_A.fault /\ Answer_MUKeepAlive.fault
  BY DEF Answer_ReportCamResState_A, Answer_MUKeepAlive, Fault
<1>3. /\ Results["ReportAlarmRes"] = Result_ReportAlarmRes
      /\ Results["ReportCamResState"] = Result_ReportCamResState
  BY DEF Results
<1>4. Result_ReportAlarmRes.name = "ReportAlarmRes" /\ Result_ReportCamResState.name = "ReportCamResState"
  BY DEF Result_ReportAlarmRes, Result_ReportCamResState, Response
<1>5. /\ Answer_ReportAlarmRes_B.items \in Nat /\ Answer_ReportCamResState_B.items \in Nat
      /\ Result_ReportAlarmRes.shapes = Answer_ReportAlarmRes_B.shapes
      /\ Result_ReportCamResState.shapes = Answer_ReportCamResState_B.shapes
  BY DEF Answer_ReportAlarmRes_B, Answer_ReportCamResState_B, Answer, Result_ReportAlarmRes,
         Result_ReportCamResState, Response
<1>6. Table(Answer_ReportAlarmRes_B.shapes) /\ Table(Answer_ReportCamResState_B.shapes)
  BY AnswerTables
<1>7. Delivers(Answer_ReportAlarmRes_B, Result_ReportAlarmRes.shapes, {})
  BY <1>5, <1>6, Itself
<1>8. Delivers(Answer_ReportCamResState_B, Result_ReportCamResState.shapes, {})
  BY <1>5, <1>6, Itself
<1> QED
  BY <1>1, <1>2, <1>3, <1>4, <1>7, <1>8 DEF ResultOf

\* What becomes of an answer.
Delivered(f, h) ==
  LET to == ResultOf(NameOf(f), Xml(Answered(Handlers[h])))
  IN  /\ Delivers(Handlers[h], to.shapes, UnaskedOf(f))
      /\ to.name = IF f \in DOMAIN Misnamed THEN Misnamed[f] ELSE NameOf(f)

\* The answer of a command of one form.
LEMMA ServedDelivered ==
  ASSUME NEW f \in Served, ~Handlers[f].fault
  PROVE  Delivered(f, f)
<1> DEFINE kids == Xml(Answered(Handlers[f]))
<1> HIDE DEF kids
<1>1. NameOf(f) = f /\ ResultOf(NameOf(f), kids) = Results[f]
  BY NamedOnce, FormsApart DEF ResultOf
<1>2. /\ DOMAIN Misnamed = {"HisPlayStart", "PlayCtrl", "CuKeepAlive"}
      /\ Misnamed["HisPlayStart"] = "HisPlayOpen"
  BY DEF Misnamed
<1>3. SUFFICES /\ Delivers(Handlers[f], Results[f].shapes, UnaskedOf(f))
               /\ Results[f].name = IF f \in DOMAIN Misnamed THEN Misnamed[f] ELSE f
  BY <1>1 DEF Delivered, kids
<1>4. CASE f \in Echoed
  <2>1. UnaskedOf(f) = {}
    BY <1>4 DEF UnaskedOf, Echoed
  <2>2. /\ Table(Handlers[f].shapes) /\ Results[f].shapes = Handlers[f].shapes
        /\ Results[f].name = IF f \in DOMAIN Misnamed THEN Misnamed[f] ELSE f
    BY <1>4, EchoedAnswers
  <2>3. f \in DOMAIN Handlers
    BY HandlerForms
  <2> DEFINE a == Handlers[f]
  <2>4. a.items \in Nat /\ Table(a.shapes)
    BY <2>2, <2>3, Items
  <2> HIDE DEF a
  <2>5. Delivers(a, a.shapes, {})
    BY <2>4, Itself
  <2> QED
    BY <2>1, <2>2, <2>5 DEF a
<1>5. CASE f = "HisPlayStart"
  <2>1. Handlers[f] = Answer_HisPlayStart /\ Results[f] = Result_HisPlayOpen
    BY <1>5 DEF Handlers, Results
  <2>2. UnaskedOf(f) = {} /\ Result_HisPlayOpen.name = "HisPlayOpen"
    BY <1>5 DEF UnaskedOf, Result_HisPlayOpen, Response
  <2> QED
    BY <1>2, <1>5, <2>1, <2>2, SessionDelivered
<1>6. CASE f = "AlarmHisQuery"
  <2>1. Handlers[f] = Answer_AlarmHisQuery /\ Results[f] = Result_AlarmHisQuery
    BY <1>6 DEF Handlers, Results
  <2>2. UnaskedOf(f) = {"description"} /\ Result_AlarmHisQuery.name = "AlarmHisQuery"
    BY <1>6 DEF UnaskedOf, Result_AlarmHisQuery, Response
  <2> QED
    BY <1>2, <1>6, <2>1, <2>2, HistoryDelivered
<1>7. CASE f = "PlayQuery"
  <2>1. Handlers[f] = Answer_PlayQuery /\ Results[f] = Result_PlayQuery
    BY <1>7 DEF Handlers, Results
  <2>2. UnaskedOf(f) = {"resId"} /\ Result_PlayQuery.name = "PlayQuery"
    BY <1>7 DEF UnaskedOf, Result_PlayQuery, Response
  <2> QED
    BY <1>2, <1>7, <2>1, <2>2, RecordsDelivered
<1>8. f # "MUKeepAlive"
  BY TwofoldAnswers
<1> QED
  BY <1>4, <1>5, <1>6, <1>7, <1>8 DEF Served, Echoed

\* And of one of two.
LEMMA TwofoldDelivered ==
  ASSUME NEW f \in Twofold, NEW g, ~Handlers[HandlerOf(f, g)].fault
  PROVE  Delivered(f, HandlerOf(f, g))
<1> DEFINE h == HandlerOf(f, g)
           kids == Xml(Answered(Handlers[h]))
<1>1. UnaskedOf(f) = {} /\ f \notin DOMAIN Misnamed
  BY DEF UnaskedOf, Misnamed, Twofold
<1>2. CASE f \in {"ReportAlarmRes_A", "ReportAlarmRes_B"}
  <2>1. h \in {"ReportAlarmRes_A", "ReportAlarmRes_B"}
    BY <1>2, HandlerForms DEF HandlerOf, Taken
  <2>2. NameOf(f) = "ReportAlarmRes"
    BY <1>2, TwofoldForms
  <2> HIDE DEF h
  <2>3. Delivers(Handlers[h], Result_ReportAlarmRes.shapes, {})
    BY <2>1, TwofoldAnswers, NothingDelivered
  <2> QED
    BY <1>1, <2>2, <2>3, TwofoldAnswers DEF Delivered, h
<1>3. CASE f \in {"ReportCamResState_A", "ReportCamResState_B"}
  <2>1. h \in {"ReportCamResState_A", "ReportCamResState_B"}
    BY <1>3, HandlerForms DEF HandlerOf, Taken
  <2>2. NameOf(f) = "ReportCamResState"
    BY <1>3, TwofoldForms
  <2>3. h = "ReportCamResState_B"
    BY <2>1, TwofoldAnswers
  <2> HIDE DEF h
  <2>4. Delivers(Handlers[h], Result_ReportCamResState.shapes, {})
    BY <2>3, TwofoldAnswers
  <2> QED
    BY <1>1, <2>2, <2>4, TwofoldAnswers DEF Delivered, h
<1>4. CASE f \in {"QueryAlarmRes_A", "QueryAlarmRes_B"}
  <2>1. h = "QueryAlarmRes_B"
    BY <1>4, HandlerForms DEF HandlerOf, Taken
  <2>2. NameOf(f) = "QueryAlarmRes"
    BY <1>4, TwofoldForms
  <2> HIDE DEF h
  <2>3. Handlers[h] = Answer_QueryAlarmRes_B
    BY <2>1, TwofoldAnswers
  <2> QED
    BY <1>1, <2>2, <2>3, FoundDelivered DEF Delivered, h
<1> QED
  BY <1>2, <1>3, <1>4 DEF Twofold

\* Any answer that is not a fault.
LEMMA Answering ==
  ASSUME NEW f \in DOMAIN Calls, f # "listMethods", NEW g, HandlerOf(f, g) # "none",
         ~Handlers[HandlerOf(f, g)].fault
  PROVE  Delivered(f, HandlerOf(f, g))
<1>1. f \notin Orphans
  BY FormsApart, PlainForms
<1>2. CASE f \in Served
  <2>1. HandlerOf(f, g) = f
    BY <1>2, PlainForms
  <2> QED
    BY <1>2, <2>1, ServedDelivered
<1>3. CASE f \in Twofold
  BY <1>3, TwofoldDelivered
<1> QED
  BY <1>1, <1>2, <1>3, Forms

-----------------------------------------------------------------------------
(* The state machine.                                                      *)

\* The call under way is one of its form, with the gaps chosen.
Underway ==
  /\ form \in DOMAIN Calls /\ Gaps(Calls[form], gaps)
  /\ \E n \in Nat : sent = Build(Calls[form], gaps, n)

\* A signature that the handler was found by.
Dispatched ==
  /\ handler = dispatchCallLoc(NameOf(form), getSignature(params))
  /\ phase \in {"answered", "returned"} =>
       handler # "none" /\ ~Handlers[handler].fault /\ answer = Answered(Handlers[handler])

Returned ==
  LET to == ResultOf(NameOf(form), Xml(answer))
  IN  result = [name |-> to.name, values |-> Taking(Xml(answer), to.shapes)]

\* The inductive invariant: whatever the phase, what it has is what its steps
\* make of the call sent.
IInv ==
  /\ phase \in Phases
  /\ phase = "idle" => form = "none"
  /\ phase # "idle" => Underway
  /\ phase \in {"idle", "sent", "terminated"} => params = << >>
  /\ phase \in {"idle", "sent", "terminated", "parsed"} => handler = "uncalled"
  /\ phase = "terminated" => Parse(NameOf(form), Xml(sent)) = Rejected
  /\ phase \in {"parsed", "answered", "faulted", "returned", "refused", "threw"} =>
       params # Rejected /\ params = Parse(NameOf(form), Xml(sent))
  /\ phase \in {"answered", "faulted", "returned", "refused", "threw"} => Dispatched
  /\ phase = "returned" => Returned

\* Nothing is under way at first.
LEMMA InitIInv == Init => IInv
BY DEF Init, IInv, Phases

\* A call is built.
LEMMA CallIInv ==
  ASSUME IInv, NEW f \in DOMAIN Calls, Call(f)
  PROVE  IInv'
<1>1. PICK g \in GapsOf(Calls[f]), n \in 0..MaxItems : gaps' = g /\ sent' = Build(Calls[f], g, n)
  BY DEF Call
<1>2. form' = f /\ phase' = "sent" /\ phase = "idle" /\ UNCHANGED <<params, handler>>
  BY DEF Call
<1>3. Gaps(Calls[f], g)
  BY GapsAllowed
<1>4. n \in Nat
  BY MaxItemsAssumption
<1>5. Underway'
  BY <1>1, <1>2, <1>3, <1>4 DEF Underway
<1> QED
  BY <1>2, <1>5 DEF IInv, Phases

\* The server's parser reads it, or gives it up.
LEMMA waitForCallIInv ==
  ASSUME IInv, waitForCall
  PROVE  IInv'
<1> DEFINE read == Parse(NameOf(form), Xml(sent))
<1>1. /\ phase = "sent" /\ UNCHANGED <<form, gaps, sent, handler>>
      /\ IF read = Rejected THEN phase' = "terminated" /\ params' = params
         ELSE phase' = "parsed" /\ params' = read
  BY DEF waitForCall
<1>2. Underway /\ params = << >> /\ handler = "uncalled"
  BY <1>1 DEF IInv
<1>3. Underway'
  BY <1>1, <1>2 DEF Underway
<1>4. Parse(NameOf(form), Xml(sent))' = read
  BY <1>1
<1> HIDE DEF read
<1>5. CASE read = Rejected
  BY <1>1, <1>2, <1>3, <1>4, <1>5 DEF IInv, Phases
<1>6. CASE read # Rejected
  BY <1>1, <1>2, <1>3, <1>4, <1>6 DEF IInv, Phases
<1> QED
  BY <1>5, <1>6

\* The handler is found and answers.
LEMMA dispatchCallIInv ==
  ASSUME IInv, dispatchCall
  PROVE  IInv'
<1> DEFINE h == dispatchCallLoc(NameOf(form), getSignature(params))
           a == IF h = "none" THEN Fault ELSE Handlers[h]
<1>1. /\ phase = "parsed" /\ UNCHANGED <<form, gaps, sent, params>>
      /\ handler' = h /\ answer' = Answered(a)
      /\ phase' = IF a.fault THEN "faulted" ELSE "answered"
  BY DEF dispatchCall, Answered
<1>2. Underway /\ params # Rejected /\ params = Parse(NameOf(form), Xml(sent))
  BY <1>1 DEF IInv
<1>3. Underway' /\ params' # Rejected /\ params' = Parse(NameOf(form), Xml(sent))'
  BY <1>1, <1>2 DEF Underway
<1>4. handler' = dispatchCallLoc(NameOf(form), getSignature(params))'
  BY <1>1
<1>5. Fault.fault
  BY DEF Fault
<1> HIDE DEF h
<1>6. ~a.fault => h # "none" /\ a = Handlers[h]
  BY <1>5
<1> HIDE DEF a
<1>7. Dispatched'
  BY <1>1, <1>4, <1>6 DEF Dispatched
<1>8. phase' \in {"faulted", "answered"}
  BY <1>1
<1> QED
  BY <1>3, <1>7, <1>8 DEF IInv, Phases

\* The client's parser reads the answer or the fault, or throws at the fault.
LEMMA AnsweredIInv ==
  ASSUME IInv, waitForFault \/ waitForResponse
  PROVE  IInv'
<1>1. /\ UNCHANGED <<form, gaps, sent, params, handler, answer>>
      /\ \/ phase = "faulted" /\ phase' \in {"refused", "threw"}
         \/ phase = "answered" /\ phase' = "returned"
  BY DEF waitForFault, waitForResponse
<1>2. Underway /\ params # Rejected /\ params = Parse(NameOf(form), Xml(sent)) /\ Dispatched
  BY <1>1 DEF IInv
<1>3. Underway' /\ params' # Rejected /\ params' = Parse(NameOf(form), Xml(sent))'
  BY <1>1, <1>2 DEF Underway
<1>4. Dispatched'
  BY <1>1, <1>2 DEF Dispatched
<1>5. phase' = "returned" => Returned'
  <2> SUFFICES ASSUME phase' = "returned"
               PROVE  Returned'
    OBVIOUS
  <2>1. waitForResponse
    BY DEF waitForFault
  <2>2. LET to == ResultOf(NameOf(form), Xml(answer))
        IN  result' = [name |-> to.name, values |-> Taking(Xml(answer), to.shapes)]
    BY <2>1 DEF waitForResponse, Taking
  <2> QED
    BY <1>1, <2>2 DEF Returned
<1>6. phase' \in {"refused", "threw", "returned"}
  BY <1>1
<1> QED
  BY <1>3, <1>4, <1>5, <1>6 DEF IInv, Phases

\* All is forgotten.
LEMMA CloseAndWaitIInv ==
  ASSUME CloseAndWait
  PROVE  IInv'
BY DEF CloseAndWait, IInv, Phases

\* Nothing happens.
LEMMA StutterIInv ==
  ASSUME IInv, UNCHANGED vars
  PROVE  IInv'
BY DEF vars, IInv, Underway, Dispatched, Returned

\* Every call under way is as its form and its gaps make it, to the end.
THEOREM IInvHolds == Spec => []IInv
<1>1. IInv /\ [Next]_vars => IInv'
  BY CallIInv, waitForCallIInv, dispatchCallIInv, AnsweredIInv, CloseAndWaitIInv, StutterIInv
     DEF Next
<1> QED
  BY InitIInv, <1>1, PTL DEF Spec

-----------------------------------------------------------------------------
(* The invariants of the run.                                              *)

\* TakenForA, Unread and Unasked of the call under way.
LEMMA OfTheCall ==
  /\ TakenForA <=> Taken(form, gaps)
  /\ Unread = UnreadOf(form, gaps) /\ Unasked = UnaskedOf(form)
<1>1. TakenForA <=> Taken(form, gaps)
  BY DEF TakenForA, Taken, Void_at
<1> QED
  BY <1>1 DEF Unread, UnreadOf, Unasked, UnaskedOf

\* Whatever is called, a call that the parser has not given up is of a form it
\* knows, read as Parsing says.
LEMMA CallRead ==
  ASSUME IInv, phase \in {"parsed", "answered", "faulted", "returned", "refused", "threw"}
  PROVE  /\ form \in DOMAIN Calls /\ form # "listMethods"
         /\ \A i \in DOMAIN params : params[i].type \in {"string", "int", "array", "struct"}
         /\ Astray(params) = {} /\ Lost(sent, params) \subseteq UnreadOf(form, gaps)
         /\ dispatchCallLoc(NameOf(form), getSignature(params)) = HandlerOf(form, gaps)
<1>1. Underway /\ params # Rejected /\ params = Parse(NameOf(form), Xml(sent))
  BY DEF IInv
<1>2. PICK n \in Nat : sent = Build(Calls[form], gaps, n)
  BY <1>1 DEF Underway
<1>3. form \in DOMAIN Calls /\ Gaps(Calls[form], gaps)
  BY <1>1 DEF Underway
<1>4. form # "listMethods"
  BY <1>1, <1>2, <1>3, Unlisted
<1> QED
  BY <1>1, <1>2, <1>3, <1>4, Parsing

\* A handler that is called is the one HandlerOf says.
LEMMA ReachedHandler ==
  ASSUME IInv, handler # "uncalled"
  PROVE  /\ phase \in {"answered", "faulted", "returned", "refused", "threw"}
         /\ form \in DOMAIN Calls /\ form # "listMethods" /\ handler = HandlerOf(form, gaps)
<1>1. phase \in {"answered", "faulted", "returned", "refused", "threw"}
  BY DEF IInv, Phases
<1>2. handler = dispatchCallLoc(NameOf(form), getSignature(params))
  BY <1>1 DEF IInv, Dispatched
<1> QED
  BY <1>1, <1>2, CallRead

\* A handler that is called exists, and the parameters it is called with, which
\* dispatchCall makes a signature of, are values of the four types and never
\* void, whatever a caller of the parsers' methods left out.
THEOREM TypeOKHolds == Spec => []TypeOK
<1>1. ASSUME IInv PROVE TypeOK
  <2>1. form \in DOMAIN Calls \cup {"none"}
    BY <1>1 DEF IInv, Underway
  <2>2. \A i \in DOMAIN params : params[i].type \in {"string", "int", "array", "struct"}
    <3>1. CASE phase \in {"idle", "sent", "terminated"}
      BY <1>1, <3>1 DEF IInv
    <3>2. CASE phase \in {"parsed", "answered", "faulted", "returned", "refused", "threw"}
      BY <1>1, <3>2, CallRead
    <3> QED
      BY <1>1, <3>1, <3>2 DEF IInv, Phases
  <2>3. handler \in DOMAIN Handlers \cup {"uncalled", "none"}
    <3> SUFFICES ASSUME handler # "uncalled"
                 PROVE  handler \in DOMAIN Handlers \cup {"none"}
      OBVIOUS
    <3>1. handler = HandlerOf(form, gaps)
      BY <1>1, ReachedHandler
    <3>2. HandlerOf(form, gaps) \in DOMAIN Handlers \cup {"none"}
      BY HandlerForms DEF HandlerOf, Twofold
    <3> QED
      BY <3>1, <3>2
  <2> QED
    BY <1>1, <2>1, <2>2, <2>3 DEF IInv, TypeOK
<1> QED
  BY IInvHolds, <1>1, PTL

\* Whatever is left out or empty, a call that the server's parser lets through
\* reaches the method of its own command and interface, or none when there is
\* none: the parser's list of parameters is the signature the method was added
\* with, and no other method has its name and signature.  The exceptions are
\* QueryAlarmRes's interface A, and calls of interface B without their muId.
THEOREM OwnHandlerHolds == Spec => []OwnHandler
<1>1. ASSUME IInv PROVE OwnHandler
  <2> SUFFICES ASSUME handler # "uncalled"
               PROVE  CASE form = "QueryAlarmRes_A" -> handler = "QueryAlarmRes_B"
                        [] TakenForA                -> handler = (IF form = "ReportAlarmRes_B"
                                                THEN "ReportAlarmRes_A" ELSE "ReportCamResState_A")
                        [] OTHER -> handler = (IF form \in DOMAIN Handlers THEN form ELSE "none")
    BY DEF OwnHandler
  <2>1. handler = HandlerOf(form, gaps)
    BY <1>1, ReachedHandler
  <2>2. form = "QueryAlarmRes_A" => ~TakenForA
    BY DEF TakenForA
  <2> QED
    BY <2>1, <2>2, OfTheCall DEF HandlerOf
<1> QED
  BY IInvHolds, <1>1, PTL

\* Of a call that the server's parser lets through, every text the caller filled
\* is read at its own parameter, item, member and field, and none at another's,
\* however many items its lists have; only the fields of Unread are lost, and
\* those of a call without gaps are; and its parameters are in the order sent.
THEOREM CallArrivesHolds == Spec => []CallArrives
<1>1. ASSUME IInv PROVE CallArrives
  <2> SUFFICES ASSUME phase = "parsed"
               PROVE  /\ Astray(params) = {}
                      /\ Lost(sent, params) \subseteq Unread
                      /\ Complete /\ HasItems => Lost(sent, params) = Unread
                      /\ Complete => Names(params) = Names(sent)
    BY DEF CallArrives
  <2>1. /\ form \in DOMAIN Calls /\ form # "listMethods"
        /\ Astray(params) = {} /\ Lost(sent, params) \subseteq Unread
    BY <1>1, CallRead, OfTheCall
  <2>2. Underway /\ params = Parse(NameOf(form), Xml(sent))
    BY <1>1 DEF IInv
  <2>3. PICK n \in Nat : sent = Build(Calls[form], gaps, n)
    BY <2>2 DEF Underway
  <2>4. Complete => Names(params) = Names(sent)
    <3> SUFFICES ASSUME gaps = NoGaps
                 PROVE  Names(params) = Names(sent)
      BY DEF Complete
    <3> QED
      BY <2>1, <2>2, <2>3, NoGapsAllowed, Parsing
  <2>5. Complete /\ HasItems => Lost(sent, params) = Unread
    <3> SUFFICES ASSUME gaps = NoGaps, HasItems
                 PROVE  Lost(sent, params) = Unread
      BY DEF Complete
    <3>1. sent = Build(Calls[form], NoGaps, n)
      BY <2>3
    <3>2. \A i \in DOMAIN sent : sent[i].type = "array" => sent[i].kids # << >>
      BY DEF HasItems
    <3>3. Lost(sent, params) = UnreadOf(form, NoGaps)
      BY <2>1, <2>2, <3>1, <3>2, LosingAll
    <3> QED
      BY <3>3, OfTheCall
  <2> QED
    BY <2>1, <2>4, <2>5
<1> QED
  BY IInvHolds, <1>1, PTL

\* Of what a handler answers, every text is read by the client's parser at its
\* own place, but for a description and a resId, which no method looks for; and
\* the response has the name of its command, but for three.
THEOREM AnswerArrivesHolds == Spec => []AnswerArrives
<1>1. ASSUME IInv PROVE AnswerArrives
  <2> SUFFICES ASSUME phase = "returned"
               PROVE  /\ Astray(result.values) = {}
                      /\ Lost(answer, result.values) = Unasked
                      /\ result.name = IF form \in DOMAIN Misnamed THEN Misnamed[form] ELSE NameOf(form)
    BY DEF AnswerArrives
  <2> DEFINE h == handler
             to == ResultOf(NameOf(form), Xml(answer))
  <2>1. handler # "none" /\ ~Handlers[handler].fault /\ answer = Answered(Handlers[handler])
    BY <1>1 DEF IInv, Dispatched
  <2>2. result = [name |-> to.name, values |-> Taking(Xml(answer), to.shapes)]
    BY <1>1 DEF IInv, Returned
  <2>3. handler = dispatchCallLoc(NameOf(form), getSignature(params))
    BY <1>1 DEF IInv, Dispatched
  <2>4. form \in DOMAIN Calls /\ form # "listMethods" /\ handler = HandlerOf(form, gaps)
    BY <1>1, <2>3, CallRead
  <2>5. Delivered(form, handler)
    BY <2>1, <2>4, Answering
  <2>6. /\ Delivers(Handlers[handler], to.shapes, Unasked)
        /\ to.name = IF form \in DOMAIN Misnamed THEN Misnamed[form] ELSE NameOf(form)
    BY <2>1, <2>5, OfTheCall DEF Delivered
  <2> HIDE DEF to
  <2>7. /\ Astray(Taking(Xml(answer), to.shapes)) = {}
        /\ Lost(answer, Taking(Xml(answer), to.shapes)) = Unasked
    BY <2>1, <2>6 DEF Delivers
  <2>8. result.name = to.name /\ result.values = Taking(Xml(answer), to.shapes)
    BY <2>2
  <2> QED
    BY <2>6, <2>7, <2>8
<1> QED
  BY IInvHolds, <1>1, PTL

\* A call that terminates the server has left something out or empty, or is of a
\* command that its parser does not know: the parser of a command finds every
\* parameter it looks for in what the command's caller writes.
THEOREM OnlyGapsTerminateHolds == Spec => []OnlyGapsTerminate
<1>1. ASSUME IInv PROVE OnlyGapsTerminate
  <2> SUFFICES ASSUME phase = "terminated", gaps = NoGaps, form # "listMethods"
               PROVE  FALSE
    BY DEF OnlyGapsTerminate, Complete
  <2>1. Underway /\ Parse(NameOf(form), Xml(sent)) = Rejected
    BY <1>1 DEF IInv
  <2>2. PICK n \in Nat : sent = Build(Calls[form], gaps, n)
    BY <2>1 DEF Underway
  <2>3. form \in DOMAIN Calls /\ Gaps(Calls[form], gaps)
    BY <2>1 DEF Underway
  <2> QED
    BY <2>1, <2>2, <2>3, Parsing
<1> QED
  BY IInvHolds, <1>1, PTL

=============================================================================
