----------------------------- MODULE RpcValues -----------------------------
(***************************************************************************)
(* libxmlrpc's values, the XML they are written as, and the readers of the *)
(* two parsers, which take a node's children apart by name.                *)
(*                                                                         *)
(* A shape says what a program builds or a parser looks for.  Nothing of   *)
(* either nests deeper than this: a parameter is a member or a list, a     *)
(* list has items named URL of members, and a member is simple, a string   *)
(* or a number, or a struct of simple ones.  A value has a name, a type, a *)
(* text and the values in it.  A text is the place the caller filled with  *)
(* it: where one ends up is where it was put, or it has gone astray.  No   *)
(* text is read as a number that was not written as one.                   *)
(***************************************************************************)
EXTENDS Naturals, Sequences, FiniteSets

Shape(name, type, fields) == [name |-> name, type |-> type, fields |-> fields]
Str(name) == Shape(name, "string", << >>)
Num(name) == Shape(name, "int", << >>)
Struct(name, fields) == Shape(name, "struct", fields)
List(name, fields)   == Shape(name, "array", fields)

Strs(names) == [i \in DOMAIN names |-> Str(names[i])]
Nums(names) == [i \in DOMAIN names |-> Num(names[i])]

NoText == << >>
Val(name, type, text, kids) == [name |-> name, type |-> type, text |-> text, kids |-> kids]
Void(name) == Val(name, "void", NoText, << >>)

\* The parsers' test for a parameter that is not there.
IsVoid(v) == v.type = "void"

\* A place in a list of parameters: the place it lies in, a name, and an index
\* in a list.
Top == << >>
Place(at, name, i) == <<at, name, i>>

\* The k-th number of a set, and a sequence's members at the indices in a set.
Nth(S, k) == CHOOSE i \in S : Cardinality({j \in S : j <= i}) = k
Only(seq, S) == [k \in 1..Cardinality(S) |-> seq[Nth(S, k)]]

-----------------------------------------------------------------------------
\* The value of a shape that a program fills, each list with n items.
FillSimple(s, at) == Val(s.name, s.type, Place(at, s.name, 0), << >>)
FillMember(s, at) ==
  IF s.type = "struct"
  THEN Val(s.name, s.type, NoText,
           [k \in DOMAIN s.fields |-> FillSimple(s.fields[k], Place(at, s.name, 0))])
  ELSE FillSimple(s, at)
FillItem(fields, at, i) ==
  Val("URL", "struct", NoText,
      [k \in DOMAIN fields |-> FillMember(fields[k], Place(at, "URL", i))])
Fill(s, n) ==
  IF s.type = "array"
  THEN Val(s.name, s.type, NoText,
           [i \in 1..n |-> FillItem(s.fields, Place(Top, s.name, 0), i)])
  ELSE FillMember(s, Top)

\* The element a value is written as.  An empty string leaves no text node.
Element(v, kids) == [tag |-> v.name, text |-> v.text, kids |-> kids]
SimpleXml(v) == Element(v, << >>)
MemberXml(v) == Element(v, [k \in DOMAIN v.kids |-> SimpleXml(v.kids[k])])
ItemXml(v)   == Element(v, [k \in DOMAIN v.kids |-> MemberXml(v.kids[k])])
getXml(v) ==
  IF v.type = "array" THEN Element(v, [k \in DOMAIN v.kids |-> ItemXml(v.kids[k])])
  ELSE MemberXml(v)

-----------------------------------------------------------------------------
ChildrenNamed(kids, name) == Only(kids, {i \in DOMAIN kids : kids[i].tag = name})

\* Only the first child of the name counts.
getSimpleValue(kids, s) ==
  LET found == ChildrenNamed(kids, s.name) IN
  IF found = << >> \/ found[1].text = NoText THEN Void(s.name)
  ELSE Val(s.name, s.type, found[1].text, << >>)

\* A struct's members are those of its first child: none, when there is none.
getMember(kids, s) ==
  LET found == ChildrenNamed(kids, s.name) IN
  IF s.type = "struct"
  THEN Val(s.name, s.type, NoText,
           IF found = << >> THEN << >>
           ELSE [k \in DOMAIN s.fields |-> getSimpleValue(found[1].kids, s.fields[k])])
  ELSE getSimpleValue(kids, s)

\* The members of the index-th child of the name: no member, when there is none.
\* Mutant: index is not used, as in a call without it.
getStructValue_first(kids, name, fields, index) ==
  LET found == ChildrenNamed(kids, name) IN
  Val(name, "struct", NoText,
      IF found = << >> THEN << >>
      ELSE [k \in DOMAIN fields |-> getMember(found[1].kids, fields[k])])
getStructValue(kids, name, fields, index) ==
  LET found == ChildrenNamed(kids, name) IN
  Val(name, "struct", NoText,
      IF index > Len(found) THEN << >>
      ELSE [k \in DOMAIN fields |-> getMember(found[index].kids, fields[k])])

\* As many items as the list has children.  Mutant: a list without any is void.
getArrayValue_filled(kids, name, item, fields) ==
  LET found == ChildrenNamed(kids, name) IN
  IF found = << >> \/ found[1].kids = << >> THEN Void("unnamed")
  ELSE Val(name, "array", NoText,
           [i \in DOMAIN found[1].kids |-> getStructValue(found[1].kids, item, fields, i)])
getArrayValue(kids, name, item, fields) ==
  LET found == ChildrenNamed(kids, name) IN
  IF found = << >> THEN Void("unnamed")
  ELSE Val(name, "array", NoText,
           [i \in DOMAIN found[1].kids |-> getStructValue(found[1].kids, item, fields, i)])

getValue(kids, s) ==
  IF s.type = "array" THEN getArrayValue(kids, s.name, "URL", s.fields) ELSE getMember(kids, s)

ReadAll(kids, shapes) == [i \in DOMAIN shapes |-> getValue(kids, shapes[i])]

\* The signature of a list of parameters: their types.
getSignature(values) == [i \in DOMAIN values |-> values[i].type]

-----------------------------------------------------------------------------
\* Where each text of a list of values lies: pairs of a place and a text.
TextAt(v, place) == IF v.text = NoText THEN {} ELSE {<<place, v.text>>}
MemberTexts(v, at) ==
  LET here == Place(at, v.name, 0) IN
  TextAt(v, here)
  \cup UNION {TextAt(v.kids[k], Place(here, v.kids[k].name, 0)) : k \in DOMAIN v.kids}
ItemTexts(v, at, i) ==
  UNION {MemberTexts(v.kids[k], Place(at, v.name, i)) : k \in DOMAIN v.kids}
Texts(v) ==
  IF v.type = "array"
  THEN UNION {ItemTexts(v.kids[i], Place(Top, v.name, 0), i) : i \in DOMAIN v.kids}
  ELSE MemberTexts(v, Top)

TextsOf(values) == UNION {Texts(values[i]) : i \in DOMAIN values}

=============================================================================
