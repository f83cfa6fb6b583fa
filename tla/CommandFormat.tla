--------------------------- MODULE CommandFormat ---------------------------
(***************************************************************************)
(* How a command is put into an XML body and taken out again.              *)
(*                                                                         *)
(* A sender's format gives its nodes in document order, each a pair of its *)
(* tag and the struct fields its text is printed from; and its lists, each *)
(* with the list's node, the struct's counter its loop runs to, the        *)
(* counter that says how many entries the caller filled, and the nodes of  *)
(* one entry.  A parser's format gives, for each tag it tests, the fields  *)
(* it copies the text to; and for each list node the counter it sets, if   *)
(* any, and whether the method copies its node's own text or the whole     *)
(* list's.  Tags that differ only in case are equal (xmlStrcasecmp).       *)
(***************************************************************************)
EXTENDS Naturals, Sequences, SequencesExt, Functions

\* Nodes named after the field they carry.
Own(names) == [i \in DOMAIN names |-> <<names[i], <<names[i]>> >>]
Named(tag, field) == << <<tag, <<field>> >> >>

List(node, loops, holds, row) == [node |-> node, loops |-> loops, holds |-> holds, row |-> row]
Group(row) == << List("group", "urlNum", "urlNum", row) >>
Sends(flat, lists) == [flat |-> flat, lists |-> lists]

\* Tags copied to the field of the same name, and to others.
Same(tags) == [t \in tags |-> {t}]
Into(tag, fields) == [t \in {tag} |-> fields]
Uncounted == "none"
Rows(counter, row) == [counter |-> counter, row |-> row, whole |-> FALSE]
WholeRows(row) == [counter |-> Uncounted, row |-> row, whole |-> TRUE]
InGroup(counter, row) == [node \in {"group"} |-> Rows(counter, row)]
NoLists == [node \in {} |-> Rows(Uncounted, Same({}))]
Reads(flat, lists) == [flat |-> flat, lists |-> lists]

\* Two tables, or two readers: the first is asked before the second.
Over(f, g) == [t \in DOMAIN f \cup DOMAIN g |-> IF t \in DOMAIN f THEN f[t] ELSE g[t]]

\* The fields a reader copies a tag's text to: none, when it does not test it.
Targets(f, tag) == IF tag \in DOMAIN f THEN f[tag] ELSE {}
ListReader(reads, node) ==
  IF node \in DOMAIN reads.lists THEN reads.lists[node] ELSE Rows(Uncounted, Same({}))

\* An entry's nodes, each with the text its reader takes for it: the node's own,
\* or that of all the list's nodes, one after the other.
Joined(leaves) == [i \in DOMAIN leaves |-> Head(leaves[i][2])]
Taken(reader, leaves) ==
  IF reader.whole THEN [i \in DOMAIN leaves |-> <<leaves[i][1], Joined(leaves)>>] ELSE leaves

Resource == {"resId", "name", "location", "purpose", "information"}
ResourceNodes == Own(<<"resId", "name", "location", "purpose", "information">>)

=============================================================================
